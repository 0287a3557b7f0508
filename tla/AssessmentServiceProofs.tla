----------------------- MODULE AssessmentServiceProofs -----------------------
(***************************************************************************)
(* The types and the safety properties of AssessmentService, proved for    *)
(* every set of assessments, findings, keys, seals and calls and every     *)
(* bound, and its refinement of AssessmentLifecycle.                       *)
(*                                                                         *)
(* Every step of the service commits at most one revision of one           *)
(* assessment.  Once the types are shown, a lemma reduces the steps to the *)
(* nine commits they can make; what concerns records and journals alone is *)
(* proved commit by commit rather than action by action.  The tasks that   *)
(* a crash takes away, and the files they publish, come last.              *)
(***************************************************************************)
EXTENDS AssessmentService, TLAPS

-----------------------------------------------------------------------------
(* Type correctness. *)

\* The snapshots the transactions write are records.
LEMMA SnapshotTyped ==
    ASSUME NEW r \in Records
    PROVE  /\ \A s \in States : [r EXCEPT !.state = s] \in Records
           /\ \A n \in Nat : [r EXCEPT !.pendingCancellation = n] \in Records
           /\ \A s \in States, c \in FailureCodes :
                 [r EXCEPT !.state = s, !.failureCode = c] \in Records
           /\ \A s \in States, c \in FailureCodes, p \in SealIds \cup {NoSeal} :
                 [r EXCEPT !.state = s, !.failureCode = c, !.publication = p] \in Records
           /\ \A d \in [Findings -> Resolutions], w \in {"null", "OPEN", "RESOLVED"} :
                 [r EXCEPT !.decisions = d, !.window = w] \in Records
           /\ \A s \in States, c \in FailureCodes, w \in {"null", "OPEN", "RESOLVED"},
                 found \in SUBSET Findings, n \in Nat :
                 [r EXCEPT !.state = s, !.failureCode = c, !.window = w,
                           !.windowFindings = found, !.windowEvidence = n] \in Records
<1>1. \A s \in States, c \in FailureCodes :
         [r EXCEPT !.state = s, !.failureCode = c] \in Records
  BY DEF Records
<1>2. \A n \in Nat : [r EXCEPT !.pendingCancellation = n] \in Records
  BY DEF Records
<1>3. \A s \in States, c \in FailureCodes, p \in SealIds \cup {NoSeal} :
         [r EXCEPT !.state = s, !.failureCode = c, !.publication = p] \in Records
  BY DEF Records
<1>4. \A d \in [Findings -> Resolutions], w \in {"null", "OPEN", "RESOLVED"} :
         [r EXCEPT !.decisions = d, !.window = w] \in Records
  BY DEF Records
<1>5. \A s \in States, c \in FailureCodes, w \in {"null", "OPEN", "RESOLVED"},
         found \in SUBSET Findings, n \in Nat :
         [r EXCEPT !.state = s, !.failureCode = c, !.window = w,
                   !.windowFindings = found, !.windowEvidence = n] \in Records
  BY DEF Records
<1>6. \A s \in States : [r EXCEPT !.state = s] \in Records
  BY DEF Records
<1> QED
  BY <1>1, <1>2, <1>3, <1>4, <1>5, <1>6

\* The snapshots that end an Assessment, and the one that opens a Risk Decision Window.
LEMMA EndedTyped ==
    ASSUME NEW r \in Records, NEW p \in SealIds \cup {NoSeal}, NEW s \in {"SEALED", "CANCELED"}
    PROVE  [r EXCEPT !.state = s, !.failureCode = "null", !.publication = p] \in Records
<1>1. s \in States /\ "null" \in FailureCodes
  BY DEF States, FailureCodes
<1> QED
  BY <1>1 DEF Records

LEMMA WindowTyped ==
    ASSUME NEW r \in Records, NEW found \in SUBSET Findings, NEW n \in Nat
    PROVE  [r EXCEPT !.state = "BLOCKED", !.failureCode = "RISK_DECISION_WINDOW",
                     !.window = "OPEN", !.windowFindings = found, !.windowEvidence = n]
             \in Records
<1>1. "BLOCKED" \in States /\ "RISK_DECISION_WINDOW" \in FailureCodes
  BY DEF States, FailureCodes
<1> QED
  BY <1>1 DEF Records

\* One committed revision keeps the two tables well typed.
LEMMA CommitTyped ==
    ASSUME TypeOK,
           NEW a \in Assessments, NEW snapshot \in Records, NEW event \in Events,
           Commit(a, snapshot, event)
    PROVE  /\ record' \in [Assessments -> Records]
           /\ journal' \in [Assessments -> Seq(Events)]
<1>1. record[a] \in Records /\ record[a].revision \in Nat
  BY DEF TypeOK, Records
<1>2. [snapshot EXCEPT !.revision = record[a].revision + 1] \in Records
  BY <1>1 DEF Records
<1>3. Append(journal[a], event) \in Seq(Events)
  BY DEF TypeOK
<1> QED
  BY <1>2, <1>3 DEF Commit, TypeOK

LEMMA BlockTyped ==
    ASSUME TypeOK, NEW a \in Assessments, NEW r, NEW code \in FailureCodes,
           Block(a, r, code)
    PROVE  /\ record' \in [Assessments -> Records]
           /\ journal' \in [Assessments -> Seq(Events)]
<1>1. [record[a] EXCEPT !.state = "BLOCKED", !.failureCode = code] \in Records
  BY SnapshotTyped DEF TypeOK, States
<1>2. CASE Blockable(a, r)
  BY <1>1, <1>2, CommitTyped DEF Block, Events
<1>3. CASE ~Blockable(a, r)
  BY <1>3 DEF Block, TypeOK
<1> QED
  BY <1>2, <1>3

LEMMA SealTyped ==
    ASSUME TypeOK, NEW a \in Assessments, NEW s \in SealIds \cup {NoSeal}, Seal(a, s)
    PROVE  /\ record' \in [Assessments -> Records]
           /\ journal' \in [Assessments -> Seq(Events)]
<1>1. [record[a] EXCEPT !.state = "SEALED", !.failureCode = "null",
                        !.publication = s] \in Records
  <2>1. record[a] \in Records
    BY DEF TypeOK
  <2> QED
    BY <2>1, EndedTyped
<1> QED
  BY <1>1, CommitTyped DEF Seal, Events

LEMMA CompleteCancellationTyped ==
    ASSUME TypeOK, NEW a \in Assessments, NEW r, CompleteCancellation(a, r)
    PROVE  /\ record' \in [Assessments -> Records]
           /\ journal' \in [Assessments -> Seq(Events)]
<1>1. [record[a] EXCEPT !.state = "CANCELED", !.failureCode = "null",
                        !.publication = NoSeal] \in Records
  <2>1. record[a] \in Records
    BY DEF TypeOK
  <2> QED
    BY <2>1, EndedTyped
<1>2. "assessment_canceled" \in Events
  BY DEF Events
<1> DEFINE snapshot == [record[a] EXCEPT !.state = "CANCELED", !.failureCode = "null",
                                         !.publication = NoSeal]
<1>3. \/ Commit(a, snapshot, "assessment_canceled")
      \/ UNCHANGED <<record, journal>>
  BY Zenon DEF CompleteCancellation
<1>4. snapshot \in Records
  BY <1>1
<1> HIDE DEF snapshot
<1>5. CASE Commit(a, snapshot, "assessment_canceled")
  BY <1>2, <1>4, <1>5, CommitTyped
<1>6. CASE UNCHANGED <<record, journal>>
  BY <1>6 DEF TypeOK
<1> QED
  BY <1>3, <1>5, <1>6

LEMMA InitTyped == Init => TypeOK
BY BoundAssumption DEF Init, TypeOK, AbsentRecord, Records, NoRunner, Runners,
    Finalizers, States, FailureCodes, Resolutions, RunnerSteps

LEMMA FinalizeTyped ==
    ASSUME TypeOK, NEW c \in Calls, NEW a \in Assessments, NEW state, NEW window,
           NEW r \in Nat, Finalize(c, a, state, window, r)
    PROVE  finalizer' \in [Calls -> Finalizers]
<1>1. [IdleFinalizer EXCEPT !.pc = "reading", !.target = a, !.revision = r]
        \in Finalizers
  BY DEF IdleFinalizer, Finalizers
<1> QED
  BY <1>1 DEF Finalize, TypeOK

LEMMA QuellTyped ==
    ASSUME TypeOK, NEW a \in Assessments, NEW r \in Nat, Quell(a, r)
    PROVE  /\ turn' \subseteq TurnSteps
           /\ runner' \in [Assessments -> Runners]
           /\ cancelling' \subseteq [target: Assessments, revision: Nat]
<1>1. [runner[a] EXCEPT !.aborted = TRUE] \in Runners
  BY DEF TypeOK, Runners
<1>2. CASE runner[a].pc = "none"
  <2>1. CompletionOf(a, r) \in TurnSteps
    BY DEF CompletionOf, TurnSteps
  <2> QED
    BY <1>2, <2>1 DEF Quell, TypeOK
<1>3. CASE runner[a].pc # "none"
  <2>1. [target |-> a, revision |-> r] \in [target: Assessments, revision: Nat]
    OBVIOUS
  <2>2. runner' \in [Assessments -> Runners]
    BY <1>1, <1>3 DEF Quell, TypeOK
  <2> QED
    BY <1>3, <2>1, <2>2 DEF Quell, TypeOK
<1> QED
  BY <1>2, <1>3

LEMMA ReceiveTyped ==
    ASSUME TypeOK, NEW a \in Assessments, NEW k \in Keys, NEW op \in Operations,
           Receive(op, a, k)
    PROVE  receipts' \subseteq Receipts
<1>1. record[a].revision + 1 \in Nat
  BY DEF TypeOK, Records
<1>2. [operation |-> op, target |-> a, key |-> k,
       revision |-> record[a].revision + 1] \in Receipts
  BY <1>1 DEF Receipts
<1> QED
  BY <1>2 DEF Receive, TypeOK

\* A runner whose step or seal changes is still a runner.
LEMMA RunnerTyped ==
    ASSUME NEW r \in Runners
    PROVE  /\ \A pc \in RunnerSteps : [r EXCEPT !.pc = pc] \in Runners
           /\ \A b \in BOOLEAN : [r EXCEPT !.aborted = b] \in Runners
           /\ \A pc \in RunnerSteps, s \in SealIds :
                 [r EXCEPT !.pc = pc, !.seal = s] \in Runners
BY DEF Runners

LEMMA NoRunnerTyped ==
    /\ NoRunner \in Runners
    /\ \A pc \in RunnerSteps : [NoRunner EXCEPT !.pc = pc] \in Runners
    /\ \A pc \in RunnerSteps, n \in Nat :
          [NoRunner EXCEPT !.pc = pc, !.revision = n] \in Runners
BY DEF NoRunner, Runners, RunnerSteps

LEMMA ClientTyped ==
    ASSUME TypeOK, NEW a \in Assessments, ClientRequest(a)
    PROVE  TypeOK'
<1> USE DEF store, disk
<1>0. /\ record[a] \in Records
      /\ record[a].revision \in Nat
      /\ record[a].revision + 1 \in Nat
  BY DEF TypeOK, Records
<1>1. CASE AdmitStart(a) \/ AbandonStart(a)
  BY <1>1 DEF AdmitStart, AbandonStart, TypeOK
<1>2. CASE AdmitDecision(a) \/ AbandonDecision(a)
  BY <1>2 DEF AdmitDecision, AbandonDecision, TypeOK
<1>3. CASE ReplayStart(a)
  BY <1>3 DEF ReplayStart, TypeOK, LaunchOf, TurnSteps
<1>4. ASSUME NEW k \in Keys, ResumeAssessment(a, k)
      PROVE  TypeOK'
  <2>1. [record[a] EXCEPT !.state = "CREATED", !.failureCode = "null",
                          !.publication = NoSeal] \in Records
    BY <1>0, SnapshotTyped DEF States, FailureCodes
  <2>2. /\ record' \in [Assessments -> Records]
        /\ journal' \in [Assessments -> Seq(Events)]
    BY <1>4, <2>1, CommitTyped DEF ResumeAssessment, Events
  <2>3. receipts' \subseteq Receipts
    BY <1>4, ReceiveTyped DEF ResumeAssessment, Operations
  <2> QED
    BY <1>4, <2>2, <2>3 DEF ResumeAssessment, TypeOK, LaunchOf, TurnSteps
<1>5. ASSUME NEW k \in Keys, ReplayResume(a, k)
      PROVE  TypeOK'
  BY <1>5 DEF ReplayResume, TypeOK, LaunchOf, TurnSteps
<1>6. ASSUME NEW k \in Keys, RequestCancellation(a, k)
      PROVE  TypeOK'
  <2>1. [record[a] EXCEPT !.pendingCancellation = record[a].revision + 1] \in Records
    BY <1>0, SnapshotTyped
  <2>2. /\ record' \in [Assessments -> Records]
        /\ journal' \in [Assessments -> Seq(Events)]
    BY <1>6, <2>1, CommitTyped DEF RequestCancellation, Events
  <2>3. receipts' \subseteq Receipts
    BY <1>6, ReceiveTyped DEF RequestCancellation, Operations
  <2>4. /\ turn' \subseteq TurnSteps
        /\ runner' \in [Assessments -> Runners]
        /\ cancelling' \subseteq [target: Assessments, revision: Nat]
    BY <1>0, <1>6, QuellTyped DEF RequestCancellation
  <2> QED
    BY <1>6, <2>2, <2>3, <2>4 DEF RequestCancellation, TypeOK
<1>7. ASSUME NEW k \in Keys, ReplayCancellation(a, k)
      PROVE  TypeOK'
  <2>1. PICK r \in receipts : Quell(a, r.revision)
    BY <1>7 DEF ReplayCancellation, ReceiptsOf
  <2>2. r.revision \in Nat
    BY DEF TypeOK, Receipts
  <2>3. /\ turn' \subseteq TurnSteps
        /\ runner' \in [Assessments -> Runners]
        /\ cancelling' \subseteq [target: Assessments, revision: Nat]
    BY <2>1, <2>2, QuellTyped
  <2> QED
    BY <1>7, <2>3 DEF ReplayCancellation, TypeOK
<1>8. ASSUME NEW k \in Keys, NEW c \in Calls, RecordRiskDecision(a, k, c)
      PROVE  TypeOK'
  <2>1. PICK f \in record[a].windowFindings, resolution \in Resolutions,
              window \in {"OPEN", "RESOLVED"} :
          /\ Commit(a, [record[a] EXCEPT
                           !.decisions = [record[a].decisions EXCEPT ![f] = resolution],
                           !.window = window],
                    "risk_decision_recorded")
          /\ Finalize(c, a, "BLOCKED", window, record[a].revision + 1)
    BY <1>8 DEF RecordRiskDecision
  <2>2. [record[a].decisions EXCEPT ![f] = resolution] \in [Findings -> Resolutions]
    BY <1>0 DEF Records
  <2>3. [record[a] EXCEPT
           !.decisions = [record[a].decisions EXCEPT ![f] = resolution],
           !.window = window] \in Records
    BY <1>0, <2>2, SnapshotTyped
  <2>4. /\ record' \in [Assessments -> Records]
        /\ journal' \in [Assessments -> Seq(Events)]
    BY <2>1, <2>3, CommitTyped DEF Events
  <2>5. finalizer' \in [Calls -> Finalizers]
    BY <1>0, <2>1, FinalizeTyped
  <2>6. receipts' \subseteq Receipts
    BY <1>8, ReceiveTyped DEF RecordRiskDecision, Operations
  <2> QED
    BY <1>8, <2>4, <2>5, <2>6 DEF RecordRiskDecision, TypeOK
<1>9. ASSUME NEW k \in Keys, NEW c \in Calls, ReplayRiskDecision(a, k, c)
      PROVE  TypeOK'
  <2>1. finalizer' \in [Calls -> Finalizers]
    BY <1>0, <1>9, FinalizeTyped DEF ReplayRiskDecision
  <2> QED
    BY <1>9, <2>1 DEF ReplayRiskDecision, TypeOK
<1> QED
  BY <1>1, <1>2, <1>3, <1>4, <1>5, <1>6, <1>7, <1>8, <1>9 DEF ClientRequest

LEMMA RunnerStepTyped ==
    ASSUME TypeOK, NEW a \in Assessments, RunnerStep(a)
    PROVE  TypeOK'
<1> USE DEF store, disk
<1>0. /\ record[a] \in Records
      /\ runner[a] \in Runners
      /\ runner[a].revision \in Nat
      /\ runner[a].seal \in SealIds \cup {NoSeal}
  BY DEF TypeOK, Runners
<1>1. CASE EvaluateAndPublishEvidence(a)
  <2>1. runner' \in [Assessments -> Runners]
    BY <1>0, <1>1, RunnerTyped DEF EvaluateAndPublishEvidence, RunnerSteps, TypeOK
  <2>2. evidence' \in [Assessments -> SUBSET Nat]
    BY <1>0, <1>1 DEF EvaluateAndPublishEvidence, TypeOK
  <2> QED
    BY <1>1, <2>1, <2>2 DEF EvaluateAndPublishEvidence, TypeOK
<1>2. CASE OpenRiskDecisionWindow(a)
  <2>1. PICK found \in SUBSET Findings :
          IF Blockable(a, runner[a].revision) /\ record[a].window = "null"
          THEN Commit(a, [record[a] EXCEPT !.state = "BLOCKED",
                                           !.failureCode = "RISK_DECISION_WINDOW",
                                           !.window = "OPEN",
                                           !.windowFindings = found,
                                           !.windowEvidence = runner[a].revision],
                      "risk_decision_window_opened")
          ELSE Block(a, runner[a].revision, "ASSESSMENT_EXECUTION_FAILED")
    BY <1>2 DEF OpenRiskDecisionWindow
  <2>2. [record[a] EXCEPT !.state = "BLOCKED",
                          !.failureCode = "RISK_DECISION_WINDOW",
                          !.window = "OPEN",
                          !.windowFindings = found,
                          !.windowEvidence = runner[a].revision] \in Records
    BY <1>0, WindowTyped
  <2>3. /\ record' \in [Assessments -> Records]
        /\ journal' \in [Assessments -> Seq(Events)]
    BY <1>0, <2>1, <2>2, CommitTyped, BlockTyped DEF Events, FailureCodes
  <2>4. runner' \in [Assessments -> Runners]
    BY <1>0, <1>2, RunnerTyped DEF OpenRiskDecisionWindow, RunnerSteps, TypeOK
  <2> QED
    BY <1>2, <2>3, <2>4 DEF OpenRiskDecisionWindow, TypeOK
<1>3. CASE PublishSealedArtifacts(a)
  <2>1. PICK s \in SealIds :
          /\ bundles' = [bundles EXCEPT ![a] = @ \cup {s}]
          /\ runner' = [runner EXCEPT ![a].pc = "sealing", ![a].seal = s]
    BY <1>3 DEF PublishSealedArtifacts
  <2>2. runner' \in [Assessments -> Runners]
    <3>1. [runner[a] EXCEPT !.pc = "sealing", !.seal = s] \in Runners
      BY <1>0, RunnerTyped DEF RunnerSteps
    <3> QED
      BY <2>1, <3>1 DEF TypeOK
  <2>3. bundles' \in [Assessments -> SUBSET SealIds]
    BY <2>1 DEF TypeOK
  <2> QED
    BY <1>3, <2>2, <2>3 DEF PublishSealedArtifacts, TypeOK
<1>4. CASE SealAssessment(a)
  <2>1. /\ record' \in [Assessments -> Records]
        /\ journal' \in [Assessments -> Seq(Events)]
    BY <1>0, <1>4, SealTyped, BlockTyped DEF SealAssessment, FailureCodes
  <2>2. runner' \in [Assessments -> Runners]
    BY <1>0, <1>4, RunnerTyped DEF SealAssessment, RunnerSteps, TypeOK
  <2> QED
    BY <1>4, <2>1, <2>2 DEF SealAssessment, TypeOK
<1>5. CASE FailAssessment(a)
  <2>1. /\ record' \in [Assessments -> Records]
        /\ journal' \in [Assessments -> Seq(Events)]
    BY <1>0, <1>5, BlockTyped DEF FailAssessment, FailureCodes
  <2>2. runner' \in [Assessments -> Runners]
    BY <1>0, <1>5, RunnerTyped DEF FailAssessment, RunnerSteps, TypeOK
  <2> QED
    BY <1>5, <2>1, <2>2 DEF FailAssessment, TypeOK
<1> QED
  BY <1>1, <1>2, <1>3, <1>4, <1>5 DEF RunnerStep

LEMMA ServiceStepTyped ==
    ASSUME TypeOK, NEW a \in Assessments, ServiceStep(a)
    PROVE  TypeOK'
<1> USE DEF store, disk
<1>0. /\ record[a] \in Records
      /\ record[a].revision + 1 \in Nat
  BY DEF TypeOK, Records
<1>1. CASE CreateAssessment(a)
  <2>1. [record[a] EXCEPT !.state = "CREATED"] \in Records
    BY <1>0, SnapshotTyped DEF States
  <2>2. /\ record' \in [Assessments -> Records]
        /\ journal' \in [Assessments -> Seq(Events)]
    BY <1>1, <2>1, CommitTyped DEF CreateAssessment, Events
  <2> QED
    BY <1>1, <2>2 DEF CreateAssessment, TypeOK, LaunchOf, TurnSteps
<1>2. CASE Launch(a)
  <2>1. [record[a] EXCEPT !.state = "RUNNING"] \in Records
    BY <1>0, SnapshotTyped DEF States
  <2>2. /\ record' \in [Assessments -> Records]
        /\ journal' \in [Assessments -> Seq(Events)]
    BY <1>2, <2>1, CommitTyped DEF Launch, Events, TypeOK
  <2>3. runner' \in [Assessments -> Runners]
    BY <1>0, <1>2, NoRunnerTyped DEF Launch, RunnerSteps, TypeOK
  <2> QED
    BY <1>2, <2>2, <2>3 DEF Launch, TypeOK
<1>3. CASE ReapTask(a)
  BY <1>3, NoRunnerTyped DEF ReapTask, TypeOK
<1>4. CASE CompleteCancellationNow(a)
  <2>1. PICK t \in turn : CompleteCancellation(a, t.revision) /\ turn' = turn \ {t}
    BY <1>4 DEF CompleteCancellationNow
  <2>2. /\ record' \in [Assessments -> Records]
        /\ journal' \in [Assessments -> Seq(Events)]
    BY <2>1, CompleteCancellationTyped
  <2> QED
    BY <1>4, <2>1, <2>2 DEF CompleteCancellationNow, TypeOK
<1>5. CASE CompleteCancellationAfterTask(a)
  <2>1. PICK call \in cancelling :
          /\ CompleteCancellation(a, call.revision)
          /\ cancelling' = cancelling \ {call}
    BY <1>5 DEF CompleteCancellationAfterTask
  <2>2. /\ record' \in [Assessments -> Records]
        /\ journal' \in [Assessments -> Seq(Events)]
    BY <2>1, CompleteCancellationTyped
  <2> QED
    BY <1>5, <2>1, <2>2 DEF CompleteCancellationAfterTask, TypeOK
<1> QED
  BY <1>1, <1>2, <1>3, <1>4, <1>5 DEF ServiceStep

LEMMA FinalizerStepTyped ==
    ASSUME TypeOK, NEW c \in Calls, FinalizerStep(c)
    PROVE  TypeOK'
<1> USE DEF store, disk
<1> DEFINE a == finalizer[c].target
<1>0. finalizer[c].pc # "idle" =>
        /\ finalizer[c] \in [pc: {"reading", "sealing"}, target: Assessments,
                             revision: Nat, seal: SealIds \cup {NoSeal}]
        /\ a \in Assessments
        /\ finalizer[c].seal \in SealIds \cup {NoSeal}
  BY DEF TypeOK, Finalizers, IdleFinalizer
<1>1. IdleFinalizer \in Finalizers
  BY DEF Finalizers
<1>2. CASE PublishFinalizedOutcome(c)
  <2>1. PICK s \in SealIds :
          /\ bundles' = [bundles EXCEPT ![a] = @ \cup {s}]
          /\ finalizer' = [finalizer EXCEPT ![c].pc = "sealing", ![c].seal = s]
    BY <1>2 DEF PublishFinalizedOutcome
  <2>2. finalizer' \in [Calls -> Finalizers]
    <3>1. [finalizer[c] EXCEPT !.pc = "sealing", !.seal = s] \in Finalizers
      BY <1>0, <1>2 DEF PublishFinalizedOutcome, Finalizers
    <3> QED
      BY <2>1, <3>1 DEF TypeOK
  <2>3. bundles' \in [Assessments -> SUBSET SealIds]
    BY <1>0, <1>2, <2>1 DEF PublishFinalizedOutcome, TypeOK
  <2> QED
    BY <1>2, <2>2, <2>3 DEF PublishFinalizedOutcome, TypeOK
<1>3. CASE SealFinalizedOutcome(c)
  <2>1. /\ record' \in [Assessments -> Records]
        /\ journal' \in [Assessments -> Seq(Events)]
    BY <1>0, <1>3, SealTyped DEF SealFinalizedOutcome, TypeOK
  <2> QED
    BY <1>1, <1>3, <2>1 DEF SealFinalizedOutcome, TypeOK
<1>4. CASE FailFinalization(c)
  BY <1>1, <1>4 DEF FailFinalization, TypeOK
<1> QED
  BY <1>2, <1>3, <1>4 DEF FinalizerStep

LEMMA ProcessTyped ==
    ASSUME TypeOK, Recovery \/ Quiesce \/ CloseStore \/ Crash
    PROVE  TypeOK'
<1> USE DEF store, disk, volatile
<1>0. \A a \in Assessments : record[a] \in Records /\ runner[a] \in Runners
  BY DEF TypeOK
<1>1. Forget => /\ turn' \subseteq TurnSteps
                /\ admitted' \subseteq {"start", "decide"} \X Assessments
                /\ runner' \in [Assessments -> Runners]
                /\ cancelling' \subseteq [target: Assessments, revision: Nat]
                /\ finalizer' \in [Calls -> Finalizers]
  BY NoRunnerTyped DEF Forget, Finalizers
<1>2. CASE Quiesce
  <2>1. \A a \in Assessments : [runner[a] EXCEPT !.aborted = TRUE] \in Runners
    BY <1>0, RunnerTyped
  <2>2. runner' \in [Assessments -> Runners]
    BY <1>2, <2>1, NoRunnerTyped DEF Quiesce
  <2> QED
    BY <1>2, <2>2 DEF Quiesce, TypeOK
<1>3. CASE CloseStore
  BY <1>1, <1>3 DEF CloseStore, TypeOK
<1>4. CASE Crash
  <2>1. crashes' \in 0 .. MaxCrashes
    BY <1>4, BoundAssumption DEF Crash, TypeOK
  <2> QED
    BY <1>1, <1>4, <2>1 DEF Crash, TypeOK
<1>5. CASE Boot
  BY <1>5 DEF Boot, TypeOK
<1>6. CASE FinishRecovery
  BY <1>6 DEF FinishRecovery, TypeOK, LaunchOf, TurnSteps
<1>7. ASSUME NEW a \in Assessments, RecoverCancellation(a)
      PROVE  TypeOK'
  <2>1. /\ record' \in [Assessments -> Records]
        /\ journal' \in [Assessments -> Seq(Events)]
    BY <1>7, CompleteCancellationTyped DEF RecoverCancellation
  <2> QED
    BY <1>7, <2>1 DEF RecoverCancellation, TypeOK
<1>8. ASSUME NEW a \in Assessments, RecoverInterrupted(a)
      PROVE  TypeOK'
  <2>1. /\ record' \in [Assessments -> Records]
        /\ journal' \in [Assessments -> Seq(Events)]
    BY <1>8, BlockTyped DEF RecoverInterrupted, FailureCodes
  <2> QED
    BY <1>8, <2>1 DEF RecoverInterrupted, TypeOK
<1> QED
  BY <1>2, <1>3, <1>4, <1>5, <1>6, <1>7, <1>8 DEF Recovery

LEMMA TypeKept ==
    ASSUME TypeOK, [Next]_vars
    PROVE  TypeOK'
<1>1. CASE Next
  BY <1>1, ClientTyped, RunnerStepTyped, ServiceStepTyped, FinalizerStepTyped,
     ProcessTyped DEF Next
<1>2. CASE UNCHANGED vars
  BY <1>2 DEF vars, TypeOK
<1> QED
  BY <1>1, <1>2

\* Every variable always holds a value of its kind.
THEOREM TypeCorrect == Spec => []TypeOK
BY TypeKept, InitTyped, PTL DEF Spec

-----------------------------------------------------------------------------
(* The commits. *)

Creates(a) ==
    /\ record[a].state = "ABSENT"
    /\ Commit(a, [record[a] EXCEPT !.state = "CREATED"], "assessment_created")

Begins(a) ==
    /\ record[a].state = "CREATED"
    /\ record[a].pendingCancellation = 0
    /\ Commit(a, [record[a] EXCEPT !.state = "RUNNING"], "assessment_begun")

Resumes(a) ==
    /\ record[a].state = "BLOCKED"
    /\ record[a].window = "null"
    /\ record[a].pendingCancellation = 0
    /\ Commit(a, [record[a] EXCEPT !.state = "CREATED", !.failureCode = "null",
                                   !.publication = NoSeal],
              "assessment_resume_admitted")

AcceptsCancellation(a) ==
    /\ record[a].state \in {"CREATED", "RUNNING", "BLOCKED"}
    /\ record[a].pendingCancellation = 0
    /\ Commit(a, [record[a] EXCEPT !.pendingCancellation = record[a].revision + 1],
              "assessment_cancellation_requested")

Cancels(a) ==
    /\ record[a].state \notin Terminal
    /\ record[a].pendingCancellation # 0
    /\ Commit(a, [record[a] EXCEPT !.state = "CANCELED", !.failureCode = "null",
                                   !.publication = NoSeal],
              "assessment_canceled")

\* The seal comes from the evaluation task or from a finalization.
SealInHand(a, s) ==
    \/ runner[a].pc = "sealing" /\ s = runner[a].seal
    \/ \E c \in Calls : /\ finalizer[c].pc = "sealing"
                        /\ finalizer[c].target = a
                        /\ s = finalizer[c].seal

Seals(a) ==
    /\ record[a].state \in {"RUNNING", "BLOCKED"}
    /\ record[a].pendingCancellation = 0
    /\ \E s \in SealIds \cup {NoSeal} : SealInHand(a, s) /\ Seal(a, s)

OpensWindow(a) ==
    /\ record[a].state = "RUNNING"
    /\ record[a].pendingCancellation = 0
    /\ runner[a].pc = "evaluated"
    /\ \E found \in SUBSET Findings :
         Commit(a, [record[a] EXCEPT !.state = "BLOCKED",
                                     !.failureCode = "RISK_DECISION_WINDOW",
                                     !.window = "OPEN",
                                     !.windowFindings = found,
                                     !.windowEvidence = runner[a].revision],
                "risk_decision_window_opened")

RecordsDecision(a) ==
    /\ record[a].state = "BLOCKED"
    /\ record[a].window = "OPEN"
    /\ record[a].pendingCancellation = 0
    /\ \E decisions \in [Findings -> Resolutions], window \in {"OPEN", "RESOLVED"} :
         Commit(a, [record[a] EXCEPT !.decisions = decisions, !.window = window],
                "risk_decision_recorded")

Blocks(a) ==
    /\ record[a].state = "RUNNING"
    /\ record[a].pendingCancellation = 0
    /\ \E code \in FailureCodes :
         Commit(a, [record[a] EXCEPT !.state = "BLOCKED", !.failureCode = code],
                "assessment_blocked")

Commits(a) ==
    \/ Creates(a) \/ Begins(a) \/ Resumes(a) \/ AcceptsCancellation(a)
    \/ Cancels(a) \/ Seals(a) \/ OpensWindow(a) \/ RecordsDecision(a) \/ Blocks(a)

\* Every cancellation that is being completed was accepted at some revision.
CompletionsAreRequests ==
    /\ \A t \in turn : t.step = "complete" => t.revision # 0
    /\ \A call \in cancelling : call.revision # 0
    /\ \A r \in receipts : r.revision # 0

LEMMA BlockCommits ==
    ASSUME TypeOK, NEW a \in Assessments, NEW r, NEW code \in FailureCodes,
           Block(a, r, code)
    PROVE  UNCHANGED <<record, journal>> \/ Blocks(a)
BY DEF Block, Blockable, Blocks

LEMMA CompletionCommits ==
    ASSUME NEW a \in Assessments, NEW r, r # 0, CompleteCancellation(a, r)
    PROVE  UNCHANGED <<record, journal>> \/ Cancels(a)
BY DEF CompleteCancellation, Cancels

\* A step commits one of the nine revisions, or none.
LEMMA StepCommits ==
    ASSUME TypeOK, CompletionsAreRequests, Next
    PROVE  UNCHANGED <<record, journal>> \/ \E a \in Assessments : Commits(a)
<1> USE DEF store
<1>1. ASSUME NEW a \in Assessments, ClientRequest(a)
      PROVE  UNCHANGED <<record, journal>> \/ Commits(a)
  <2>1. ASSUME NEW k \in Keys, NEW c \in Calls, RecordRiskDecision(a, k, c)
        PROVE  RecordsDecision(a)
    <3>1. PICK f \in record[a].windowFindings, resolution \in Resolutions,
                window \in {"OPEN", "RESOLVED"} :
            Commit(a, [record[a] EXCEPT
                         !.decisions = [record[a].decisions EXCEPT ![f] = resolution],
                         !.window = window],
                   "risk_decision_recorded")
      BY <2>1 DEF RecordRiskDecision
    <3>2. [record[a].decisions EXCEPT ![f] = resolution] \in [Findings -> Resolutions]
      BY DEF TypeOK, Records
    <3> QED
      BY <2>1, <3>1, <3>2 DEF RecordRiskDecision, WindowOpen, RecordsDecision
  <2>2. ASSUME NEW k \in Keys, ResumeAssessment(a, k)
        PROVE  Resumes(a)
    BY <2>2 DEF ResumeAssessment, Resumes
  <2>3. ASSUME NEW k \in Keys, RequestCancellation(a, k)
        PROVE  AcceptsCancellation(a)
    BY <2>3 DEF RequestCancellation, AcceptsCancellation
  <2>4. CASE \/ AdmitStart(a) \/ AbandonStart(a) \/ ReplayStart(a)
             \/ AdmitDecision(a) \/ AbandonDecision(a)
    BY <2>4 DEF AdmitStart, AbandonStart, ReplayStart, AdmitDecision, AbandonDecision
  <2>5. ASSUME NEW k \in Keys, ReplayResume(a, k) \/ ReplayCancellation(a, k)
        PROVE  UNCHANGED <<record, journal>>
    BY <2>5 DEF ReplayResume, ReplayCancellation
  <2>6. ASSUME NEW k \in Keys, NEW c \in Calls, ReplayRiskDecision(a, k, c)
        PROVE  UNCHANGED <<record, journal>>
    BY <2>6 DEF ReplayRiskDecision
  <2> QED
    BY <1>1, <2>1, <2>2, <2>3, <2>4, <2>5, <2>6 DEF ClientRequest, Commits
<1>2. ASSUME NEW a \in Assessments, RunnerStep(a)
      PROVE  UNCHANGED <<record, journal>> \/ Commits(a)
  <2>1. CASE EvaluateAndPublishEvidence(a) \/ PublishSealedArtifacts(a)
    BY <2>1 DEF EvaluateAndPublishEvidence, PublishSealedArtifacts
  <2>2. CASE OpenRiskDecisionWindow(a)
    <3>1. PICK found \in SUBSET Findings :
            IF Blockable(a, runner[a].revision) /\ record[a].window = "null"
            THEN Commit(a, [record[a] EXCEPT !.state = "BLOCKED",
                                             !.failureCode = "RISK_DECISION_WINDOW",
                                             !.window = "OPEN",
                                             !.windowFindings = found,
                                             !.windowEvidence = runner[a].revision],
                        "risk_decision_window_opened")
            ELSE Block(a, runner[a].revision, "ASSESSMENT_EXECUTION_FAILED")
      BY <2>2 DEF OpenRiskDecisionWindow
    <3>2. CASE Blockable(a, runner[a].revision) /\ record[a].window = "null"
      BY <2>2, <3>1, <3>2 DEF OpenRiskDecisionWindow, Blockable, OpensWindow, Commits
    <3>3. CASE ~(Blockable(a, runner[a].revision) /\ record[a].window = "null")
      BY <3>1, <3>3, BlockCommits DEF FailureCodes, Commits
    <3> QED
      BY <3>2, <3>3
  <2>3. CASE SealAssessment(a)
    <3>1. CASE ~runner[a].aborted /\ Sealable(a, runner[a].revision)
      <4>1. runner[a].seal \in SealIds \cup {NoSeal}
        BY DEF TypeOK, Runners
      <4> QED
        BY <2>3, <3>1, <4>1 DEF SealAssessment, Sealable, Seals, SealInHand, Commits
    <3>2. CASE ~(~runner[a].aborted /\ Sealable(a, runner[a].revision))
      BY <2>3, <3>2, BlockCommits DEF SealAssessment, FailureCodes, Commits
    <3> QED
      BY <3>1, <3>2
  <2>4. CASE FailAssessment(a)
    BY <2>4, BlockCommits DEF FailAssessment, FailureCodes, Commits
  <2> QED
    BY <1>2, <2>1, <2>2, <2>3, <2>4 DEF RunnerStep
<1>3. ASSUME NEW a \in Assessments, ServiceStep(a)
      PROVE  UNCHANGED <<record, journal>> \/ Commits(a)
  <2>1. CASE CreateAssessment(a)
    BY <2>1 DEF CreateAssessment, Creates, Commits
  <2>2. CASE Launch(a)
    BY <2>2 DEF Launch, Begins, Commits
  <2>3. CASE ReapTask(a)
    BY <2>3 DEF ReapTask
  <2>4. CASE CompleteCancellationNow(a)
    <3>1. PICK t \in turn : /\ t = CompletionOf(a, t.revision)
                            /\ CompleteCancellation(a, t.revision)
      BY <2>4 DEF CompleteCancellationNow
    <3>2. t.step = "complete"
      BY <3>1 DEF CompletionOf
    <3> QED
      BY <3>1, <3>2, CompletionCommits DEF CompletionsAreRequests, Commits
  <2>5. CASE CompleteCancellationAfterTask(a)
    BY <2>5, CompletionCommits
       DEF CompleteCancellationAfterTask, CompletionsAreRequests, Commits
  <2> QED
    BY <1>3, <2>1, <2>2, <2>3, <2>4, <2>5 DEF ServiceStep
<1>4. ASSUME NEW c \in Calls, FinalizerStep(c)
      PROVE  UNCHANGED <<record, journal>> \/ \E a \in Assessments : Commits(a)
  <2>1. CASE PublishFinalizedOutcome(c) \/ FailFinalization(c)
    BY <2>1 DEF PublishFinalizedOutcome, FailFinalization
  <2>2. CASE SealFinalizedOutcome(c)
    <3> DEFINE a == finalizer[c].target
    <3>1. a \in Assessments /\ finalizer[c].seal \in SealIds \cup {NoSeal}
      BY <2>2 DEF SealFinalizedOutcome, TypeOK, Finalizers, IdleFinalizer
    <3>2. CASE Sealable(a, finalizer[c].revision)
      <4>1. Seal(a, finalizer[c].seal) /\ SealInHand(a, finalizer[c].seal)
        BY <2>2, <3>2 DEF SealFinalizedOutcome, SealInHand
      <4> QED
        BY <3>1, <3>2, <4>1 DEF Sealable, Seals, Commits
    <3>3. CASE ~Sealable(a, finalizer[c].revision)
      BY <2>2, <3>3 DEF SealFinalizedOutcome
    <3> QED
      BY <3>2, <3>3
  <2> QED
    BY <1>4, <2>1, <2>2 DEF FinalizerStep
<1>5. CASE Recovery
  <2>1. CASE Boot \/ FinishRecovery
    BY <2>1 DEF Boot, FinishRecovery
  <2>2. ASSUME NEW a \in Assessments, RecoverCancellation(a)
        PROVE  UNCHANGED <<record, journal>> \/ Commits(a)
    BY <2>2, CompletionCommits DEF RecoverCancellation, PendingCancellations, Commits
  <2>3. ASSUME NEW a \in Assessments, RecoverInterrupted(a)
        PROVE  UNCHANGED <<record, journal>> \/ Commits(a)
    BY <2>3, BlockCommits DEF RecoverInterrupted, FailureCodes, Commits
  <2> QED
    BY <1>5, <2>1, <2>2, <2>3 DEF Recovery
<1>6. CASE Quiesce \/ CloseStore \/ Crash
  BY <1>6 DEF Quiesce, CloseStore, Crash
<1> QED
  BY <1>1, <1>2, <1>3, <1>4, <1>5, <1>6 DEF Next

LEMMA CompletionsInductive ==
    ASSUME TypeOK, CompletionsAreRequests, [Next]_vars
    PROVE  CompletionsAreRequests'
<1> USE DEF CompletionsAreRequests, store, disk, volatile
<1>0. \A a \in Assessments : /\ record[a].revision + 1 # 0
                             /\ LaunchOf(a).step # "complete"
  BY DEF TypeOK, Records, LaunchOf
<1>1. ASSUME NEW a \in Assessments, NEW r, r # 0, Quell(a, r)
      PROVE  /\ \A t \in turn' : t.step = "complete" => t.revision # 0
             /\ \A call \in cancelling' : call.revision # 0
  BY <1>1 DEF Quell, CompletionOf
<1>2. ASSUME NEW a \in Assessments, NEW k \in Keys, NEW op, Receive(op, a, k)
      PROVE  \A r \in receipts' : r.revision # 0
  BY <1>0, <1>2 DEF Receive
<1>3. ASSUME NEW a \in Assessments, ClientRequest(a)
      PROVE  CompletionsAreRequests'
  <2>1. CASE \/ AdmitStart(a) \/ AbandonStart(a)
             \/ AdmitDecision(a) \/ AbandonDecision(a)
    BY <2>1 DEF AdmitStart, AbandonStart, AdmitDecision, AbandonDecision
  <2>2. CASE ReplayStart(a)
    BY <1>0, <2>2 DEF ReplayStart
  <2>3. ASSUME NEW k \in Keys, ResumeAssessment(a, k)
        PROVE  CompletionsAreRequests'
    BY <1>0, <1>2, <2>3 DEF ResumeAssessment
  <2>4. ASSUME NEW k \in Keys, ReplayResume(a, k)
        PROVE  CompletionsAreRequests'
    BY <1>0, <2>4 DEF ReplayResume
  <2>5. ASSUME NEW k \in Keys, RequestCancellation(a, k)
        PROVE  CompletionsAreRequests'
    BY <1>0, <1>1, <1>2, <2>5 DEF RequestCancellation
  <2>6. ASSUME NEW k \in Keys, ReplayCancellation(a, k)
        PROVE  CompletionsAreRequests'
    BY <1>1, <2>6 DEF ReplayCancellation, ReceiptsOf
  <2>7. ASSUME NEW k \in Keys, NEW c \in Calls,
               RecordRiskDecision(a, k, c) \/ ReplayRiskDecision(a, k, c)
        PROVE  CompletionsAreRequests'
    BY <1>2, <2>7 DEF RecordRiskDecision, ReplayRiskDecision
  <2> QED
    BY <1>3, <2>1, <2>2, <2>3, <2>4, <2>5, <2>6, <2>7 DEF ClientRequest
<1>4. ASSUME NEW a \in Assessments, RunnerStep(a)
      PROVE  CompletionsAreRequests'
  BY <1>4 DEF RunnerStep, EvaluateAndPublishEvidence, OpenRiskDecisionWindow,
     PublishSealedArtifacts, SealAssessment, FailAssessment
<1>5. ASSUME NEW a \in Assessments, ServiceStep(a)
      PROVE  CompletionsAreRequests'
  BY <1>0, <1>5 DEF ServiceStep, CreateAssessment, Launch, ReapTask,
     CompleteCancellationNow, CompleteCancellationAfterTask
<1>6. ASSUME NEW c \in Calls, FinalizerStep(c)
      PROVE  CompletionsAreRequests'
  BY <1>6 DEF FinalizerStep, PublishFinalizedOutcome, SealFinalizedOutcome,
     FailFinalization
<1>7. CASE Recovery
  BY <1>0, <1>7 DEF Recovery, Boot, FinishRecovery, RecoverCancellation,
     RecoverInterrupted
<1>8. CASE Quiesce \/ CloseStore \/ Crash
  BY <1>8 DEF Quiesce, CloseStore, Crash, Forget
<1>9. CASE UNCHANGED vars
  BY <1>9 DEF vars
<1> QED
  BY <1>3, <1>4, <1>5, <1>6, <1>7, <1>8, <1>9 DEF Next

LEMMA CompletionsInvariant == Spec => [](TypeOK /\ CompletionsAreRequests)
<1>1. Init => CompletionsAreRequests
  BY DEF Init, CompletionsAreRequests
<1> QED
  BY <1>1, CompletionsInductive, TypeCorrect, PTL DEF Spec

\* A commit, or a step that commits nothing: all that can happen to a record.
CommitStep ==
    UNCHANGED <<record, journal>> \/ \E a \in Assessments : Commits(a)

LEMMA StepsCommit == Spec => [][CommitStep]_vars
<1>1. TypeOK /\ CompletionsAreRequests /\ [Next]_vars => [CommitStep]_vars
  BY StepCommits DEF CommitStep
<1> QED
  BY <1>1, CompletionsInvariant, PTL DEF Spec

-----------------------------------------------------------------------------
(* Cancellation closes admission; a terminal record is final. *)

\* The journal is as long as the revision.  A cancellation request is the row
\* of the pending revision, it is the last row until it is completed, and then
\* the row of the completion is.
CancellationRecorded ==
    \A a \in Assessments :
        /\ Len(journal[a]) = record[a].revision
        /\ record[a].state = "ABSENT" =>
             record[a].revision = 0 /\ record[a].pendingCancellation = 0
        /\ \A i \in DOMAIN journal[a] :
             journal[a][i] = "assessment_cancellation_requested"
             => i = record[a].pendingCancellation
        /\ record[a].pendingCancellation # 0 =>
             IF record[a].state = "CANCELED"
             THEN /\ record[a].revision = record[a].pendingCancellation + 1
                  /\ journal[a][record[a].revision] = "assessment_canceled"
             ELSE record[a].revision = record[a].pendingCancellation

\* The journal grows by that row and every other assessment is left alone.
Appends(a, event) ==
    /\ Len(journal'[a]) = Len(journal[a]) + 1
    /\ DOMAIN journal[a] = 1 .. Len(journal[a])
    /\ DOMAIN journal'[a] = 1 .. Len(journal[a]) + 1
    /\ \A i \in 1 .. Len(journal[a]) : journal'[a][i] = journal[a][i]
    /\ journal'[a][Len(journal[a]) + 1] = event
    /\ \A b \in Assessments \ {a} : record'[b] = record[b] /\ journal'[b] = journal[b]

\* The fields of the record are those of the snapshot, at the next revision.
Takes(a, snapshot) ==
    /\ record'[a].revision = record[a].revision + 1
    /\ record'[a].state = snapshot.state
    /\ record'[a].pendingCancellation = snapshot.pendingCancellation
    /\ record'[a].window = snapshot.window
    /\ record'[a].windowEvidence = snapshot.windowEvidence
    /\ record'[a].publication = snapshot.publication

LEMMA CommitEffect ==
    ASSUME TypeOK, NEW a \in Assessments, NEW snapshot \in Records, NEW event \in Events,
           Commit(a, snapshot, event)
    PROVE  Takes(a, snapshot) /\ Appends(a, event)
<1>1. /\ record[a] \in Records
      /\ journal[a] \in Seq(Events)
      /\ DOMAIN journal[a] = 1 .. Len(journal[a])
  BY DEF TypeOK
<1>2. record'[a] = [snapshot EXCEPT !.revision = record[a].revision + 1]
  BY DEF Commit, TypeOK
<1>3. journal'[a] = Append(journal[a], event)
  BY DEF Commit, TypeOK
<1>4. Takes(a, snapshot)
  BY <1>2 DEF Records, Takes
<1>5. /\ Len(journal'[a]) = Len(journal[a]) + 1
      /\ DOMAIN journal'[a] = 1 .. Len(journal[a]) + 1
      /\ \A i \in 1 .. Len(journal[a]) : journal'[a][i] = journal[a][i]
      /\ journal'[a][Len(journal[a]) + 1] = event
  BY <1>1, <1>3
<1>6. \A b \in Assessments \ {a} : record'[b] = record[b] /\ journal'[b] = journal[b]
  BY DEF Commit, TypeOK
<1> QED
  BY <1>1, <1>4, <1>5, <1>6 DEF Appends

\* The row and the record fields that each kind of commit writes.
Writes(a, event) ==
    /\ record'[a].revision = record[a].revision + 1
    /\ event = "assessment_cancellation_requested" =>
         record'[a].pendingCancellation = record[a].revision + 1
    /\ event # "assessment_cancellation_requested" =>
         record'[a].pendingCancellation = record[a].pendingCancellation
    /\ event # "risk_decision_window_opened" =>
         /\ record'[a].windowEvidence = record[a].windowEvidence
         /\ record[a].window = "null" => record'[a].window = "null"
    /\ \/ /\ event = "assessment_created"
          /\ record[a].state = "ABSENT" /\ record'[a].state = "CREATED"
       \/ /\ event = "assessment_begun"
          /\ record[a].pendingCancellation = 0
          /\ record[a].state = "CREATED" /\ record'[a].state = "RUNNING"
       \/ /\ event = "assessment_resume_admitted"
          /\ record[a].pendingCancellation = 0
          /\ record[a].state = "BLOCKED" /\ record'[a].state = "CREATED"
       \/ /\ event = "assessment_cancellation_requested"
          /\ record[a].pendingCancellation = 0
          /\ record[a].state \in {"CREATED", "RUNNING", "BLOCKED"}
          /\ record'[a].state = record[a].state
       \/ /\ event = "assessment_canceled"
          /\ record[a].pendingCancellation # 0
          /\ record[a].state \notin Terminal /\ record'[a].state = "CANCELED"
       \/ /\ event = "assessment_sealed"
          /\ record[a].pendingCancellation = 0
          /\ record[a].state \in {"RUNNING", "BLOCKED"} /\ record'[a].state = "SEALED"
          /\ SealInHand(a, record'[a].publication)
       \/ /\ event = "risk_decision_window_opened"
          /\ record[a].pendingCancellation = 0
          /\ record[a].state = "RUNNING" /\ record'[a].state = "BLOCKED"
          /\ runner[a].pc = "evaluated"
          /\ record'[a].windowEvidence = runner[a].revision
       \/ /\ event = "risk_decision_recorded"
          /\ record[a].pendingCancellation = 0
          /\ record[a].state = "BLOCKED" /\ record'[a].state = "BLOCKED"
       \/ /\ event = "assessment_blocked"
          /\ record[a].pendingCancellation = 0
          /\ record[a].state = "RUNNING" /\ record'[a].state = "BLOCKED"

LEMMA CommitKinds ==
    ASSUME TypeOK, NEW a \in Assessments, Commits(a)
    PROVE  \E event \in Events : Writes(a, event) /\ Appends(a, event)
<1>0. /\ record[a] \in Records
      /\ record[a].revision + 1 \in Nat
  BY DEF TypeOK, Records
<1>2. CASE Creates(a)
  <2>1. [record[a] EXCEPT !.state = "CREATED"] \in Records
    BY <1>0, SnapshotTyped DEF States
  <2>2. Commit(a, [record[a] EXCEPT !.state = "CREATED"], "assessment_created")
    BY <1>2 DEF Creates
  <2>3. "assessment_created" \in Events
    BY DEF Events
  <2>4. Takes(a, [record[a] EXCEPT !.state = "CREATED"]) /\ Appends(a, "assessment_created")
    BY <2>1, <2>2, <2>3, CommitEffect
  <2>5. Writes(a, "assessment_created")
    BY <1>0, <1>2, <2>4 DEF Creates, Writes, Takes, Records, Terminal
  <2> QED
    BY <2>3, <2>4, <2>5
<1>3. CASE Begins(a)
  <2>1. [record[a] EXCEPT !.state = "RUNNING"] \in Records
    BY <1>0, SnapshotTyped DEF States
  <2>2. Commit(a, [record[a] EXCEPT !.state = "RUNNING"], "assessment_begun")
    BY <1>3 DEF Begins
  <2>3. "assessment_begun" \in Events
    BY DEF Events
  <2>4. Takes(a, [record[a] EXCEPT !.state = "RUNNING"]) /\ Appends(a, "assessment_begun")
    BY <2>1, <2>2, <2>3, CommitEffect
  <2>5. Writes(a, "assessment_begun")
    BY <1>0, <1>3, <2>4 DEF Begins, Writes, Takes, Records, Terminal
  <2> QED
    BY <2>3, <2>4, <2>5
<1>4. CASE Resumes(a)
  <2> DEFINE snapshot == [record[a] EXCEPT !.state = "CREATED", !.failureCode = "null",
                                           !.publication = NoSeal]
  <2>1. snapshot \in Records
    BY <1>0, SnapshotTyped DEF States, FailureCodes
  <2>2. Commit(a, snapshot, "assessment_resume_admitted")
    BY <1>4 DEF Resumes
  <2>3. "assessment_resume_admitted" \in Events
    BY DEF Events
  <2>4. Takes(a, snapshot) /\ Appends(a, "assessment_resume_admitted")
    BY <2>1, <2>2, <2>3, CommitEffect
  <2>5. Writes(a, "assessment_resume_admitted")
    BY <1>0, <1>4, <2>4 DEF Resumes, Writes, Takes, Records, Terminal
  <2> QED
    BY <2>3, <2>4, <2>5
<1>5. CASE AcceptsCancellation(a)
  <2> DEFINE snapshot == [record[a] EXCEPT
                            !.pendingCancellation = record[a].revision + 1]
  <2>1. snapshot \in Records
    BY <1>0, SnapshotTyped
  <2>2. Commit(a, snapshot, "assessment_cancellation_requested")
    BY <1>5 DEF AcceptsCancellation
  <2>3. "assessment_cancellation_requested" \in Events
    BY DEF Events
  <2>4. Takes(a, snapshot) /\ Appends(a, "assessment_cancellation_requested")
    BY <2>1, <2>2, <2>3, CommitEffect
  <2>5. Writes(a, "assessment_cancellation_requested")
    BY <1>0, <1>5, <2>4 DEF AcceptsCancellation, Writes, Takes, Records, Terminal
  <2> QED
    BY <2>3, <2>4, <2>5
<1>6. CASE Cancels(a)
  <2> DEFINE snapshot == [record[a] EXCEPT !.state = "CANCELED", !.failureCode = "null",
                                           !.publication = NoSeal]
  <2>1. snapshot \in Records
    BY <1>0, SnapshotTyped DEF States, FailureCodes
  <2>2. Commit(a, snapshot, "assessment_canceled")
    BY <1>6 DEF Cancels
  <2>3. "assessment_canceled" \in Events
    BY DEF Events
  <2>4. Takes(a, snapshot) /\ Appends(a, "assessment_canceled")
    BY <2>1, <2>2, <2>3, CommitEffect
  <2>5. Writes(a, "assessment_canceled")
    BY <1>0, <1>6, <2>4 DEF Cancels, Writes, Takes, Records, Terminal
  <2> QED
    BY <2>3, <2>4, <2>5
<1>7. CASE Seals(a)
  <2>0. PICK s \in SealIds \cup {NoSeal} : SealInHand(a, s) /\ Seal(a, s)
    BY <1>7 DEF Seals
  <2> DEFINE snapshot == [record[a] EXCEPT !.state = "SEALED", !.failureCode = "null",
                                           !.publication = s]
  <2>1. snapshot \in Records
    BY <1>0, SnapshotTyped DEF States, FailureCodes
  <2>2. Commit(a, snapshot, "assessment_sealed")
    BY <2>0 DEF Seal
  <2>3. "assessment_sealed" \in Events
    BY DEF Events
  <2>4. Takes(a, snapshot) /\ Appends(a, "assessment_sealed")
    BY <2>1, <2>2, <2>3, CommitEffect
  <2>5. record'[a].publication = s
    BY <1>0, <2>4 DEF Takes, Records
  <2>6. Writes(a, "assessment_sealed")
    BY <1>0, <1>7, <2>0, <2>4, <2>5 DEF Seals, Writes, Takes, Records, Terminal
  <2> QED
    BY <2>3, <2>4, <2>6
<1>8. CASE OpensWindow(a)
  <2>0. PICK found \in SUBSET Findings :
          Commit(a, [record[a] EXCEPT !.state = "BLOCKED",
                                      !.failureCode = "RISK_DECISION_WINDOW",
                                      !.window = "OPEN",
                                      !.windowFindings = found,
                                      !.windowEvidence = runner[a].revision],
                 "risk_decision_window_opened")
    BY <1>8 DEF OpensWindow
  <2> DEFINE snapshot == [record[a] EXCEPT !.state = "BLOCKED",
                                      !.failureCode = "RISK_DECISION_WINDOW",
                                      !.window = "OPEN",
                                      !.windowFindings = found,
                                      !.windowEvidence = runner[a].revision]
  <2>1. snapshot \in Records
    <3>1. runner[a].revision \in Nat
      BY DEF TypeOK, Runners
    <3> QED
      BY <1>0, <3>1, SnapshotTyped DEF States, FailureCodes
  <2>2. Commit(a, snapshot, "risk_decision_window_opened")
    BY <2>0
  <2>3. "risk_decision_window_opened" \in Events
    BY DEF Events
  <2>4. Takes(a, snapshot) /\ Appends(a, "risk_decision_window_opened")
    BY <2>1, <2>2, <2>3, CommitEffect
  <2>5. Writes(a, "risk_decision_window_opened")
    BY <1>0, <1>8, <2>4 DEF OpensWindow, Writes, Takes, Records, Terminal
  <2> QED
    BY <2>3, <2>4, <2>5
<1>9. CASE RecordsDecision(a)
  <2>0. PICK decisions \in [Findings -> Resolutions], window \in {"OPEN", "RESOLVED"} :
          Commit(a, [record[a] EXCEPT !.decisions = decisions, !.window = window],
                 "risk_decision_recorded")
    BY <1>9 DEF RecordsDecision
  <2> DEFINE snapshot == [record[a] EXCEPT !.decisions = decisions, !.window = window]
  <2>1. snapshot \in Records
    BY <1>0, SnapshotTyped
  <2>2. Commit(a, snapshot, "risk_decision_recorded")
    BY <2>0
  <2>3. "risk_decision_recorded" \in Events
    BY DEF Events
  <2>4. Takes(a, snapshot) /\ Appends(a, "risk_decision_recorded")
    BY <2>1, <2>2, <2>3, CommitEffect
  <2>5. Writes(a, "risk_decision_recorded")
    BY <1>0, <1>9, <2>4 DEF RecordsDecision, Writes, Takes, Records, Terminal
  <2> QED
    BY <2>3, <2>4, <2>5
<1>10. CASE Blocks(a)
  <2>0. PICK code \in FailureCodes :
          Commit(a, [record[a] EXCEPT !.state = "BLOCKED", !.failureCode = code],
                 "assessment_blocked")
    BY <1>10 DEF Blocks
  <2> DEFINE snapshot == [record[a] EXCEPT !.state = "BLOCKED", !.failureCode = code]
  <2>1. snapshot \in Records
    BY <1>0, SnapshotTyped DEF States
  <2>2. Commit(a, snapshot, "assessment_blocked")
    BY <2>0
  <2>3. "assessment_blocked" \in Events
    BY DEF Events
  <2>4. Takes(a, snapshot) /\ Appends(a, "assessment_blocked")
    BY <2>1, <2>2, <2>3, CommitEffect
  <2>5. Writes(a, "assessment_blocked")
    BY <1>0, <1>10, <2>4 DEF Blocks, Writes, Takes, Records, Terminal
  <2> QED
    BY <2>3, <2>4, <2>5
<1> QED
  BY <1>2, <1>3, <1>4, <1>5, <1>6, <1>7, <1>8, <1>9, <1>10 DEF Commits

LEMMA CancellationRecordedInductive ==
    ASSUME TypeOK, CancellationRecorded, NEW a \in Assessments, Commits(a)
    PROVE  CancellationRecorded'
<1>1. PICK event \in Events : Writes(a, event) /\ Appends(a, event)
  BY CommitKinds
<1>2. record[a] \in Records /\ record[a].revision \in Nat
  BY DEF TypeOK, Records
<1>3. /\ Len(journal[a]) = record[a].revision
      /\ record[a].pendingCancellation \in Nat
      /\ record[a].state = "ABSENT" => record[a].revision = 0
      /\ record[a].pendingCancellation # 0 /\ record[a].state # "CANCELED"
           => record[a].revision = record[a].pendingCancellation
  BY <1>2 DEF CancellationRecorded, Records
<1>4. Len(journal'[a]) = record'[a].revision
  BY <1>1, <1>3 DEF Writes, Appends
<1>5. record'[a].state # "ABSENT"
  BY <1>1 DEF Writes, Terminal
<1>6. ASSUME NEW i \in DOMAIN journal'[a],
             journal'[a][i] = "assessment_cancellation_requested"
      PROVE  i = record'[a].pendingCancellation
  <2>1. CASE i = record[a].revision + 1
    BY <1>1, <1>3, <1>6, <2>1 DEF Writes, Appends
  <2>2. CASE i # record[a].revision + 1
    <3>1. i \in DOMAIN journal[a] /\ journal'[a][i] = journal[a][i]
      BY <1>1, <1>2, <1>3, <2>2 DEF Appends
    <3>2. i = record[a].pendingCancellation /\ i # 0
      BY <1>1, <1>6, <3>1 DEF CancellationRecorded, Appends
    <3>3. record'[a].pendingCancellation = record[a].pendingCancellation
      BY <1>1, <3>2 DEF Writes
    <3> QED
      BY <3>2, <3>3
  <2> QED
    BY <2>1, <2>2
<1>7. record'[a].pendingCancellation # 0 =>
        IF record'[a].state = "CANCELED"
        THEN /\ record'[a].revision = record'[a].pendingCancellation + 1
             /\ journal'[a][record'[a].revision] = "assessment_canceled"
        ELSE record'[a].revision = record'[a].pendingCancellation
  BY <1>1, <1>2, <1>3 DEF Writes, Appends, Terminal
<1>8. \A b \in Assessments \ {a} : record'[b] = record[b] /\ journal'[b] = journal[b]
  BY <1>1 DEF Appends
<1> QED
  BY <1>4, <1>5, <1>6, <1>7, <1>8 DEF CancellationRecorded

\* The journal tells which revision asked for the cancellation and that nothing
\* but its completion follows.
LEMMA CancellationInvariant == Spec => [](TypeOK /\ CancellationRecorded)
<1>1. Init => CancellationRecorded
  BY DEF Init, CancellationRecorded, AbsentRecord
<1>2. TypeOK /\ CancellationRecorded /\ [CommitStep]_vars => CancellationRecorded'
  <2>1. CancellationRecorded /\ UNCHANGED <<record, journal>> => CancellationRecorded'
    BY DEF CancellationRecorded
  <2> QED
    BY <2>1, CancellationRecordedInductive DEF CommitStep, vars
<1> QED
  BY <1>1, <1>2, StepsCommit, TypeCorrect, PTL DEF Spec

\* Once a cancellation has been accepted (requestAssessmentCancellation) the only
\* later revision is the one that cancels.
THEOREM CancellationCloses == Spec => []CancellationClosesAdmission
<1>1. TypeOK /\ CancellationRecorded => CancellationClosesAdmission
  <2> SUFFICES ASSUME TypeOK, CancellationRecorded, NEW a \in Assessments,
                      NEW i \in DOMAIN journal[a], NEW j \in DOMAIN journal[a],
                      journal[a][i] = "assessment_cancellation_requested", j > i
               PROVE  j = i + 1 /\ journal[a][j] = "assessment_canceled"
    BY DEF CancellationClosesAdmission
  <2>1. /\ DOMAIN journal[a] = 1 .. record[a].revision
        /\ record[a].revision \in Nat
    BY DEF TypeOK, CancellationRecorded, Records
  <2>2. i = record[a].pendingCancellation
    BY DEF CancellationRecorded
  <2> QED
    BY <2>1, <2>2 DEF CancellationRecorded
<1> QED
  BY <1>1, CancellationInvariant, PTL

\* No action, however late its call, changes a terminal record or its journal.
THEOREM TerminalStays == Spec => TerminalIsFinal
<1>1. TypeOK /\ [CommitStep]_vars =>
        [\A a \in Assessments :
           record[a].state \in Terminal =>
              record'[a] = record[a] /\ journal'[a] = journal[a]]_vars
  <2> SUFFICES ASSUME TypeOK, CommitStep, NEW a \in Assessments,
                      record[a].state \in Terminal
               PROVE  record'[a] = record[a] /\ journal'[a] = journal[a]
    OBVIOUS
  <2>1. ASSUME NEW b \in Assessments, Commits(b)
        PROVE  b # a /\ record'[a] = record[a] /\ journal'[a] = journal[a]
    <3>1. PICK event \in Events : Writes(b, event) /\ Appends(b, event)
      BY <2>1, CommitKinds
    <3>2. record[b].state \notin Terminal
      BY <3>1 DEF Writes, Terminal
    <3> QED
      BY <3>1, <3>2 DEF Appends
  <2> QED
    BY <2>1 DEF CommitStep
<1> QED
  BY <1>1, StepsCommit, TypeCorrect, PTL DEF TerminalIsFinal

-----------------------------------------------------------------------------
(* Every beginning is authorized. *)

\* An assessment that waits to begin has not begun since it was last resumed.
BeginningIsAhead ==
    \A a \in Assessments :
        /\ record[a].state = "ABSENT" => journal[a] = <<>>
        /\ record[a].state = "CREATED" =>
             \A i \in DOMAIN journal[a] :
                journal[a][i] = "assessment_begun" =>
                  \E h \in DOMAIN journal[a] :
                     h > i /\ journal[a][h] = "assessment_resume_admitted"

Authorized == EveryAttemptIsAuthorized /\ BeginningIsAhead

LEMMA AuthorizedInductive ==
    ASSUME TypeOK, Authorized, NEW a \in Assessments, Commits(a)
    PROVE  Authorized'
<1>1. PICK event \in Events : Writes(a, event) /\ Appends(a, event)
  BY CommitKinds
<1> DEFINE n == Len(journal[a])
<1>2. n \in Nat /\ DOMAIN journal[a] = 1 .. n
  BY DEF TypeOK
<1>3. \A b \in Assessments \ {a} : record'[b] = record[b] /\ journal'[b] = journal[b]
  BY <1>1 DEF Appends
<1>4. /\ DOMAIN journal'[a] = 1 .. n + 1
      /\ \A i \in 1 .. n : journal'[a][i] = journal[a][i]
      /\ journal'[a][n + 1] = event
  BY <1>1 DEF Appends
<1> HIDE DEF n
<1>5. BeginningIsAhead'
  <2>1. record'[a].state # "ABSENT"
    BY <1>1 DEF Writes, Terminal
  <2>2. ASSUME record'[a].state = "CREATED",
               NEW i \in DOMAIN journal'[a], journal'[a][i] = "assessment_begun"
        PROVE  \E h \in DOMAIN journal'[a] :
                 h > i /\ journal'[a][h] = "assessment_resume_admitted"
    <3>1. event # "assessment_begun"
      BY <1>1, <2>2 DEF Writes
    <3>2. i \in 1 .. n /\ journal[a][i] = "assessment_begun"
      BY <1>2, <1>4, <2>2, <3>1
    <3>3. CASE event = "assessment_created"
      <4>1. journal[a] = <<>>
        BY <1>1, <3>3 DEF Writes, Authorized, BeginningIsAhead
      <4> QED
        BY <1>2, <3>2, <4>1 DEF n
    <3>4. CASE event = "assessment_resume_admitted"
      BY <1>2, <1>4, <3>2, <3>4
    <3>5. CASE event = "assessment_cancellation_requested"
      <4>1. record[a].state = "CREATED"
        BY <1>1, <2>2, <3>5 DEF Writes
      <4>2. PICK h \in 1 .. n : h > i /\ journal[a][h] = "assessment_resume_admitted"
        BY <1>2, <3>2, <4>1 DEF Authorized, BeginningIsAhead
      <4> QED
        BY <1>2, <1>4, <4>2
    <3> QED
      BY <1>1, <2>2, <3>3, <3>4, <3>5 DEF Writes
  <2> QED
    BY <1>3, <2>1, <2>2 DEF Authorized, BeginningIsAhead
<1>6. EveryAttemptIsAuthorized'
  <2>1. ASSUME NEW i \in DOMAIN journal'[a], NEW j \in DOMAIN journal'[a], i < j,
               journal'[a][i] = "assessment_begun", journal'[a][j] = "assessment_begun"
        PROVE  \E h \in i .. j : journal'[a][h] = "assessment_resume_admitted"
    <3>1. i \in 1 .. n /\ journal[a][i] = "assessment_begun"
      BY <1>2, <1>4, <2>1
    <3>2. CASE j \in 1 .. n
      <4>1. \E h \in i .. j : journal[a][h] = "assessment_resume_admitted"
        BY <1>2, <1>4, <2>1, <3>1, <3>2 DEF Authorized, EveryAttemptIsAuthorized
      <4> QED
        BY <1>2, <1>4, <3>1, <3>2, <4>1
    <3>3. CASE j = n + 1
      <4>1. record[a].state = "CREATED"
        BY <1>1, <1>4, <2>1, <3>3 DEF Writes
      <4>2. PICK h \in 1 .. n : h > i /\ journal[a][h] = "assessment_resume_admitted"
        BY <1>2, <3>1, <4>1 DEF Authorized, BeginningIsAhead
      <4> QED
        BY <1>2, <1>4, <3>1, <3>3, <4>2
    <3> QED
      BY <1>2, <1>4, <3>2, <3>3
  <2> QED
    BY <1>3, <2>1 DEF Authorized, EveryAttemptIsAuthorized
<1> QED
  BY <1>5, <1>6 DEF Authorized

\* Between two beginnings of one assessment lies a resume that was granted: no
\* restart (recoverInterruptedAssessments) re-runs an attempt by itself.
THEOREM AttemptsAreAuthorized == Spec => []EveryAttemptIsAuthorized
<1>1. Init => Authorized
  BY DEF Init, Authorized, EveryAttemptIsAuthorized, BeginningIsAhead
<1>2. TypeOK /\ Authorized /\ [CommitStep]_vars => Authorized'
  <2>1. Authorized /\ UNCHANGED <<record, journal>> => Authorized'
    BY DEF Authorized, EveryAttemptIsAuthorized, BeginningIsAhead
  <2> QED
    BY <2>1, AuthorizedInductive DEF CommitStep, vars
<1>3. Authorized => EveryAttemptIsAuthorized
  BY DEF Authorized
<1> QED
  BY <1>1, <1>2, <1>3, StepsCommit, TypeCorrect, PTL DEF Spec

-----------------------------------------------------------------------------
(* The service implements the lifecycle. *)

\* What the lifecycle shows of a record: its phase, and three Boolean facts.
LEMMA Shows ==
    ASSUME TypeOK, NEW a \in Assessments
    PROVE  /\ record[a].state = "ABSENT" => phase[a] = "absent"
           /\ record[a].state = "SEALED" => phase[a] = "sealed"
           /\ record[a].state = "CANCELED" => phase[a] = "canceled"
           /\ record[a].state \in {"CREATED", "RUNNING", "BLOCKED"} => phase[a] = "open"
           /\ granted[a] <=> record[a].state = "CREATED"
           /\ working[a] <=> record[a].state = "RUNNING"
           /\ closing[a] <=> record[a].pendingCancellation # 0
BY DEF phase, granted, working, closing

\* What a change of one record changes in the functions of the lifecycle.
LEMMA ShownChange ==
    ASSUME TypeOK, TypeOK', NEW a \in Assessments,
           \A b \in Assessments \ {a} : record'[b] = record[b]
    PROVE  /\ phase' = [phase EXCEPT ![a] = phase'[a]]
           /\ granted' = [granted EXCEPT ![a] = granted'[a]]
           /\ working' = [working EXCEPT ![a] = working'[a]]
           /\ closing' = [closing EXCEPT ![a] = closing'[a]]
           /\ phase'[a] = phase[a] => phase' = phase
           /\ granted'[a] = granted[a] => granted' = granted
           /\ working'[a] = working[a] => working' = working
           /\ closing'[a] = closing[a] => closing' = closing
<1>1. phase' = [phase EXCEPT ![a] = phase'[a]]
  BY DEF phase
<1>2. granted' = [granted EXCEPT ![a] = granted'[a]]
  BY DEF granted
<1>3. working' = [working EXCEPT ![a] = working'[a]]
  BY DEF working
<1>4. closing' = [closing EXCEPT ![a] = closing'[a]]
  BY DEF closing
<1>5. /\ phase'[a] = phase[a] => phase' = phase
      /\ granted'[a] = granted[a] => granted' = granted
      /\ working'[a] = working[a] => working' = working
      /\ closing'[a] = closing[a] => closing' = closing
  BY DEF phase, granted, working, closing
<1> QED
  BY <1>1, <1>2, <1>3, <1>4, <1>5

\* A commit is one step of the lifecycle or leaves what it shows unchanged.
LEMMA CommitIsLifecycleStep ==
    ASSUME TypeOK, TypeOK', CancellationRecorded, NEW a \in Assessments, Commits(a)
    PROVE  [Lifecycle!Next]_(Lifecycle!lifecycle)
<1>1. PICK event \in Events : Writes(a, event) /\ Appends(a, event)
  BY CommitKinds
<1>2. \A b \in Assessments \ {a} : record'[b] = record[b]
  BY <1>1 DEF Appends
<1>3. /\ record[a].revision \in Nat
      /\ record[a].state = "ABSENT" => record[a].pendingCancellation = 0
  BY DEF TypeOK, Records, CancellationRecorded
<1>4. /\ phase' = [phase EXCEPT ![a] = phase'[a]]
      /\ granted' = [granted EXCEPT ![a] = granted'[a]]
      /\ working' = [working EXCEPT ![a] = working'[a]]
      /\ closing' = [closing EXCEPT ![a] = closing'[a]]
      /\ phase'[a] = phase[a] => phase' = phase
      /\ granted'[a] = granted[a] => granted' = granted
      /\ working'[a] = working[a] => working' = working
      /\ closing'[a] = closing[a] => closing' = closing
  BY <1>2, ShownChange
<1>5. /\ granted[a] = (record[a].state = "CREATED")
      /\ granted'[a] = (record'[a].state = "CREATED")
      /\ working[a] = (record[a].state = "RUNNING")
      /\ working'[a] = (record'[a].state = "RUNNING")
      /\ closing[a] = (record[a].pendingCancellation # 0)
      /\ closing'[a] = (record'[a].pendingCancellation # 0)
  BY DEF granted, working, closing
<1>6. /\ record[a].state = "ABSENT" => phase[a] = "absent"
      /\ record[a].state \in {"CREATED", "RUNNING", "BLOCKED"} => phase[a] = "open"
      /\ record'[a].state = "SEALED" => phase'[a] = "sealed"
      /\ record'[a].state = "CANCELED" => phase'[a] = "canceled"
      /\ record'[a].state \in {"CREATED", "RUNNING", "BLOCKED"} => phase'[a] = "open"
  BY Shows DEF phase
<1>7. CASE event = "assessment_created"
  <2>1. Lifecycle!Start(a)
    BY <1>1, <1>3, <1>4, <1>5, <1>6, <1>7 DEF Writes, Lifecycle!Start
  <2> QED
    BY <2>1 DEF Lifecycle!Next
<1>8. CASE event = "assessment_begun"
  <2>1. Lifecycle!Begin(a)
    BY <1>1, <1>4, <1>5, <1>6, <1>8 DEF Writes, Lifecycle!Begin, Lifecycle!Admitting
  <2> QED
    BY <2>1 DEF Lifecycle!Next
<1>9. CASE event = "assessment_resume_admitted"
  <2>1. Lifecycle!Authorize(a)
    BY <1>1, <1>4, <1>5, <1>6, <1>9 DEF Writes, Lifecycle!Authorize, Lifecycle!Admitting
  <2> QED
    BY <2>1 DEF Lifecycle!Next
<1>10. CASE event = "assessment_cancellation_requested"
  <2>1. /\ record[a].pendingCancellation = 0
        /\ record'[a].pendingCancellation # 0
        /\ record[a].state \in {"CREATED", "RUNNING", "BLOCKED"}
        /\ record'[a].state = record[a].state
    BY <1>1, <1>3, <1>10 DEF Writes
  <2>2. closing[a] = FALSE /\ closing'[a] = TRUE
    BY <1>5, <2>1
  <2>3. UNCHANGED <<phase, granted, working>> /\ phase[a] = "open"
    BY <1>4, <1>5, <1>6, <2>1
  <2>4. closing' = [closing EXCEPT ![a] = TRUE]
    BY <1>4, <2>2
  <2>5. Lifecycle!AcceptCancellation(a)
    BY <2>2, <2>3, <2>4 DEF Lifecycle!AcceptCancellation, Lifecycle!Admitting
  <2> QED
    BY <2>5 DEF Lifecycle!Next
<1>11. CASE event = "assessment_canceled"
  <2>1. record[a].state \in {"CREATED", "RUNNING", "BLOCKED"}
    BY <1>1, <1>3, <1>11 DEF Writes, Terminal, TypeOK, Records, States
  <2>2. Lifecycle!Cancel(a)
    BY <1>1, <1>4, <1>5, <1>6, <1>11, <2>1 DEF Writes, Lifecycle!Cancel
  <2> QED
    BY <2>2 DEF Lifecycle!Next
<1>12. CASE event = "assessment_sealed"
  <2>1. Lifecycle!Seal(a)
    BY <1>1, <1>4, <1>5, <1>6, <1>12 DEF Writes, Lifecycle!Seal, Lifecycle!Admitting
  <2> QED
    BY <2>1 DEF Lifecycle!Next
<1>13. CASE event \in {"risk_decision_window_opened", "assessment_blocked"}
  <2>1. Lifecycle!Hold(a)
    BY <1>1, <1>4, <1>5, <1>6, <1>13 DEF Writes, Lifecycle!Hold, Lifecycle!Admitting
  <2> QED
    BY <2>1 DEF Lifecycle!Next
<1>14. CASE event = "risk_decision_recorded"
  BY <1>1, <1>4, <1>5, <1>6, <1>14 DEF Writes, Lifecycle!lifecycle
<1> QED
  BY <1>7, <1>8, <1>9, <1>10, <1>11, <1>12, <1>13, <1>14 DEF Events

\* The service, with its crashes, retries and races, keeps the promise stated by
\* AssessmentLifecycle.
THEOREM ServiceImplementsLifecycle == Spec => ImplementsLifecycle
<1>1. Init => Lifecycle!Init
  <2> SUFFICES ASSUME Init PROVE Lifecycle!Init
    OBVIOUS
  <2>1. \A a \in Assessments : /\ record[a].state = "ABSENT"
                               /\ record[a].pendingCancellation = 0
    BY DEF Init, AbsentRecord
  <2>2. phase = [a \in Assessments |-> "absent"]
    BY <2>1 DEF phase
  <2>3. granted = [a \in Assessments |-> FALSE]
    BY <2>1 DEF granted
  <2>4. working = [a \in Assessments |-> FALSE]
    BY <2>1 DEF working
  <2>5. closing = [a \in Assessments |-> FALSE]
    BY <2>1 DEF closing
  <2> QED
    BY <2>2, <2>3, <2>4, <2>5 DEF Lifecycle!Init
<1>2. TypeOK /\ TypeOK' /\ CancellationRecorded /\ [CommitStep]_vars
        => [Lifecycle!Next]_(Lifecycle!lifecycle)
  <2>1. UNCHANGED <<record, journal>> => UNCHANGED Lifecycle!lifecycle
    BY DEF Lifecycle!lifecycle, phase, granted, working, closing
  <2> QED
    BY <2>1, CommitIsLifecycleStep DEF CommitStep, vars
<1> QED
  BY <1>1, <1>2, StepsCommit, CancellationInvariant, TypeCorrect, PTL
     DEF Spec, ImplementsLifecycle, Lifecycle!Spec

-----------------------------------------------------------------------------
(* A receipt is a commit. *)

\* A request that is granted a receipt has none yet under its key, and its
\* commit appends the row that the receipt names.
GrantsReceipt(a, op, k) ==
    /\ ReceiptsOf(op, a, k) = {}
    /\ Receive(op, a, k)
    /\ Appends(a, EventOf(op))

LEMMA StepReceipts ==
    ASSUME TypeOK, Next
    PROVE  \/ UNCHANGED receipts
           \/ \E a \in Assessments, op \in Operations, k \in Keys : GrantsReceipt(a, op, k)
<1> USE DEF store
<1>1. \A a \in Assessments : record[a] \in Records /\ record[a].revision + 1 \in Nat
  BY DEF TypeOK, Records
<1>2. ASSUME NEW a \in Assessments, NEW k \in Keys, ResumeAssessment(a, k)
      PROVE  GrantsReceipt(a, "resume_assessment", k)
  <2>1. Resumes(a)
    BY <1>2 DEF ResumeAssessment, Resumes
  <2> DEFINE snapshot == [record[a] EXCEPT !.state = "CREATED", !.failureCode = "null",
                                           !.publication = NoSeal]
  <2>2. snapshot \in Records /\ "assessment_resume_admitted" \in Events
    <3>1. "CREATED" \in States /\ "null" \in FailureCodes
      BY DEF States, FailureCodes
    <3>2. snapshot \in Records
      BY <1>1, <3>1 DEF Records
    <3>3. "assessment_resume_admitted" \in Events
      BY DEF Events
    <3> QED
      BY <3>2, <3>3
  <2>3. Commit(a, snapshot, "assessment_resume_admitted")
    BY <1>2 DEF ResumeAssessment
  <2> HIDE DEF snapshot
  <2>4. Appends(a, "assessment_resume_admitted")
    BY <2>2, <2>3, CommitEffect
  <2> QED
    BY <1>2, <2>4 DEF ResumeAssessment, GrantsReceipt, EventOf
<1>3. ASSUME NEW a \in Assessments, NEW k \in Keys, RequestCancellation(a, k)
      PROVE  GrantsReceipt(a, "cancel_assessment", k)
  <2> DEFINE snapshot == [record[a] EXCEPT !.pendingCancellation = record[a].revision + 1]
  <2>1. snapshot \in Records /\ "assessment_cancellation_requested" \in Events
    BY <1>1 DEF Records, Events
  <2>2. Commit(a, snapshot, "assessment_cancellation_requested")
    BY <1>3 DEF RequestCancellation
  <2> HIDE DEF snapshot
  <2>3. Appends(a, "assessment_cancellation_requested")
    BY <2>1, <2>2, CommitEffect
  <2> QED
    BY <1>3, <2>3 DEF RequestCancellation, GrantsReceipt, EventOf
<1>4. ASSUME NEW a \in Assessments, NEW k \in Keys, NEW c \in Calls,
             RecordRiskDecision(a, k, c)
      PROVE  GrantsReceipt(a, "record_risk_decision", k)
  <2>1. PICK f \in record[a].windowFindings, resolution \in Resolutions :
          LET decisions == [record[a].decisions EXCEPT ![f] = resolution]
              resolved == \A g \in record[a].windowFindings : decisions[g] \notin Undecided
              window == IF resolved THEN "RESOLVED" ELSE "OPEN"
          IN  Commit(a, [record[a] EXCEPT !.decisions = decisions, !.window = window],
                     "risk_decision_recorded")
    BY <1>4 DEF RecordRiskDecision
  <2> DEFINE decisions == [record[a].decisions EXCEPT ![f] = resolution]
             window == IF \A g \in record[a].windowFindings : decisions[g] \notin Undecided
                       THEN "RESOLVED" ELSE "OPEN"
             snapshot == [record[a] EXCEPT !.decisions = decisions, !.window = window]
  <2>2. decisions \in [Findings -> Resolutions] /\ window \in {"null", "OPEN", "RESOLVED"}
    BY <1>1 DEF Records
  <2>3. Commit(a, snapshot, "risk_decision_recorded")
    BY <2>1
  <2> HIDE DEF decisions, window
  <2>4. snapshot \in Records /\ "risk_decision_recorded" \in Events
    BY <1>1, <2>2 DEF Records, Events
  <2> HIDE DEF snapshot
  <2>5. Appends(a, "risk_decision_recorded")
    BY <2>3, <2>4, CommitEffect
  <2> QED
    BY <1>4, <2>5 DEF RecordRiskDecision, GrantsReceipt, EventOf
<1>5. ASSUME NEW a \in Assessments, ClientRequest(a)
      PROVE  \/ UNCHANGED receipts
             \/ \E op \in Operations, k \in Keys : GrantsReceipt(a, op, k)
  BY <1>2, <1>3, <1>4, <1>5
     DEF ClientRequest, Operations, AdmitStart, AbandonStart, ReplayStart, AdmitDecision,
         AbandonDecision, ReplayResume, ReplayCancellation, ReplayRiskDecision
<1>6. ASSUME NEW a \in Assessments, RunnerStep(a) \/ ServiceStep(a)
      PROVE  UNCHANGED receipts
  BY <1>6 DEF RunnerStep, ServiceStep, EvaluateAndPublishEvidence, OpenRiskDecisionWindow,
              PublishSealedArtifacts, SealAssessment, FailAssessment, CreateAssessment, Launch,
              ReapTask, CompleteCancellationNow, CompleteCancellationAfterTask
<1>7. ASSUME NEW c \in Calls, FinalizerStep(c)
      PROVE  UNCHANGED receipts
  BY <1>7 DEF FinalizerStep, PublishFinalizedOutcome, SealFinalizedOutcome, FailFinalization
<1>8. CASE Recovery \/ Quiesce \/ CloseStore \/ Crash
  BY <1>8 DEF Recovery, Boot, FinishRecovery, RecoverCancellation, RecoverInterrupted,
              Quiesce, CloseStore, Crash
<1> QED
  BY <1>5, <1>6, <1>7, <1>8 DEF Next

\* Rows are only ever appended.
LEMMA RowsStay ==
    ASSUME TypeOK, CommitStep
    PROVE  \A b \in Assessments : \A i \in DOMAIN journal[b] :
             i \in DOMAIN journal'[b] /\ journal'[b][i] = journal[b][i]
<1>1. CASE UNCHANGED <<record, journal>>
  BY <1>1
<1>2. ASSUME NEW a \in Assessments, Commits(a)
      PROVE  \A b \in Assessments : \A i \in DOMAIN journal[b] :
               i \in DOMAIN journal'[b] /\ journal'[b][i] = journal[b][i]
  <2>1. PICK event \in Events : Appends(a, event)
    BY <1>2, CommitKinds
  <2>2. Len(journal[a]) \in Nat
    BY DEF TypeOK
  <2>3. \A i \in DOMAIN journal[a] : i \in DOMAIN journal'[a] /\ journal'[a][i] = journal[a][i]
    BY <2>1, <2>2 DEF Appends
  <2> QED
    BY <2>1, <2>3 DEF Appends
<1> QED
  BY <1>1, <1>2 DEF CommitStep

LEMMA ReceiptsInductive ==
    ASSUME TypeOK, CompletionsAreRequests, CancellationRecorded, ReceiptsAreCommits, [Next]_vars
    PROVE  ReceiptsAreCommits'
<1>1. CommitStep
  BY StepCommits DEF CommitStep, vars
<1>2. \A r \in receipts : /\ r.target \in Assessments
                          /\ r.revision \in DOMAIN journal'[r.target]
                          /\ journal'[r.target][r.revision] = EventOf(r.operation)
  <2>1. \A r \in receipts : r.target \in Assessments
    BY DEF TypeOK, Receipts
  <2> QED
    BY <1>1, <2>1, RowsStay DEF ReceiptsAreCommits
<1>3. CASE UNCHANGED receipts
  BY <1>2, <1>3 DEF ReceiptsAreCommits
<1>4. ASSUME NEW a \in Assessments, NEW op \in Operations, NEW k \in Keys,
             GrantsReceipt(a, op, k)
      PROVE  ReceiptsAreCommits'
  <2> DEFINE n == record[a].revision + 1
             new == [operation |-> op, target |-> a, key |-> k, revision |-> n]
  <2>1. receipts' = receipts \cup {new}
    BY <1>4 DEF GrantsReceipt, Receive
  <2>2. Len(journal[a]) = record[a].revision /\ record[a].revision \in Nat
    BY DEF CancellationRecorded, TypeOK, Records
  <2>3. n \in DOMAIN journal'[a] /\ journal'[a][n] = EventOf(op)
    BY <1>4, <2>2 DEF GrantsReceipt, Appends
  <2>4. ASSUME NEW r \in receipts, r.target = a
        PROVE  r.revision # n /\ <<r.operation, r.key>> # <<op, k>>
    <3>1. r.revision \in 1 .. record[a].revision
      BY <1>4, <2>2, <2>4 DEF ReceiptsAreCommits, GrantsReceipt, Appends
    <3>2. r.operation # op \/ r.key # k
      BY <1>4, <2>4 DEF GrantsReceipt, ReceiptsOf
    <3> QED
      BY <2>2, <3>1, <3>2
  <2>5. /\ new.operation = op
        /\ new.target = a
        /\ new.key = k
        /\ new.revision = n
    OBVIOUS
  <2> HIDE DEF new, n
  <2>6. \A r \in receipts' : /\ r.revision \in DOMAIN journal'[r.target]
                             /\ journal'[r.target][r.revision] = EventOf(r.operation)
    BY <1>2, <2>1, <2>3, <2>5
  <2>7. \A r, s \in receipts :
          \/ r = s
          \/ r.target # s.target
          \/ r.revision # s.revision /\ <<r.operation, r.key>> # <<s.operation, s.key>>
    BY DEF ReceiptsAreCommits
  <2>8. \A r \in receipts :
          r.target = a => r.revision # n /\ <<r.operation, r.key>> # <<op, k>>
    BY <2>4
  <2>9. \A r, s \in receipts' :
          \/ r = s
          \/ r.target # s.target
          \/ r.revision # s.revision /\ <<r.operation, r.key>> # <<s.operation, s.key>>
    BY <2>1, <2>5, <2>7, <2>8
  <2> QED
    BY <2>6, <2>9 DEF ReceiptsAreCommits
<1> QED
  BY <1>3, <1>4, StepReceipts DEF vars

\* Every receipt names the row its request committed, and no two requests were
\* granted one revision or one key: a replayed key never mutates twice
\* (recordIdempotency, src/src/internal/persistence.ts).
THEOREM ReceiptsStayCommits == Spec => []ReceiptsAreCommits
<1>1. Init => ReceiptsAreCommits
  BY DEF Init, ReceiptsAreCommits
<1> QED
  BY <1>1, ReceiptsInductive, CompletionsInvariant, CancellationInvariant, PTL DEF Spec

-----------------------------------------------------------------------------
(* Tasks and files.  What the volatile half of AssessmentService guarantees *)
(* about the durable half: files are in place before a record names them,   *)
(* a RUNNING record has a task that will end it, and CANCELED waits for the *)
(* task.                                                                    *)

-----------------------------------------------------------------------------
(* Files precede the records that name them. *)

\* What a task or a finalization is about to commit is already on disk.
FilesInHand ==
    /\ \A a \in Assessments :
         /\ runner[a].pc \in {"evaluated", "sealing"} => runner[a].revision \in evidence[a]
         /\ runner[a].pc = "sealing" => runner[a].seal \in bundles[a]
    /\ \A c \in Calls :
         finalizer[c].pc = "sealing" => finalizer[c].seal \in bundles[finalizer[c].target]

FilesPrecedeRecords == FilesInHand /\ SealedIsPublished /\ WindowHasEvidence

\* Nothing removes a published file.
LEMMA FilesStay ==
    ASSUME TypeOK, [Next]_vars
    PROVE  \A a \in Assessments : evidence[a] \subseteq evidence'[a]
                                  /\ bundles[a] \subseteq bundles'[a]
<1> USE DEF disk, TypeOK
<1>1. ASSUME NEW a \in Assessments, ClientRequest(a)
      PROVE  UNCHANGED disk
  BY <1>1 DEF ClientRequest, AdmitStart, AbandonStart, ReplayStart, AdmitDecision,
     AbandonDecision, ResumeAssessment, ReplayResume, RequestCancellation,
     ReplayCancellation, RecordRiskDecision, ReplayRiskDecision
<1>2. ASSUME NEW a \in Assessments, ServiceStep(a)
      PROVE  UNCHANGED disk
  BY <1>2 DEF ServiceStep, CreateAssessment, Launch, ReapTask,
     CompleteCancellationNow, CompleteCancellationAfterTask
<1>3. ASSUME NEW a \in Assessments, RunnerStep(a)
      PROVE  \A b \in Assessments : evidence[b] \subseteq evidence'[b]
                                    /\ bundles[b] \subseteq bundles'[b]
  <2>1. CASE EvaluateAndPublishEvidence(a)
    BY <2>1 DEF EvaluateAndPublishEvidence
  <2>2. CASE PublishSealedArtifacts(a)
    BY <2>2 DEF PublishSealedArtifacts
  <2>3. CASE OpenRiskDecisionWindow(a) \/ SealAssessment(a) \/ FailAssessment(a)
    <3>1. UNCHANGED disk
      BY <2>3 DEF OpenRiskDecisionWindow, SealAssessment, FailAssessment
    <3> QED
      BY <3>1
  <2> QED
    BY <1>3, <2>1, <2>2, <2>3 DEF RunnerStep
<1>4. ASSUME NEW c \in Calls, FinalizerStep(c)
      PROVE  \A b \in Assessments : evidence[b] \subseteq evidence'[b]
                                    /\ bundles[b] \subseteq bundles'[b]
  BY <1>4 DEF FinalizerStep, PublishFinalizedOutcome, SealFinalizedOutcome,
     FailFinalization
<1>5. CASE Recovery \/ Quiesce \/ CloseStore \/ Crash
  BY <1>5 DEF Recovery, Boot, FinishRecovery, RecoverCancellation, RecoverInterrupted,
     Quiesce, CloseStore, Crash
<1>6. CASE UNCHANGED vars
  BY <1>6 DEF vars
<1> QED
  BY <1>1, <1>2, <1>3, <1>4, <1>5, <1>6 DEF Next

LEMMA FilesInHandInductive ==
    ASSUME TypeOK, FilesInHand, [Next]_vars
    PROVE  FilesInHand'
<1> USE DEF store, disk, volatile
<1>0. \A a \in Assessments : /\ evidence[a] \subseteq evidence'[a]
                             /\ bundles[a] \subseteq bundles'[a]
  BY FilesStay
<1>1. /\ NoRunner.pc = "none"
      /\ IdleFinalizer.pc = "idle"
  BY DEF NoRunner, IdleFinalizer
<1>2. \A c \in Calls : finalizer[c].pc = "sealing" => finalizer[c].target \in Assessments
  BY DEF TypeOK, Finalizers, IdleFinalizer
\* It is enough that runners and finalizers keep what they hold or let it go.
<1>3. ASSUME \A a \in Assessments :
                \/ runner'[a].pc \notin {"evaluated", "sealing"}
                \/ /\ runner'[a].pc = runner[a].pc
                   /\ runner'[a].revision = runner[a].revision
                   /\ runner'[a].seal = runner[a].seal,
             \A c \in Calls :
                finalizer'[c].pc # "sealing" \/ finalizer'[c] = finalizer[c]
      PROVE  FilesInHand'
  BY <1>0, <1>2, <1>3 DEF FilesInHand
<1>4. ASSUME NEW a \in Assessments, NEW r, Quell(a, r)
      PROVE  \A b \in Assessments : /\ runner'[b].pc = runner[b].pc
                                    /\ runner'[b].revision = runner[b].revision
                                    /\ runner'[b].seal = runner[b].seal
  <2>1. CASE runner[a].pc = "none"
    BY <1>4, <2>1 DEF Quell
  <2>2. CASE runner[a].pc # "none"
    <3>1. runner' = [runner EXCEPT ![a].aborted = TRUE]
      BY <1>4, <2>2 DEF Quell
    <3>2. /\ runner \in [Assessments -> Runners]
          /\ runner[a] \in Runners
      BY DEF TypeOK
    <3>3. /\ runner'[a] = [runner[a] EXCEPT !.aborted = TRUE]
          /\ \A b \in Assessments \ {a} : runner'[b] = runner[b]
      BY <3>1, <3>2
    <3> QED
      BY <3>2, <3>3 DEF Runners
  <2> QED
    BY <2>1, <2>2
<1>5. ASSUME NEW c \in Calls, NEW a, NEW state, NEW window, NEW r,
             Finalize(c, a, state, window, r)
      PROVE  \A d \in Calls : finalizer'[d].pc # "sealing" \/ finalizer'[d] = finalizer[d]
  BY <1>5 DEF Finalize, IdleFinalizer, TypeOK
<1>6. ASSUME NEW a \in Assessments, ClientRequest(a)
      PROVE  FilesInHand'
  <2>1. CASE \/ AdmitStart(a) \/ AbandonStart(a) \/ ReplayStart(a)
             \/ AdmitDecision(a) \/ AbandonDecision(a)
    BY <1>3, <2>1
       DEF AdmitStart, AbandonStart, ReplayStart, AdmitDecision, AbandonDecision
  <2>2. ASSUME NEW k \in Keys, ResumeAssessment(a, k) \/ ReplayResume(a, k)
        PROVE  FilesInHand'
    BY <1>3, <2>2 DEF ResumeAssessment, ReplayResume
  <2>3. ASSUME NEW k \in Keys, RequestCancellation(a, k) \/ ReplayCancellation(a, k)
        PROVE  FilesInHand'
    BY <1>3, <1>4, <2>3 DEF RequestCancellation, ReplayCancellation
  <2>4. ASSUME NEW k \in Keys, NEW c \in Calls, RecordRiskDecision(a, k, c)
        PROVE  FilesInHand'
    <3>1. PICK window : Finalize(c, a, "BLOCKED", window, record[a].revision + 1)
      BY <2>4 DEF RecordRiskDecision
    <3> QED
      BY <1>3, <1>5, <2>4, <3>1 DEF RecordRiskDecision
  <2>5. ASSUME NEW k \in Keys, NEW c \in Calls, ReplayRiskDecision(a, k, c)
        PROVE  FilesInHand'
    BY <1>3, <1>5, <2>5 DEF ReplayRiskDecision
  <2> QED
    BY <1>6, <2>1, <2>2, <2>3, <2>4, <2>5 DEF ClientRequest
<1>7. ASSUME NEW a \in Assessments, RunnerStep(a)
      PROVE  FilesInHand'
  <2>1. CASE EvaluateAndPublishEvidence(a)
    BY <1>0, <2>1 DEF EvaluateAndPublishEvidence, FilesInHand, TypeOK, Runners
  <2>2. CASE PublishSealedArtifacts(a)
    <3>1. PICK s \in SealIds :
            /\ bundles' = [bundles EXCEPT ![a] = @ \cup {s}]
            /\ runner' = [runner EXCEPT ![a].pc = "sealing", ![a].seal = s]
      BY <2>2 DEF PublishSealedArtifacts
    <3>2. s \in bundles'[a]
      BY <3>1 DEF TypeOK
    <3>3. /\ runner'[a].seal = s
          /\ runner'[a].revision = runner[a].revision
          /\ runner[a].pc = "evaluated"
          /\ \A b \in Assessments \ {a} : runner'[b] = runner[b]
          /\ UNCHANGED <<evidence, finalizer>>
      BY <2>2, <3>1 DEF PublishSealedArtifacts, TypeOK, Runners
    <3> QED
      BY <1>0, <1>2, <3>2, <3>3 DEF FilesInHand
  <2>3. CASE OpenRiskDecisionWindow(a) \/ SealAssessment(a) \/ FailAssessment(a)
    BY <1>3, <2>3
       DEF OpenRiskDecisionWindow, SealAssessment, FailAssessment, TypeOK, Runners
  <2> QED
    BY <1>7, <2>1, <2>2, <2>3 DEF RunnerStep
<1>8. ASSUME NEW a \in Assessments, ServiceStep(a)
      PROVE  FilesInHand'
  <2>1. CASE Launch(a)
    <3>1. /\ runner'[a].pc \notin {"evaluated", "sealing"} \/ runner'[a] = runner[a]
          /\ \A b \in Assessments \ {a} : runner'[b] = runner[b]
      BY <2>1 DEF Launch, TypeOK, NoRunner
    <3>2. finalizer' = finalizer
      BY <2>1 DEF Launch
    <3> QED
      BY <1>3, <3>1, <3>2
  <2>2. CASE ReapTask(a)
    BY <1>1, <1>3, <2>2 DEF ReapTask, TypeOK
  <2>3. CASE \/ CreateAssessment(a) \/ CompleteCancellationNow(a)
             \/ CompleteCancellationAfterTask(a)
    BY <1>3, <2>3
       DEF CreateAssessment, CompleteCancellationNow, CompleteCancellationAfterTask
  <2> QED
    BY <1>8, <2>1, <2>2, <2>3 DEF ServiceStep
<1>9. ASSUME NEW c \in Calls, FinalizerStep(c)
      PROVE  FilesInHand'
  <2>1. CASE PublishFinalizedOutcome(c)
    <3> DEFINE a == finalizer[c].target
    <3>1. PICK s \in SealIds :
            /\ bundles' = [bundles EXCEPT ![a] = @ \cup {s}]
            /\ finalizer' = [finalizer EXCEPT ![c].pc = "sealing", ![c].seal = s]
      BY <2>1 DEF PublishFinalizedOutcome
    <3>2. a \in Assessments
      BY <2>1 DEF PublishFinalizedOutcome, TypeOK, Finalizers, IdleFinalizer
    <3>3. s \in bundles'[a]
      BY <3>1, <3>2 DEF TypeOK
    <3>4. /\ finalizer'[c].seal = s
          /\ finalizer'[c].target = a
          /\ \A d \in Calls \ {c} : finalizer'[d] = finalizer[d]
          /\ UNCHANGED <<evidence, runner>>
      BY <2>1, <3>1 DEF PublishFinalizedOutcome, TypeOK, Finalizers, IdleFinalizer
    <3> QED
      BY <1>0, <1>2, <3>3, <3>4 DEF FilesInHand
  <2>2. CASE SealFinalizedOutcome(c) \/ FailFinalization(c)
    BY <1>1, <1>3, <2>2 DEF SealFinalizedOutcome, FailFinalization, TypeOK
  <2> QED
    BY <1>9, <2>1, <2>2 DEF FinalizerStep
<1>10. CASE Recovery
  BY <1>3, <1>10 DEF Recovery, Boot, FinishRecovery, RecoverCancellation,
     RecoverInterrupted
<1>11. CASE Quiesce
  BY <1>1, <1>3, <1>11 DEF Quiesce, TypeOK, Runners
<1>12. CASE CloseStore \/ Crash
  BY <1>1, <1>3, <1>12 DEF CloseStore, Crash, Forget
<1>13. CASE UNCHANGED vars
  BY <1>3, <1>13 DEF vars
<1> QED
  BY <1>6, <1>7, <1>8, <1>9, <1>10, <1>11, <1>12, <1>13 DEF Next

LEMMA NamedFilesInductive ==
    ASSUME TypeOK, TypeOK', CompletionsAreRequests, FilesPrecedeRecords, [Next]_vars
    PROVE  SealedIsPublished' /\ WindowHasEvidence'
<1>0. \A a \in Assessments : /\ evidence[a] \subseteq evidence'[a]
                             /\ bundles[a] \subseteq bundles'[a]
  BY FilesStay
<1>1. CASE UNCHANGED <<record, journal>>
  BY <1>0, <1>1 DEF FilesPrecedeRecords, SealedIsPublished, WindowHasEvidence
<1>2. ASSUME NEW a \in Assessments, Commits(a)
      PROVE  SealedIsPublished' /\ WindowHasEvidence'
  <2>1. PICK event \in Events : Writes(a, event) /\ Appends(a, event)
    BY <1>2, CommitKinds
  <2>2. \A b \in Assessments \ {a} : record'[b] = record[b]
    BY <2>1 DEF Appends
  <2>3. record'[a].state = "SEALED" => record'[a].publication \in bundles[a]
    <3>1. SealInHand(a, record'[a].publication) => record'[a].publication \in bundles[a]
      BY DEF SealInHand, FilesPrecedeRecords, FilesInHand
    <3>2. record'[a].state = "SEALED" => SealInHand(a, record'[a].publication)
      BY <2>1 DEF Writes
    <3> QED
      BY <3>1, <3>2
  <2>4. record'[a].window # "null" => record'[a].windowEvidence \in evidence[a]
    <3>1. CASE event = "risk_decision_window_opened"
      BY <2>1, <3>1 DEF Writes, FilesPrecedeRecords, FilesInHand
    <3>2. CASE event # "risk_decision_window_opened"
      BY <2>1, <3>2 DEF Writes, FilesPrecedeRecords, WindowHasEvidence
    <3> QED
      BY <3>1, <3>2
  <2> QED
    BY <1>0, <2>2, <2>3, <2>4
       DEF FilesPrecedeRecords, SealedIsPublished, WindowHasEvidence
<1> QED
  BY <1>1, <1>2, StepCommits DEF vars

LEMMA FilesInvariant == Spec => []FilesPrecedeRecords
<1>1. Init => FilesPrecedeRecords
  BY DEF Init, FilesPrecedeRecords, FilesInHand, SealedIsPublished, WindowHasEvidence,
     AbsentRecord, NoRunner, IdleFinalizer
<1>2. TypeOK /\ TypeOK' /\ CompletionsAreRequests /\ FilesPrecedeRecords /\ [Next]_vars
        => FilesPrecedeRecords'
  BY FilesInHandInductive, NamedFilesInductive DEF FilesPrecedeRecords
<1> QED
  BY <1>1, <1>2, CompletionsInvariant, PTL DEF Spec

\* A SEALED record names a publication that is in place: publishSealedArtifacts
\* precedes sealAssessment on both paths, whatever crashes in between.
THEOREM SealsArePublished == Spec => []SealedIsPublished
BY FilesInvariant, PTL DEF FilesPrecedeRecords

\* The Evidence of a Risk Decision Window is in place for as long as the window is
\* part of the record: publishEvidenceSet precedes openRiskDecisionWindow.
THEOREM WindowsHaveEvidence == Spec => []WindowHasEvidence
BY FilesInvariant, PTL DEF FilesPrecedeRecords

-----------------------------------------------------------------------------
(* A RUNNING record has its task; a CANCELED one has none. *)

RunningTask(a) ==
    /\ process \in {"ACTIVE", "QUIESCING"}
    /\ record[a].state = "RUNNING"
    /\ record[a].pendingCancellation = 0
    => runner[a].pc \in Live /\ runner[a].revision = record[a].revision

CanceledTask(a) == record[a].state = "CANCELED" => runner[a].pc \notin Live

TaskOf(a) == RunningTask(a) /\ CanceledTask(a)

\* A stopped or recovering process runs nothing, and a completion that is due in
\* the current stretch is due because no task was running.
StretchIsConsistent ==
    /\ process \in {"STOPPED", "RECOVERING"} =>
         turn = {} /\ \A a \in Assessments : runner[a].pc = "none"
    /\ \A a \in Assessments, r \in Nat :
         CompletionOf(a, r) \in turn => LaunchOf(a) \notin turn /\ runner[a].pc = "none"

TasksMatchRecords == StretchIsConsistent /\ \A a \in Assessments : TaskOf(a)

LEMMA BlockState ==
    ASSUME TypeOK, NEW a \in Assessments, NEW r, NEW code, Block(a, r, code)
    PROVE  /\ \A b \in Assessments \ {a} : record'[b] = record[b]
           /\ IF Blockable(a, r) THEN record'[a].state = "BLOCKED" ELSE record' = record
<1>1. record \in [Assessments -> Records] /\ record[a] \in Records
  BY DEF TypeOK
<1>2. CASE Blockable(a, r)
  <2>1. record' = [record EXCEPT
           ![a] = [[record[a] EXCEPT !.state = "BLOCKED", !.failureCode = code]
                     EXCEPT !.revision = record[a].revision + 1]]
    BY <1>2 DEF Block, Commit
  <2> QED
    BY <1>1, <1>2, <2>1 DEF Records
<1>3. CASE ~Blockable(a, r)
  BY <1>3 DEF Block
<1> QED
  BY <1>2, <1>3

LEMMA SealState ==
    ASSUME TypeOK, NEW a \in Assessments, NEW s, Seal(a, s)
    PROVE  /\ \A b \in Assessments \ {a} : record'[b] = record[b]
           /\ record'[a].state = "SEALED"
BY DEF Seal, Commit, TypeOK, Records

LEMMA CompletionState ==
    ASSUME TypeOK, NEW a \in Assessments, NEW r, CompleteCancellation(a, r)
    PROVE  /\ \A b \in Assessments \ {a} : record'[b] = record[b]
           /\ record' = record \/ record'[a].state = "CANCELED"
<1>1. record \in [Assessments -> Records] /\ record[a] \in Records
  BY DEF TypeOK
<1>2. CASE record' = record
  BY <1>2
<1>3. CASE record' # record
  <2>1. record' = [record EXCEPT
           ![a] = [[record[a] EXCEPT !.state = "CANCELED", !.failureCode = "null",
                                     !.publication = NoSeal]
                     EXCEPT !.revision = record[a].revision + 1]]
    BY <1>3 DEF CompleteCancellation, Commit
  <2> QED
    BY <1>1, <2>1 DEF Records
<1> QED
  BY <1>2, <1>3

\* An assessment keeps its task if the step leaves its record alone, or makes it
\* neither RUNNING nor CANCELED, and leaves the task alone but for aborting it.
LEMMA TaskKept ==
    ASSUME NEW a \in Assessments, TaskOf(a),
           process' = process \/ (process' = "QUIESCING" /\ process = "ACTIVE"),
           \/ record'[a] = record[a]
           \/ record'[a].state \notin {"RUNNING", "CANCELED"}
           \/ record'[a].state # "CANCELED" /\ record'[a].pendingCancellation # 0,
           runner'[a].pc = runner[a].pc,
           runner'[a].revision = runner[a].revision
    PROVE  TaskOf(a)'
BY DEF TaskOf, RunningTask, CanceledTask

LEMMA StretchKept ==
    ASSUME StretchIsConsistent, process' = process, turn' \subseteq turn,
           \A a \in Assessments : runner'[a].pc = runner[a].pc
    PROVE  StretchIsConsistent'
BY DEF StretchIsConsistent

LEMMA QuellState ==
    ASSUME TypeOK, NEW a \in Assessments, NEW r \in Nat, Quell(a, r), turn = {},
           process = "ACTIVE"
    PROVE  /\ \A b \in Assessments : /\ runner'[b].pc = runner[b].pc
                                     /\ runner'[b].revision = runner[b].revision
           /\ process' = process => StretchIsConsistent'
<1>1. CASE runner[a].pc = "none"
  <2>1. turn' = {CompletionOf(a, r)} /\ runner' = runner
    BY <1>1 DEF Quell
  <2>2. \A b \in Assessments, n \in Nat :
          CompletionOf(b, n) \in turn' => b = a
    BY <2>1 DEF CompletionOf
  <2>3. \A b \in Assessments : LaunchOf(b) \notin turn'
    BY <2>1 DEF CompletionOf, LaunchOf
  <2> QED
    BY <1>1, <2>1, <2>2, <2>3 DEF StretchIsConsistent
<1>2. CASE runner[a].pc # "none"
  <2>1. runner' = [runner EXCEPT ![a].aborted = TRUE] /\ turn' = turn
    BY <1>2 DEF Quell
  <2>2. runner \in [Assessments -> Runners] /\ runner[a] \in Runners
    BY DEF TypeOK
  <2>3. /\ runner'[a] = [runner[a] EXCEPT !.aborted = TRUE]
        /\ \A b \in Assessments \ {a} : runner'[b] = runner[b]
    BY <2>1, <2>2
  <2>4. \A b \in Assessments : /\ runner'[b].pc = runner[b].pc
                               /\ runner'[b].revision = runner[b].revision
    BY <2>2, <2>3 DEF Runners
  <2> QED
    BY <2>1, <2>4 DEF StretchIsConsistent
<1> QED
  BY <1>1, <1>2

LEMMA ClientKeepsTasks ==
    ASSUME TypeOK, TasksMatchRecords, NEW a \in Assessments, ClientRequest(a)
    PROVE  TasksMatchRecords'
<1> USE DEF store, disk
<1>0. /\ record \in [Assessments -> Records]
      /\ record[a] \in Records
      /\ record[a].revision \in Nat /\ record[a].revision + 1 \in Nat \ {0}
  BY DEF TypeOK, Records
<1>1. \A b \in Assessments, r \in Nat, c \in Assessments : CompletionOf(b, r) # LaunchOf(c)
  BY DEF CompletionOf, LaunchOf
<1>2. CASE \/ AdmitStart(a) \/ AbandonStart(a) \/ AdmitDecision(a) \/ AbandonDecision(a)
  BY <1>2 DEF AdmitStart, AbandonStart, AdmitDecision, AbandonDecision,
     TasksMatchRecords, TaskOf, RunningTask, CanceledTask, StretchIsConsistent
<1>3. ASSUME process = "ACTIVE", turn' = {LaunchOf(a)},
             UNCHANGED <<process, runner>>
      PROVE  StretchIsConsistent'
  BY <1>1, <1>3 DEF StretchIsConsistent
<1>4. CASE ReplayStart(a) \/ \E k \in Keys : ReplayResume(a, k)
  BY <1>3, <1>4 DEF ReplayStart, ReplayResume, Admits, TasksMatchRecords, TaskOf,
     RunningTask, CanceledTask
<1>5. ASSUME NEW k \in Keys, ResumeAssessment(a, k)
      PROVE  TasksMatchRecords'
  <2>1. record' = [record EXCEPT
           ![a] = [[record[a] EXCEPT !.state = "CREATED", !.failureCode = "null",
                                     !.publication = NoSeal]
                     EXCEPT !.revision = record[a].revision + 1]]
    BY <1>5 DEF ResumeAssessment, Commit
  <2>2. /\ record'[a].state = "CREATED"
        /\ \A b \in Assessments \ {a} : record'[b] = record[b]
    BY <1>0, <2>1 DEF Records
  <2>3. StretchIsConsistent'
    BY <1>3, <1>5 DEF ResumeAssessment, Admits
  <2>4. UNCHANGED <<process, runner>>
    BY <1>5 DEF ResumeAssessment
  <2>5. ASSUME NEW b \in Assessments
        PROVE  TaskOf(b)'
    <3>1. record'[b] = record[b] \/ record'[b].state \notin {"RUNNING", "CANCELED"}
      BY <2>2
    <3>2. TaskOf(b)
      BY DEF TasksMatchRecords
    <3>3. runner'[b].pc = runner[b].pc /\ runner'[b].revision = runner[b].revision
      BY <2>4
    <3>4. process' = process
      BY <2>4
    <3> QED
      BY <3>1, <3>2, <3>3, <3>4 DEF TaskOf, RunningTask, CanceledTask
  <2> QED
    BY <2>3, <2>5 DEF TasksMatchRecords
<1>6. ASSUME NEW k \in Keys, RequestCancellation(a, k)
      PROVE  TasksMatchRecords'
  <2>1. record' = [record EXCEPT
           ![a] = [[record[a] EXCEPT !.pendingCancellation = record[a].revision + 1]
                     EXCEPT !.revision = record[a].revision + 1]]
    BY <1>6 DEF RequestCancellation, Commit
  <2>2. /\ record'[a].state # "CANCELED"
        /\ record'[a].pendingCancellation # 0
        /\ \A b \in Assessments \ {a} : record'[b] = record[b]
    BY <1>0, <1>6, <2>1 DEF RequestCancellation, Records
  <2>3. /\ Quell(a, record[a].revision + 1) /\ turn = {} /\ process = "ACTIVE"
        /\ process' = process
    BY <1>6 DEF RequestCancellation, Admits
  <2>4. /\ StretchIsConsistent'
        /\ \A b \in Assessments : /\ runner'[b].pc = runner[b].pc
                                  /\ runner'[b].revision = runner[b].revision
    BY <1>0, <2>3, QuellState
  <2>5. \A b \in Assessments : TaskOf(b)'
    BY <2>2, <2>3, <2>4, TaskKept DEF TasksMatchRecords
  <2> QED
    BY <2>4, <2>5 DEF TasksMatchRecords
<1>7. ASSUME NEW k \in Keys, ReplayCancellation(a, k)
      PROVE  TasksMatchRecords'
  <2>1. PICK r \in receipts : Quell(a, r.revision)
    BY <1>7 DEF ReplayCancellation, ReceiptsOf
  <2>2. /\ r.revision \in Nat /\ turn = {} /\ process = "ACTIVE"
        /\ UNCHANGED <<process, record>>
    BY <1>7 DEF ReplayCancellation, Admits, TypeOK, Receipts
  <2>3. /\ StretchIsConsistent'
        /\ \A b \in Assessments : /\ runner'[b].pc = runner[b].pc
                                  /\ runner'[b].revision = runner[b].revision
    BY <2>1, <2>2, QuellState
  <2>4. \A b \in Assessments : TaskOf(b)'
    BY <2>2, <2>3, TaskKept DEF TasksMatchRecords
  <2> QED
    BY <2>3, <2>4 DEF TasksMatchRecords
<1>8. ASSUME NEW k \in Keys, NEW c \in Calls, RecordRiskDecision(a, k, c)
      PROVE  TasksMatchRecords'
  <2>1. PICK decisions, window :
          record' = [record EXCEPT
            ![a] = [[record[a] EXCEPT !.decisions = decisions, !.window = window]
                      EXCEPT !.revision = record[a].revision + 1]]
    BY <1>8 DEF RecordRiskDecision, Commit
  <2>2. /\ record'[a].state = "BLOCKED"
        /\ \A b \in Assessments \ {a} : record'[b] = record[b]
    BY <1>0, <1>8, <2>1 DEF RecordRiskDecision, WindowOpen, Records
  <2>3. UNCHANGED <<process, turn, runner>>
    BY <1>8 DEF RecordRiskDecision
  <2>4. StretchIsConsistent'
    BY <2>3, StretchKept DEF TasksMatchRecords
  <2>5. ASSUME NEW b \in Assessments
        PROVE  TaskOf(b)'
    <3>1. record'[b] = record[b] \/ record'[b].state \notin {"RUNNING", "CANCELED"}
      BY <2>2
    <3>2. TaskOf(b)
      BY DEF TasksMatchRecords
    <3>3. runner'[b].pc = runner[b].pc /\ runner'[b].revision = runner[b].revision
      BY <2>3
    <3>4. process' = process
      BY <2>3
    <3> QED
      BY <3>1, <3>2, <3>3, <3>4 DEF TaskOf, RunningTask, CanceledTask
  <2> QED
    BY <2>4, <2>5 DEF TasksMatchRecords
<1>9. ASSUME NEW k \in Keys, NEW c \in Calls, ReplayRiskDecision(a, k, c)
      PROVE  TasksMatchRecords'
  BY <1>9 DEF ReplayRiskDecision, TasksMatchRecords, TaskOf, RunningTask, CanceledTask,
     StretchIsConsistent
<1> QED
  BY <1>2, <1>4, <1>5, <1>6, <1>7, <1>8, <1>9 DEF ClientRequest

LEMMA RunnerKeepsTasks ==
    ASSUME TypeOK, TasksMatchRecords, NEW a \in Assessments, RunnerStep(a)
    PROVE  TasksMatchRecords'
<1> USE DEF store, disk
<1>0. /\ record \in [Assessments -> Records] /\ record[a] \in Records
      /\ runner \in [Assessments -> Runners] /\ runner[a] \in Runners
  BY DEF TypeOK
<1>1. /\ process \in {"ACTIVE", "QUIESCING"} /\ turn = {}
      /\ UNCHANGED <<process, turn>>
      /\ runner[a].pc \in Live
      /\ \A b \in Assessments \ {a} : runner'[b] = runner[b]
  <2>1. CASE EvaluateAndPublishEvidence(a)
    BY <1>0, <2>1 DEF EvaluateAndPublishEvidence, Continues, Live
  <2>2. CASE OpenRiskDecisionWindow(a)
    BY <1>0, <2>2 DEF OpenRiskDecisionWindow, Continues, Live
  <2>3. CASE PublishSealedArtifacts(a)
    BY <1>0, <2>3 DEF PublishSealedArtifacts, Continues, Live
  <2>4. CASE SealAssessment(a)
    BY <1>0, <2>4 DEF SealAssessment, Continues, Live
  <2>5. CASE FailAssessment(a)
    BY <1>0, <2>5 DEF FailAssessment, Continues, Live
  <2> QED
    BY <2>1, <2>2, <2>3, <2>4, <2>5 DEF RunnerStep
<1>2. StretchIsConsistent'
  BY <1>1 DEF StretchIsConsistent
\* Past the end of its task an assessment is neither RUNNING nor newly CANCELED.
<1>3. ASSUME \A b \in Assessments \ {a} : record'[b] = record[b],
             \/ record'[a].state \in {"BLOCKED", "SEALED"}
             \/ record'[a] = record[a] /\ ~Blockable(a, runner[a].revision),
             runner'[a].pc = "settled"
      PROVE  TasksMatchRecords'
  <2>1. TaskOf(a)'
    BY <1>0, <1>1, <1>3 DEF TasksMatchRecords, TaskOf, RunningTask, CanceledTask,
       Blockable, Live
  <2>2. \A b \in Assessments \ {a} : TaskOf(b)'
    BY <1>1, <1>3 DEF TasksMatchRecords, TaskOf, RunningTask, CanceledTask
  <2> QED
    BY <1>2, <2>1, <2>2 DEF TasksMatchRecords
<1>4. ASSUME UNCHANGED record, runner'[a].pc \in Live,
             runner'[a].revision = runner[a].revision
      PROVE  TasksMatchRecords'
  <2>1. TaskOf(a)'
    BY <1>1, <1>4 DEF TasksMatchRecords, TaskOf, RunningTask, CanceledTask
  <2>2. \A b \in Assessments \ {a} : TaskOf(b)'
    BY <1>1, <1>4 DEF TasksMatchRecords, TaskOf, RunningTask, CanceledTask
  <2> QED
    BY <1>2, <2>1, <2>2 DEF TasksMatchRecords
<1>5. CASE EvaluateAndPublishEvidence(a)
  BY <1>0, <1>4, <1>5 DEF EvaluateAndPublishEvidence, Runners, Live
<1>6. CASE PublishSealedArtifacts(a)
  BY <1>0, <1>4, <1>6 DEF PublishSealedArtifacts, Runners, Live
<1>7. CASE OpenRiskDecisionWindow(a)
  <2>1. PICK found :
          IF Blockable(a, runner[a].revision) /\ record[a].window = "null"
          THEN Commit(a, [record[a] EXCEPT !.state = "BLOCKED",
                                           !.failureCode = "RISK_DECISION_WINDOW",
                                           !.window = "OPEN",
                                           !.windowFindings = found,
                                           !.windowEvidence = runner[a].revision],
                      "risk_decision_window_opened")
          ELSE Block(a, runner[a].revision, "ASSESSMENT_EXECUTION_FAILED")
    BY <1>7 DEF OpenRiskDecisionWindow
  <2>2. runner'[a].pc = "settled"
    BY <1>0, <1>7 DEF OpenRiskDecisionWindow, Runners
  <2>3. CASE Blockable(a, runner[a].revision) /\ record[a].window = "null"
    <3>1. record'[a].state = "BLOCKED" /\ \A b \in Assessments \ {a} : record'[b] = record[b]
      <4>1. record' = [record EXCEPT
               ![a] = [[record[a] EXCEPT !.state = "BLOCKED",
                                         !.failureCode = "RISK_DECISION_WINDOW",
                                         !.window = "OPEN",
                                         !.windowFindings = found,
                                         !.windowEvidence = runner[a].revision]
                         EXCEPT !.revision = record[a].revision + 1]]
        BY <2>1, <2>3 DEF Commit
      <4> QED
        BY <1>0, <4>1 DEF Records
    <3> QED
      BY <1>3, <2>2, <3>1
  <2>4. CASE ~(Blockable(a, runner[a].revision) /\ record[a].window = "null")
    BY <1>3, <2>1, <2>2, <2>4, BlockState
  <2> QED
    BY <2>3, <2>4
<1>8. CASE SealAssessment(a)
  <2>1. runner'[a].pc = "settled"
    BY <1>0, <1>8 DEF SealAssessment, Runners
  <2>2. CASE ~runner[a].aborted /\ Sealable(a, runner[a].revision)
    BY <1>3, <1>8, <2>1, <2>2, SealState DEF SealAssessment
  <2>3. CASE ~(~runner[a].aborted /\ Sealable(a, runner[a].revision))
    BY <1>3, <1>8, <2>1, <2>3, BlockState DEF SealAssessment
  <2> QED
    BY <2>2, <2>3
<1>9. CASE FailAssessment(a)
  <2>1. runner'[a].pc = "settled"
    BY <1>0, <1>9 DEF FailAssessment, Runners
  <2> QED
    BY <1>3, <1>9, <2>1, BlockState DEF FailAssessment
<1> QED
  BY <1>5, <1>6, <1>7, <1>8, <1>9 DEF RunnerStep

LEMMA ServiceKeepsTasks ==
    ASSUME TypeOK, TasksMatchRecords, NEW a \in Assessments, ServiceStep(a)
    PROVE  TasksMatchRecords'
<1> USE DEF store, disk
<1>a. /\ record \in [Assessments -> Records] /\ record[a] \in Records
      /\ runner \in [Assessments -> Runners] /\ runner[a] \in Runners
  BY DEF TypeOK
<1>b. record[a].revision + 1 \in Nat
  BY <1>a DEF Records
<1>c. NoRunner \in Runners
  BY NoRunnerTyped
<1>0. /\ record \in [Assessments -> Records] /\ record[a] \in Records
      /\ runner \in [Assessments -> Runners] /\ runner[a] \in Runners
      /\ NoRunner \in Runners
      /\ record[a].revision + 1 \in Nat
  BY <1>a, <1>b, <1>c
<1>1. \A b \in Assessments, r \in Nat, c \in Assessments : CompletionOf(b, r) # LaunchOf(c)
  BY DEF CompletionOf, LaunchOf
<1>2. CASE CreateAssessment(a)
  <2>1. record' = [record EXCEPT
           ![a] = [[record[a] EXCEPT !.state = "CREATED"]
                     EXCEPT !.revision = record[a].revision + 1]]
    BY <1>2 DEF CreateAssessment, Commit
  <2>2. /\ record'[a].state = "CREATED"
        /\ \A b \in Assessments \ {a} : record'[b] = record[b]
    BY <1>0, <2>1 DEF Records
  <2>3. /\ process \in {"ACTIVE", "QUIESCING"} /\ turn' = {LaunchOf(a)}
        /\ UNCHANGED <<process, runner>>
    BY <1>2 DEF CreateAssessment, Continues
  <2>4. StretchIsConsistent'
    BY <1>1, <2>3 DEF StretchIsConsistent
  <2>5. ASSUME NEW b \in Assessments
        PROVE  TaskOf(b)'
    BY <2>2, <2>3 DEF TasksMatchRecords, TaskOf, RunningTask, CanceledTask
  <2> QED
    BY <2>4, <2>5 DEF TasksMatchRecords
<1>3. CASE Launch(a)
  <2>1. /\ LaunchOf(a) \in turn /\ turn' \subseteq turn /\ process' = process
        /\ process \notin {"STOPPED", "RECOVERING"}
    BY <1>3 DEF Launch, TasksMatchRecords, StretchIsConsistent
  <2>2. \A r \in Nat : CompletionOf(a, r) \notin turn
    BY <2>1 DEF TasksMatchRecords, StretchIsConsistent
  <2>3. \A b \in Assessments \ {a} : record'[b] = record[b] /\ runner'[b] = runner[b]
    BY <1>0, <1>3 DEF Launch, Commit
  <2>4. StretchIsConsistent'
    BY <2>1, <2>2, <2>3 DEF TasksMatchRecords, StretchIsConsistent
  <2>5. TaskOf(a)'
    <3>1. CASE runner[a].pc # "none"
      BY <1>3, <2>1, <3>1 DEF Launch, TasksMatchRecords, TaskOf, RunningTask, CanceledTask
    <3>2. CASE /\ runner[a].pc = "none"
               /\ record[a].state = "CREATED" /\ record[a].pendingCancellation = 0
      <4>1. record' = [record EXCEPT
               ![a] = [[record[a] EXCEPT !.state = "RUNNING"]
                         EXCEPT !.revision = record[a].revision + 1]]
        BY <1>3, <3>2 DEF Launch, Commit
      <4>2. runner' = [runner EXCEPT
               ![a] = [NoRunner EXCEPT !.pc = "analyzing",
                                       !.revision = record[a].revision + 1]]
        BY <1>3, <3>2 DEF Launch
      <4>3. record'[a].state = "RUNNING" /\ record'[a].revision = record[a].revision + 1
        BY <1>0, <4>1 DEF Records
      <4>4. runner'[a].pc = "analyzing" /\ runner'[a].revision = record[a].revision + 1
        BY <1>0, <4>2 DEF Runners
      <4> QED
        BY <4>3, <4>4 DEF TaskOf, RunningTask, CanceledTask, Live
    <3>3. CASE /\ runner[a].pc = "none"
               /\ ~(record[a].state = "CREATED" /\ record[a].pendingCancellation = 0)
      <4>1. /\ UNCHANGED record
            /\ runner' = [runner EXCEPT ![a] = [NoRunner EXCEPT !.pc = "settled"]]
        BY <1>3, <3>3 DEF Launch
      <4>2. runner'[a].pc = "settled"
        BY <1>0, <4>1 DEF Runners
      <4> QED
        BY <2>1, <3>3, <4>1, <4>2
           DEF TasksMatchRecords, TaskOf, RunningTask, CanceledTask, Live
    <3> QED
      BY <3>1, <3>2, <3>3
  <2>6. ASSUME NEW b \in Assessments \ {a}
        PROVE  TaskOf(b)'
    BY <2>1, <2>3 DEF TasksMatchRecords, TaskOf, RunningTask, CanceledTask
  <2> QED
    BY <2>4, <2>5, <2>6 DEF TasksMatchRecords
<1>4. CASE ReapTask(a)
  <2>1. /\ runner[a].pc = "settled" /\ runner'[a].pc = "none"
        /\ \A b \in Assessments \ {a} : runner'[b] = runner[b]
        /\ UNCHANGED <<record, process, turn>>
    BY <1>0, <1>4 DEF ReapTask, NoRunner
  <2>2. StretchIsConsistent'
    BY <2>1 DEF TasksMatchRecords, StretchIsConsistent
  <2>3. ASSUME NEW b \in Assessments
        PROVE  TaskOf(b)'
    BY <2>1 DEF TasksMatchRecords, TaskOf, RunningTask, CanceledTask, Live
  <2> QED
    BY <2>2, <2>3 DEF TasksMatchRecords
\* Completing a cancellation is safe where no task is live.
<1>5. ASSUME NEW r, CompleteCancellation(a, r), runner[a].pc \notin Live,
             UNCHANGED <<process, runner>>
      PROVE  \A b \in Assessments : TaskOf(b)'
  BY <1>5, CompletionState DEF TasksMatchRecords, TaskOf, RunningTask, CanceledTask
<1>6. CASE CompleteCancellationNow(a)
  <2>1. PICK t \in turn : /\ t = CompletionOf(a, t.revision)
                          /\ turn' = turn \ {t}
                          /\ CompleteCancellation(a, t.revision)
    BY <1>6 DEF CompleteCancellationNow
  <2>2. t.revision \in Nat
    BY DEF TypeOK, TurnSteps
  <2>3. runner[a].pc \notin Live
    BY <2>1, <2>2 DEF TasksMatchRecords, StretchIsConsistent, Live
  <2>4. UNCHANGED <<process, runner>>
    BY <1>6 DEF CompleteCancellationNow
  <2>5. StretchIsConsistent'
    BY <2>1, <2>4, StretchKept DEF TasksMatchRecords
  <2> QED
    BY <1>5, <2>1, <2>3, <2>4, <2>5 DEF TasksMatchRecords
<1>7. CASE CompleteCancellationAfterTask(a)
  <2>1. /\ runner[a].pc \notin Live
        /\ UNCHANGED <<process, runner, turn>>
    BY <1>7 DEF CompleteCancellationAfterTask
  <2>2. PICK call \in cancelling : CompleteCancellation(a, call.revision)
    BY <1>7 DEF CompleteCancellationAfterTask
  <2>3. StretchIsConsistent'
    BY <2>1, StretchKept DEF TasksMatchRecords
  <2> QED
    BY <1>5, <2>1, <2>2, <2>3 DEF TasksMatchRecords
<1> QED
  BY <1>2, <1>3, <1>4, <1>6, <1>7 DEF ServiceStep

LEMMA FinalizerKeepsTasks ==
    ASSUME TypeOK, TasksMatchRecords, NEW c \in Calls, FinalizerStep(c)
    PROVE  TasksMatchRecords'
<1> USE DEF store, disk
<1>1. UNCHANGED <<process, turn, runner>>
  BY DEF FinalizerStep, PublishFinalizedOutcome, SealFinalizedOutcome, FailFinalization
<1>2. StretchIsConsistent'
  BY <1>1, StretchKept DEF TasksMatchRecords
<1>3. CASE UNCHANGED record
  BY <1>1, <1>2, <1>3 DEF TasksMatchRecords, TaskOf, RunningTask, CanceledTask
<1>4. CASE SealFinalizedOutcome(c) /\ record' # record
  <2> DEFINE a == finalizer[c].target
  <2>1. a \in Assessments
    BY <1>4 DEF SealFinalizedOutcome, TypeOK, Finalizers, IdleFinalizer
  <2>2. Seal(a, finalizer[c].seal)
    BY <1>4 DEF SealFinalizedOutcome
  <2>3. /\ \A b \in Assessments \ {a} : record'[b] = record[b]
        /\ record'[a].state = "SEALED"
    BY <2>1, <2>2, SealState
  <2>4. ASSUME NEW b \in Assessments
        PROVE  TaskOf(b)'
    BY <1>1, <2>3 DEF TasksMatchRecords, TaskOf, RunningTask, CanceledTask
  <2> QED
    BY <1>2, <2>4 DEF TasksMatchRecords
<1> QED
  BY <1>3, <1>4 DEF FinalizerStep, PublishFinalizedOutcome, FailFinalization

LEMMA ProcessKeepsTasks ==
    ASSUME TypeOK, TasksMatchRecords, Recovery \/ Quiesce \/ CloseStore \/ Crash
    PROVE  TasksMatchRecords'
<1> USE DEF store, disk, volatile
<1>0. /\ record \in [Assessments -> Records]
      /\ runner \in [Assessments -> Runners]
      /\ NoRunner.pc = "none"
  BY DEF TypeOK, NoRunner
<1>1. \A b \in Assessments, r \in Nat, c \in Assessments : CompletionOf(b, r) # LaunchOf(c)
  BY DEF CompletionOf, LaunchOf
<1>2. CASE CloseStore \/ Crash
  <2>1. /\ process' = "STOPPED" /\ turn' = {}
        /\ \A b \in Assessments : runner'[b].pc = "none"
        /\ record' = record
    BY <1>0, <1>2 DEF CloseStore, Crash, Forget
  <2>2. StretchIsConsistent'
    BY <2>1 DEF StretchIsConsistent
  <2>3. ASSUME NEW b \in Assessments
        PROVE  TaskOf(b)'
    BY <2>1 DEF TaskOf, RunningTask, CanceledTask, Live
  <2> QED
    BY <2>2, <2>3 DEF TasksMatchRecords
<1>3. CASE Quiesce
  <2>1. /\ process = "ACTIVE" /\ process' = "QUIESCING" /\ turn = {}
        /\ UNCHANGED <<record, turn>>
    BY <1>3 DEF Quiesce, Admits
  <2>2. \A b \in Assessments : /\ runner'[b].pc = runner[b].pc
                               /\ runner[b].pc # "none" =>
                                    runner'[b].revision = runner[b].revision
    BY <1>0, <1>3 DEF Quiesce, Runners
  <2>3. StretchIsConsistent'
    BY <2>1 DEF StretchIsConsistent
  <2>4. ASSUME NEW b \in Assessments
        PROVE  TaskOf(b)'
    BY <2>1, <2>2 DEF TasksMatchRecords, TaskOf, RunningTask, CanceledTask, Live
  <2> QED
    BY <2>3, <2>4 DEF TasksMatchRecords
<1>4. CASE Boot
  BY <1>4 DEF Boot, TasksMatchRecords, StretchIsConsistent, TaskOf, RunningTask,
     CanceledTask, TypeOK
<1>5. CASE FinishRecovery
  <2>1. /\ UNCHANGED <<record, runner>>
        /\ \A t \in turn' : \E b \in Assessments : t = LaunchOf(b)
        /\ process' = "ACTIVE"
        /\ \A b \in Assessments : record[b].state # "RUNNING"
    BY <1>5 DEF FinishRecovery, Interrupted
  <2>2. StretchIsConsistent'
    BY <1>1, <2>1 DEF StretchIsConsistent
  <2>3. ASSUME NEW b \in Assessments
        PROVE  TaskOf(b)'
    BY <2>1 DEF TasksMatchRecords, TaskOf, RunningTask, CanceledTask
  <2> QED
    BY <2>2, <2>3 DEF TasksMatchRecords
<1>6. ASSUME NEW a \in Assessments, RecoverCancellation(a) \/ RecoverInterrupted(a)
      PROVE  TasksMatchRecords'
  <2>1. /\ process = "RECOVERING" /\ UNCHANGED <<process, turn, runner>>
        /\ \A b \in Assessments : runner[b].pc = "none"
    BY <1>6 DEF RecoverCancellation, RecoverInterrupted, TasksMatchRecords,
       StretchIsConsistent
  <2>2. StretchIsConsistent'
    BY <2>1, StretchKept DEF TasksMatchRecords
  <2>3. ASSUME NEW b \in Assessments
        PROVE  TaskOf(b)'
    BY <2>1 DEF TaskOf, RunningTask, CanceledTask, Live
  <2> QED
    BY <2>2, <2>3 DEF TasksMatchRecords
<1> QED
  BY <1>2, <1>3, <1>4, <1>5, <1>6 DEF Recovery

LEMMA TasksInvariant == Spec => []TasksMatchRecords
<1>1. Init => TasksMatchRecords
  BY DEF Init, TasksMatchRecords, StretchIsConsistent, TaskOf, RunningTask, CanceledTask,
     AbsentRecord, NoRunner
<1>2. TypeOK /\ TasksMatchRecords /\ [Next]_vars => TasksMatchRecords'
  <2> SUFFICES ASSUME TypeOK, TasksMatchRecords, [Next]_vars
               PROVE  TasksMatchRecords'
    OBVIOUS
  <2>1. CASE Next
    BY <2>1, ClientKeepsTasks, RunnerKeepsTasks, ServiceKeepsTasks, FinalizerKeepsTasks,
       ProcessKeepsTasks DEF Next
  <2>2. CASE UNCHANGED vars
    BY <2>2 DEF vars, TasksMatchRecords, StretchIsConsistent, TaskOf, RunningTask,
       CanceledTask
  <2> QED
    BY <2>1, <2>2
<1> QED
  BY <1>1, <1>2, TypeCorrect, PTL DEF Spec

\* While the store is open a RUNNING record to which no cancellation was accepted
\* has a task that holds its exact revision (runAssessment, launchAssessment).
THEOREM RunningIsEvaluated == Spec => []RunningHasItsTask
<1>1. TasksMatchRecords => RunningHasItsTask
  BY DEF TasksMatchRecords, TaskOf, RunningTask, RunningHasItsTask
<1> QED
  BY <1>1, TasksInvariant, PTL

\* completeAssessmentCancellation commits only after the evaluation task stopped.
THEOREM CanceledIsIdle == Spec => []CanceledHasNoTask
<1>1. TasksMatchRecords => CanceledHasNoTask
  BY DEF TasksMatchRecords, TaskOf, CanceledTask, CanceledHasNoTask
<1> QED
  BY <1>1, TasksInvariant, PTL

=============================================================================
