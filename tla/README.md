# Verification of dsh-security-assurance

TLA+ models of the Security Assurance service, the TLC runs that check them and
the theorems proved about them with TLAPS. The source is under `src/`; paths
below are relative to it (`src/index.ts` is the service class, `src/internal`
its modules). Every definition of a model is listed in `PROJECT.json` ("map")
with the lines it stands for.

Contents: the system and its parts, what makes it hard, the modules, the runs
and their bounds, the fairness assumed, what is proved and how, the
disagreements found, what is not modelled, and the plan.

## The system

The package is a plugin of the DeepSeek Harness. It assesses a repository for
security, keeps the result as sealed evidence and lets people decide about the
risks found. One Node.js process owns one security root on disk: an SQLite
store and directories of published artifacts. All commands of the service are
asynchronous functions on one thread, and all store operations are synchronous
SQLite transactions.

| component | state it keeps | operations | talks to |
|---|---|---|---|
| Assessment lifecycle (`index.ts`) | `runningAssessments`, `lifecycleState`, the calls inside an `await` | startAssessment, resumeAssessment, cancelAssessment, recordRiskDecision, runAssessment, finalizeResolvedRiskDecision, teardown, initialize | store, freeze, kernel, analyzers, publication |
| Assessment store (`internal/persistence.ts`) | records with a revision each, the events of every revision, idempotency receipts | create, begin, resume, requestCancellation, completeCancellation, openRiskDecisionWindow, recordRiskDecision, seal, block, recover | SQLite |
| Evidence and Sealed Artifacts (`evidence-persistence.ts`, `sealed-artifacts.ts`) | directories, published by rename | publishEvidenceSet, readPublishedEvidenceSet, publishSealedArtifacts, verify | file system |
| Export delivery (`export-delivery.ts`, worker in `index.ts`) | a record and an artifact file per Export, a task chain per Export | begin, deliver, get, reconcileExpiry, the worker's rounds | sealed artifacts, file system, clock |
| Risk decision policy (`risk-decision.ts`) | none (windows live in the record) | admission of a decision | store |
| Repository registry (`persistence.ts`, `host-repository-provider.ts`) | repositories by revision | register, update, disable | store, host |
| Role attempts (`role-*.ts`, `persistence.ts`) | attempts, contributions, candidates, validations | start, repair, admit, validate, complete, fail | store, model invocations |
| Model invocations (`model-invocation-*.ts`) | reservations, settled records, Evidence links | reserve, settle, publish, link | store, Evidence |
| Source slices (`source-slice-*.ts`) | one-use capabilities, receipts | request, protect, review, authorize, invoke | subject, broker |
| Subject freeze (`subject-freeze.ts`) | staged and frozen subjects | freeze, reap, read a slice | git, file system |
| Kernel (`deterministic-kernel.ts`) | none | contract, evaluation, seal readiness | - |
| Analyzer registry (`analyzer-registry.ts`) | registered analyzers | register, dispose, analyze | analyzers |
| Control plane (`control-plane-*.ts`, `index.ts`) | the operations inside an `await` | ASSESS, RECOVER and CANCEL of one invocation, with keys derived from it | lifecycle, repositories |
| Workbench (`web-client/workbench`) | one view, one authority session | open, wait for a revision, findings, Evidence, command, export | lifecycle, queries and exports, through the host |
| Release evidence (`release-*.ts`) | the files each command writes | bind, collect, assemble, qualify, hand off | git, artifacts, the constitution |
| Release constitution and metrics (`evaluation.ts`) | none | evaluate a portfolio, publish its scorecard | - |
| Queries, tools | none | pure functions | - |

`PROJECT.json` ("components") lists all of them with what is modelled.

What makes each part correct:

- **Lifecycle and store.** An accepted cancellation admits nothing but its own
  completion; a sealed or canceled assessment never changes; an evaluation runs
  only as often as a start or a resume authorized; a sealed record has its
  artifacts; a running record has a task, or recovery finds it; a receipt names
  a commit that happened.
- **Exports.** A receipt is backed by a durable record; DELIVERED means the
  whole artifact is there, PURGED that it is not; statuses only move forward;
  every accepted Export ends and every expired artifact goes, without clients.
- **Registry, roles, invocations.** A write names the revision it was decided
  on, a repeated key changes nothing, an attempt ends once, no output is
  admitted for an attempt that ended, no budget is spent twice.
- **Source slices.** A capability is used once, by its attempt, before its
  deadline, and whatever happened leaves one receipt; a settled invocation fits
  what was reserved for it.
- **Control plane.** What the engine was told stays true, whatever is retried; every
  operation ends.
- **Freeze, kernel.** What is analyzed is what was at the named revision; a
  verdict never claims coverage that was not established.
- **Workbench.** What is on the screen was asked for last and belongs to the
  session; it never goes back to an older revision.
- **Release.** A receipt names the build that every proof was made of, and no
  rerun erases a failure.

## What is hard here

The list is "hazards" in `PROJECT.json`, each at its line. The main ones: the
gaps between two awaits of one command (start during a teardown, cancel during
a seal, two finalizations of one window); the process dying between a commit
and what should follow it; artifacts written before or after the commit that
names them; answers lost and commands repeated under one key; torn files at a
final path; a retry policy at its limit; a worker that must not sleep through
its work.

## Modules

### Assessments

`AssessmentLifecycle` is the promise: per assessment a phase, whether an
execution is authorized, whether one is under way and whether a cancellation has
been accepted. No revision, receipt, file, task or restart appears in it.

`AssessmentService` is the code. Its variables are the store (`record`,
`journal` = the event kinds of `assessment_revisions`, `receipts`), the disk
(`evidence`, `bundles`) and the process (`runner` = `runningAssessments`,
`cancelling` and `finalizer` = calls inside an await, `admitted` = calls past
their admission check, `process`, `turn`). One store transaction is one step.
Between two awaits no other code of the process runs, yet the process can die
between two commits of one stretch: `turn` holds what the current stretch still
has to do, everything but `Crash` waits for it. The Assessment commands map to
`AdmitStart`/`CreateAssessment`/`ReplayStart`, `ResumeAssessment`/`ReplayResume`,
`RequestCancellation`/`Quell`/`CompleteCancellation...`, `AdmitDecision`/
`RecordRiskDecision`/`ReplayRiskDecision`; the task to
`EvaluateAndPublishEvidence`, `OpenRiskDecisionWindow`, `PublishSealedArtifacts`,
`SealAssessment`, `FailAssessment`, `ReapTask`; the finalization to
`PublishFinalizedOutcome`, `SealFinalizedOutcome`, `FailFinalization`; and the
process to `Quiesce`, `CloseStore`, `Crash`, `Boot`, `Recover...`,
`FinishRecovery`. Digests, subjects, findings' contents, reasons and times are
abstracted; the kernel's outcome and a decision's content are choices.

`Lifecycle == INSTANCE AssessmentLifecycle` reads the four abstract variables off
the store and the disk (`phase`, `granted`, `working`, `closing`).

`ControlPlane` composes the Service with its one caller inside the package, the
provider. It extends `AssessmentService`; `calls` are the operations under way (their
place `pc`, the Assessment, the revision read last) with the answers already given, and
`owner` says whether an Assessment is the engine's or operators'. An operation starts
or replays a start (`StartOperation`), reads until there is an outcome
(`ReadForOutcome`), resumes a blocked Assessment if it is RECOVER (`ResumeOperation`),
or looks up, reads, cancels and reads again if it is CANCEL (`LookUp` to
`VerifyCanceled`). Between these steps everything of the Service happens. Every
operation of an invocation uses the same key, so that `SameRequest` tells a replayed
receipt from IDEMPOTENCY_CONFLICT. The wait of five seconds for a revision is the next
read; the four rounds of a cancellation are not counted (`RepeatCancel` may give up in
each). The engine may begin any operation at any time, also twice.

### Exports

`OfficialExport` is the promise: per identity the request it was granted to, the outcome
a client is told, whether the whole artifact is at its destination and whether its lifetime
is over, with the receipts in clients' hands. Calls, tasks, torn files, attempts, failures
and the process do not appear in it.

`ExportDelivery` models an Export as a record file, an artifact file and the
chain of tasks that `exclusive` builds. Files can be torn: an exclusive write is
two steps with a crash or an error between them, a replacement is a rename and so
one step. `VerifyRequest` ... `CommitRecord` is requestExport up to the durable
PENDING record, `PrepareAttempt` ... `FailAttempt` an attempt, `ExpireArtifact`,
`RemoveArtifact`, `RecordPurged` the two-phase expiry, `ScanExports`, `WorkItem`,
`EndRound`, `WakeWorker` the worker, `ReadStatus` a reader that reconciles. A
record's retry time and an artifact's lifetime are compared with the clock: here
each either has passed or not. `Promise == INSTANCE OfficialExport` reads the promise's
variables off the files: a file that cannot be parsed shows no Export, a torn artifact is
not available, and the outcome of a record whose purge is recorded is PURGED.

### Role Attempts

`RoleAttempts` models the role operations of the store on one Assessment. Its
variables are tables: `attempt` is `role_attempts` with the Format Repair plan,
`card` the Role Cards in the Assessment record, `link`
`model_invocation_evidence_links`, `repair` `role_output_format_repair_records`,
`contribution` `role_contributions`, `admission` the candidate batches and their
rejection diagnostics. Each operation is one transaction that names the Assessment
revision it was decided on; comparing it makes the operation an atomic step whose
guard reads the current state, and every commit makes all other pending requests
stale. An exact repetition of a committed request changes nothing, a differing one
is refused: both are stutters. No code of the repository calls these operations
outside its tests, so any request may come at any time. The commands of
`AssessmentService` are repeated as far as attempts depend on them; `begun` is
the revision the evaluation task holds, which a role operation makes stale
(`Evaluating`). A restart blocks the Assessment and leaves its attempts RUNNING.
`Oversized` are the contributions with more candidates (129 to 256) than a batch
admits. `Lifecycle == INSTANCE AssessmentLifecycle` reads the abstract Assessment off the
state and the pending cancellation: the promise that `AssessmentService` implements
without role operations holds with them (`KeepsLifecycle`).

`RoleValidation` takes up where a batch is admitted. `ResolveContract` freezes a
validation contract for an attempt at a candidate, chosen among the qualified ones
(`resolutions`); `RecordOutcome` derives an outcome from proofs observed since
(`Qualifying`, `Supported`, `Derived`), checks its consistency as it does at every
later read, and commits it. Who vouches for a proof's eligibility and independence
is part of the proof. Elapsing time makes a qualification begin or lapse.

### Decisions, evaluation and release

`RiskDecisionWindow` details the window `AssessmentService` takes as one choice:
`record` is the window of an Assessment with the decision of each Finding, its
attestations and its expiry, `receipts` the accepted requests, `finalizing` what a
finalization has computed and not sealed yet. `Offered` is
`projectAvailableAction`, `Admits` is `admit` and what the store adds: two
pieces of code that answer one question.

`DeterministicKernel` follows one Assessment from the registry to its seal:
Host Analyzers and Qualifications come and go (`registry`), the Assessment
plans the Analyzers of its policy with their eligibility then (`contract`), each executes on the Subject's counts (slices,
entries a report contributes, legibility) and what it contributes is admitted,
covered, validated, turned into a verdict and sealed or opened to decisions. Each
of the policies of `src/internal/*-analyzer.ts` is a row of the tables of
what applies and where it stops. `Composing` bounds what else goes on: the
registry stands still once an Assessment is sealed or in its window.

`ReleaseEvidence` has the functions (the release constitution from the
ledger to the recommendation, the scorecard, the verification of indexed proofs);
`ReleasePipeline` the commands that use them, `BindSource` to `HandoffLink`: each reads
its files one at a time and links one new file, while `Edit`, `Commit`, `Pack`,
`StartRun` and the other acts of the team change what was read. Whether the source is
clean at a revision is two commands of git (`FindRevision`, then `FindClean`), between
which the team may act, so that neither answer need be true when the other is given. A
digest is what it digests, so that a stale file differs from a fresh one.

`MCDecisions` composes these and `RoleValidation` in one run. They share no state;
a behaviour takes one `part`.

### Subjects and source slices

`SubjectFreeze`: `history` is every state the worktree has had, `freeze` the local
variables of each call (`at` is its place), `staged` and `published` the
directories, `reaping` what a starting Service has listed. Each look at git (status, diff
and untracked names are one) and each read of a file is a step between two edits. `SourceSliceEgress`: the steps that
wait are the verified read of a slice and the one call of a capability; everything
else is a function of documents and admits them for what they bind. `IssueCapability`
takes its material from `materials` and its review from `reviews`, where only the
functions of the package put them, and its identity is used once: the code compares the
digests they carry and leaves both to its caller (see "Not modelled"). `disk` may
change after the verification, `capability` is the object and its place in
`invoke`, `calls` what the Broker received, `reservation` and `records` the budget.

### Workbench

`WorkbenchController` has one action per operation of the controller, which
publishes a view and waits, and one per answer, which is published if the test that
operation makes (`StillWanted`) lets it. `requests` are the operations that wait,
each with the view it started from (`current` in the code), `head` the Service.
Answers arrive in any order or fail. `WorkbenchOverlay` says which operations the
screen offers in each view: without its restrictions the controller alone would let
a list that is answered late replace a newer view.

Operators named `Bug...` are mutated forms of the definition below them; the
mutants in `PROJECT.json` show that each property notices one.

## Runs

| run | question | bounds |
|---|---|---|
| `assessment_safety` | do store, files and tasks stay consistent, and is the lifecycle implemented | one assessment with a risk window, 2 findings, 2 keys, 3 seals, 2 finalizations, resumes below revision 5, 1 crash |
| `control_plane` | does what the engine was told stay true, do its operations, accepted cancellations, executions and teardowns end | 1 Assessment with a window, 2 operations at once, 1 finding, 1 key, operators resume below revision 4, 1 crash and one operation at a time after it |
| `cancel_quiescence` | (violation) is nothing publishing when CANCELED commits | 1 finding, 1 key, revision 4, 1 crash |
| `teardown_records` | (violation) does a teardown leave no RUNNING record behind | no crash |
| `export_safety` | do records, artifacts and receipts agree, and is the promise kept | one identity, 2 digests, 2 calls, 3 attempts, 3 failures, 2 crashes, 1 waiting reader |
| `export_liveness` | do Exports end and expired artifacts go | 1 call, 2 attempts, 2 failures, 1 crash |
| `export_conflict` | (violation) is a torn artifact retried like any transient failure | 1 failure or 1 crash |
| `decisions_safety` | is what is offered what is admitted, is SATISFIED accepted and earned, does proof never flip, is a receipt proven | see below; up to 4 principals, 2 Findings, 2 attempts, 5 proofs, 2 builds, 2 artifacts, 3 runs |
| `slices_safety` | is a published Subject one instant of the worktree, does only cleared text leave, is every settled invocation accounted | 2 freezes, 2 paths, 2 edits; 3 requests, 1 capability, 3 instants |
| `clients_safety` | is disclosed Evidence wanted, do revisions advance on the screen | 3 Assessments, 5 to 8 operations, 3 requests in flight, 2 sessions |
| `clients_erasure` | (violation) does a closed Workbench show nothing | as above |
| `roles_safety` | is role output closed, do ended attempts stay as they ended, is failed work redone only after a resume, does a cancellation end every attempt, does the Assessment keep its lifecycle | 2 attempts, 2 Roles, 3 invocations, 2 admissions, 3 payloads, budget of 2 requests, revision 10 |

Why these bounds are enough: assessments share nothing but the process, and every
invariant is about one of them, so one assessment with all its commands, two
concurrent finalizations and a crash at every point shows the interactions; two
keys tell a replay from a new command; revision 5 is reached by start, begin,
window, two decisions, and by block, resume and begin again. Exports share only
the worker's round. Two calls race for one identity, a third would find what the
second found; three attempts separate the first, a middle and the last one.
Crash and failure bounds only limit how often, never where.

Control plane. Two operations are a lost one and its repetition, an ASSESS and the CANCEL
of its invocation, or a RECOVER beside either; each is one of three loops, and a third
would meet what the second met. After the crash there is one operation at a time: what two
find in a store that was left halfway they also find after a teardown, which may happen
any number of times. The run's `MCSpec` is `ProviderFairSpec` with that bound, `OneAfterCrash`. Every resume is below revision 4, the first of the
invocation's key included. Operators, who work on an Assessment of their own, make the run also the one
that shows the liveness of the Service alone.

Role Attempts meet in the revision, in the Cards and in the identities of
invocations and admissions. Two attempts compete for all of these, and one retries
the other; a repair takes two invocations and a third is the one linked too many;
a second admission follows a rejected one. Revision 10 is enough to begin, start,
fail, resume, begin, retry, link, admit a contribution and complete, or to take one attempt through a
whole repair and its candidates; nothing but an ending is committed at the bound,
so that it hides no cancellation.

Decisions. The window has a critical and a high Finding, three persons behind four
principals (one person has two), one key and two finalizations that race, in times 0
to 2: an expiry lies before, between and after two attestations and the seal.
Validation has two attempts at two candidates, a contract of one lineage with a
negative control and one of two lineages that begins as the other ends, and five
proofs: two that agree, one against, one that is not independent, one control; four
validations suffice for every set one contract can see. The kernel has one Host
Analyzer in two builds with one of two Qualifications at a time, and Subjects at the
sizes where something stops: 0 and 1; 29, 30 and 41 candidates; 128 and 257 slices.
The release has four parts. One artifact of every single defect goes through all
commands; the tree and the files change at any moment; an artifact is replaced
between runs; a failed run is replaced, or only rerun. Each part bounds the acts of
the team (3 to 5).

Slices. Two edits can change two files or one file twice, which is what a second look
is for; two freezes of one unchanged tree race for one published directory. Three
requests separate the granted one from one whose redaction outgrows its budget and one
of another attempt; reviews of a material come before its capability is issued, since
nothing reads them later.

Workbench. An operator works on one part of the screen per behaviour (selection, a
live Assessment, a sealed one, exports); crossing from one part into another is done
by late clicks. Three requests in flight are an answer, the one that superseded it
and the monitor; two sessions are the closed one and its successor.

Deadlock is checked for assessments: the service can always take a request or
start again. `ExportDelivery` stops when its clock has run and its calls are used
up, so deadlock is not checked there; nor in the runs of decisions, slices and the
Workbench, whose behaviours end at a seal, a receipt or a bound.

## Fairness

The event loop serves every settled promise, so a task, a reaped task and an
awaiting cancellation that can go on eventually do, even if a synchronous
stretch of another call disables them now and then: strong fairness. Recovery,
a launch and the close of the store are the only thing their stretch still does:
weak fairness. Clients are never fair, nor is the engine that begins and aborts
provider operations; a provider operation under way goes on whenever it can (strong
fairness of its next step), since its awaits are settled or bounded by five seconds.
Analyzers end because the registry gives each a deadline. A crash need not happen, a dead host is started again. For
Exports, file operations and timers end, and the clock advances for a retry; that
an Export is requested, read or that its lifetime passes is not assumed.

## What is proved

TLAPS proves what follows for every value of the constants: any number of
Assessments, calls, keys, Exports, attempts, files, edits, proofs, processes, and any
bound. Every invariant and every action property of the passing runs has a theorem; the
runs' liveness is left to TLC (see the end of this section).

| module of proofs | about | theorems |
|---|---|---|
| `AssessmentServiceProofs` | `AssessmentService` | `TypeCorrect`, `CancellationCloses`, `TerminalStays`, `AttemptsAreAuthorized`, `ReceiptsStayCommits`, `ServiceImplementsLifecycle` (every behaviour is one of `AssessmentLifecycle`) |
| the same | its tasks and files | `SealsArePublished`, `WindowsHaveEvidence`, `RunningIsEvaluated`, `CanceledIsIdle` |
| `ControlPlaneProofs` | `ControlPlane` | `ProviderTypeCorrect`, `ProviderImplementsService` (every behaviour is one of `AssessmentService`), `AnswersStayTrue` |
| `ExportDeliveryProofs` | `ExportDelivery` | `TypeCorrect`, `ArtifactIsFollowed`, `ReceiptsStayDurable`, `StatusIsForward`, `DeliveryImplementsPromise` (every behaviour is one of `OfficialExport`) |
| `RoleAttemptsProofs` | `RoleAttempts` | `TypeCorrect`, `OutputStaysClosed`, `EndedAttemptsStay`, `CancellationEndsRoles`, `FailuresBlock`, `RetriesAreResumed`, `CompletionIsBacked`, `RolesKeepTheLifecycle` (every step is one of `AssessmentLifecycle`) |
| `DecisionProofs` | `RoleValidation`, `RiskDecisionWindow`, `DeterministicKernel` | `ValidationNeverFlips`, `ValidationAlwaysDecides`; `SatisfactionIsAccepted`, `LapseIsFinal`, `OffersStayAdmitted`; `VerdictsAreEarned` |
| `SourceSliceProofs` | `SourceSliceEgress`, `SubjectFreeze` | `EgressStaysGoverned`, `InvocationsStayAccounted`; `FreezeIsOneInstant` |
| `ReleaseProofs` | `ReleasePipeline` | `ReceiptsAreProven`, `FailuresStay` |
| `WorkbenchProofs` | `WorkbenchController` under `WorkbenchOverlay` | `TypeCorrect`, `DisclosureStaysWanted`, `RevisionsStayForward` |

Assumptions on the constants, each named in the module that declares them: bounds and
sizes are natural numbers; `Windowed` is a subset of the Assessments and the null seal no
seal; the null identity is no attempt, invocation or content, and a budget allows one
request (`persistence.ts` rejects less); the worker and the readers of an Export are not
callers (`CallsAssumption`: names of the model); the documents of a slice carry natural
numbers and its text has the size it is measured to have (`DocumentsAssumption`,
`SizesAssumption`: their schemas); validation contracts and proofs are well formed as their
parsers require, proofs are told apart by their identity, and there are finitely many
lineages (`ValidationAssumption`); every severity has a positive lifetime, some
acceptance terms fulfil the two controls a critical Finding asks for, and there is an
idempotency key (`RiskAssumption`: without these an offer could not be taken up by
anyone); a Host registers finitely many Analyzers, Qualifications hold for some time and
the package's own names every mode its Analyzer is selected for, and the counts of a
Subject agree with one another (`KernelAssumption`: a slice that is not legible exists, a
lockfile breaks at most three of its rules); the merits of an artifact are of the kinds the constitution measures
(`MeritsAreMeasured`); every Assessment has a last revision, which is not zero, and `None`
is none of them (`ClientsAssumption`). TLC evaluates each of them in the runs.

### Assessments and their store

The record and the journal change together in nine kinds of commit and nowhere else
(`StepCommits`), so that every property of the store is shown kind by kind instead of
action by action. A completion is only ever pending for a record whose cancellation was
accepted (`CompletionsAreRequests`, an invariant needed because the completion
itself does not look at the state again), and a record's cancellation marker is
in its journal (`CancellationRecorded`). `AttemptsAreAuthorized` needs in
addition that a CREATED record has one authorization more than beginnings
(`BeginningIsAhead`). The refinement then maps each kind of commit to one abstract
step and shows that publications, aborts and restarts change nothing abstract.
Receipts are only added, with a commit of their own revision, and the journal only grows.

The argument for the tasks: what a task or a
finalization has in hand is on disk (`FilesInHand`) and published files are never
removed, so a seal names a published bundle. `TasksMatchRecords` ties each live
task to the revision of the RUNNING record it began, with the exceptions a
synchronous stretch makes; from it follow both task invariants.

The control plane: every step of the provider is a step of the Service or
leaves it alone, given that an operation under way names an Assessment
(`ProviderStepIsServiceStep`), hence every theorem of the Service holds below the
provider. `AnswersStayTrue` is then short: an answer was given of a SEALED or CANCELED
record, `TerminalStays` keeps it, and `SealsArePublished` and `CanceledIsIdle` say what
such a record stands for.

### Exports

`Inv` of `ExportDeliveryProofs`: what a record says of its artifact (`RecordSound`), what
a task that has begun knows of its record and file, and that only the first task of a
chain has begun (`ChainSound`), that the caller of a task waits for it and has no other
(`CallersWait`), that a call that waits for a delivery presented the record's digest and
one that creates a record is alone with a file nobody can read (`CallsHold`), and that
the items of a worker's round have records (`ItemsHold`). `ChainSound` is the reason for
the chain: without it an expiry could run into a delivery that has read its record, and
neither `ArtifactFollowsRecord` nor the forward order of statuses would be inductive. The
proof reduces each step to one task enqueued, one head moved, or one head removed.

`DeliveryImplementsPromise` takes `Inv` and one lemma per kind of actor: a call shows
nothing until its record is durable, which is `Accept` because `CallsHold` says that nobody
could read the file; a task that writes the record is `Deliver`, `GiveUp`, `Expire` or
`Purge`, whose guards on the outcome and on the artifact are what `TaskAgrees` knows of a
task that has begun; the end of a task is `Inform`, since its caller presented the digest
granted; the worker and the process show nothing, whenever they stop.

### Role Attempts

`OutputIsClosed` is inductive given the types. The
step that needs thought is a repair, which does not look for an admitted
contribution: both planned invocations are linked by then, so a contribution
would use the repair invocation and already be the repair. `Settled` adds to the
failure properties that nothing starts or ends later than the revision, that a
window and a blocking attempt exclude each other (else a blocked Assessment could
be sealed out of a decision window past its failed attempt), and that attempts are
canceled only with their Assessment (else a retry of a canceled attempt would need
no resume). `AttemptSteps` reduces every step to the start of one attempt or to
ends, so that `RetryFollowsResume` is shown once for all endings: what ends now ends
after every earlier start. `Backed` adds that a contribution has at most one
admitted batch. `RolesKeepTheLifecycle` takes the types alone: a role operation either
advances the revision and shows nothing abstract, or fails its attempt, which is `Hold`
because the commit is refused once a cancellation is accepted (`Open`).

### Validation and risk decisions

Validation: a proof that qualifies keeps qualifying when others are added, so that the
lineages on each side only grow (`QualifyingGrows`, `LineagesCount`) and a side that is
there stays there (`MoreProofKeepsSides`). What an outcome says is read off its two sides
(`DerivedSides`), which the consistency check reads too. The invariant `ValidationInv`
only says that outcomes are derived under the attempt's own frozen contract.

The window: a decision in the record is as `admit` left it (`DecisionSound`), a RESOLVED
window has every Finding decided (`WindowSound`), and a seal agrees with the decisions and
the instant it was computed at (`SealSound`). The race is in `FinalizationsSound`: a
finalization whose revision is still the record's has computed its seal from the
decisions that are there; any other is refused. `TwoPersons` takes the two attestations of
a critical Finding apart. `OffersStayAdmitted` needs no history: under `DecisionsSound`
a witness request exists for whatever is offered, and whatever is admitted was offered.

### The verdict

Findings and Evidence are counted as the cardinality of a set of (analysis, place) pairs,
so that "some candidate was validated" and "one finding" are one fact
(`FindingsCounted`). `AnalysisOf` says what an analysis may be: anything `execute` lets
through of a Host's Analyzer, or the package's own contribution on this Subject. A finding
is then a violation of the Subject (`FindingsAreViolations`), and an analysis that
completes coverage with nothing open and no finding read a legible Subject that states
no violation (`CompletionIsClean`): for a report because each of its entries has its
candidate, for declarations because the contribution is derived again, for the
reference control because an open candidate of an illegible Subject stays open. The
outcome follows by its three branches (`OutcomesAreEarned`). For an Analyzer alone the
counts are exact (`AloneIsCounted`), and 29 candidates leave 119 records of Evidence at most, within
both limits (`AloneIsEarned`). `KernelInv` adds only what a frozen contract holds.

### Slices and the freeze

Egress: `GrantSound` says what was true of a capability when it was issued and stays true
because its documents do not change (its deadline is the least of four windows,
`LeastIsLeast`); `ProgressSound` and `CallsSound` tie the Broker's calls to consumed
capabilities one to one, and a completed receipt to its call and to an answer before
the deadline; `RecordSound` makes a record a function of that receipt.

The freeze: `HistorySound` says that a stamp that is found again has not been replaced
meanwhile. `Captured` is the inductive form of "one instant": there is an instant that no
captured file was captured after and no file checked since was checked before. When the
second look has checked every file, `HistorySound` makes that instant one at which all
files were what was captured (`CheckedIsOneInstant`), whatever edits fell between the
reads. From then on the call carries `AtOneInstant` into the directory it publishes or
finds published.

### Release

`ReleaseInv` says of every file, and of what every process has in hand at each of its
steps, what it is evidence of: a proof record, of a run of its kind that did not fail
(`FromRun`); an evaluation, of what the ledger said at some moment and of its artifact's
merits (`EvaluationSound`); a portfolio that promotes, of everything a receipt stands for
(`Proven`). The ledger only grows and merits do not change, so that evidence stays
evidence (`EvidenceStays`). What does change is the revision and its lock, and no look
at them is of one moment. But the tree only moves on: when `bind` finds it clean after
the digests, a lock that is not the revision's is one of a revision that is over
(`Settled`, `Binding` until then), and `qualify`, which must find the tree at the bound
revision again, finds it there only if the lock is the revision's.
`PromotedIsGood` and `QualifiedIsProven` are lemmas about the constitution: if it promotes
then every check passed, so the artifact has every merit, and no failure is unresolved.

### The Workbench

`OverlaySpec` offers every part of the screen at once; the run divides them into
behaviours and bounds the sessions, which only removes steps. `ViewSound` says that a view
with an Assessment names it and that Evidence is shown of terminal Assessments only;
`RequestSound`, that every operation waits with a view that could have offered it. A
DISCLOSURE that is answered has then its Assessment's last revision in hand, its
own generation is the last one and its session lives: what `DisclosureIsWanted` says the moment it
is shown. What remains is that nothing it depends on changes under it
(`DisclosureKept`): an operation of the user replaces the view, an answer shows no
content but its own, and the timer that fires is that of the content it hides. The
exception is the local context, whose answer starts a new session under the view that is
there: `OpeningAlone` says that the session which issues it, or reads its first listing,
waits for nothing else, except what a Bundle offers that a late digest has published, so
that this view shows no Evidence. Each step is one of three kinds (`SessionGoesOn`,
`SessionBegins`, `SessionEnds`).

`RevisionsAdvance` is an action property and far from inductive: answers to LOAD and MORE
are tested against the session alone, and those about findings and commands compare
revisions and not Assessments, so an answer can put another Assessment on the screen than
the one before it. What keeps a revision from returning is what a session may be about
(`RevisionInv`, said of the operations that wait in it, the view, the monitor's number and
whether the Assessment that a start creates exists yet):

- two Assessments at most: the one it started, and one it opened or selected
  (`TwoSubjects`). One that is being loaded is on no screen and in no other operation
  (`LoadsAreApart`), because while there is something to select a session is about the one it
  started alone, which is not in the list (`Selecting`), and because nothing is about that
  one before it exists (`FreshExists`).
- one current monitor, and none while a command is submitted (`OneMonitor`).
- as long as something may still be loaded or selected, one Assessment alone is shown, and
  its newest revision is on the screen or the monitor's (`NewestShown`). Afterwards two
  are, but the monitor of either is not behind what the screen shows of it, and no operation
  that waits can put the screen ahead of it (`MonitorLeads`).

A revision read by the monitor is then newer than the screen's, one that a command reads is
not older, and every other answer paints the revision it was asked of, which is still shown.
One lemma per way in which the operations that wait may change keeps `RevisionInv`
(`SameRevisionKeeps`, `ReplacementKeeps`, `RereadKeeps`, `LoadKeeps`, `BeginningKeeps`,
`SelectionKeeps`, `StartKeeps`, `ListingKeeps`, `MoreAskedKeeps`, `MoreAnsweredKeeps`), and
each action is shown to be one of them.

### Left to TLC

- All liveness (`OperationsEnd`, `BegunWorkEnds`, `PendingEnds`,
  `LapsedIsPurged`): fairness and ENABLED are beyond the prover.
- The properties of the violated runs, which do not hold.

No module declares a RECURSIVE operator.

## Where code and documents disagree

Four runs are expected to be violated and say what happens ("findings"):
CANCELED can commit while a finalization is still publishing (CONTEXT.md:574 asks
for the contrary); a start that was admitted before a teardown can commit and
launch after it (ADR 0132); a torn artifact ends an Export as an integrity
conflict at once, as ADR 0303 wants for an artifact with other canonical bytes, although
the bytes are what is left of the Service's own write, a transient failure, for which it
asks for five attempts; and a download whose bytes
are being digested while the Workbench is closed publishes the Bundle again, after
`closeAssessment` has erased everything (`controller.ts`, its comment at line 1804).

## Not modelled

Components: the Repository registry, the queries, the Harness
tools, the permission checks and the contracts; the reason is with each in
`PROJECT.json`. Of the modelled ones: read-only-safe mode and the Harness verification
gate (they refuse commands and change nothing); the Service's side of downloads; schemas and
digests; parsing of reports, lockfiles, workflows and role output; metrics before
they are compared with a threshold; rendering; two service instances on one store at
once; a Host clock that moves back.

What the models show of the code, or leave out of it, without a property: no
document promises the contrary, or the case lies outside a model.

Role Attempts. Two RUNNING attempts
that have both lost their worker cannot fail, since each waits for the other's Card:
only a cancellation ends them. An attempt whose contribution bears more than 128
candidates can never complete. An attempt that a repair closed cannot link another
invocation. Attempts that were RUNNING at a restart are RUNNING after it, with
nobody behind them.

Risk decisions. A snapshot still offers a decision while a cancellation is pending, and
the store refuses it. A first attestation that lapsed leaves only cancellation
(SECURITY-REVIEW.md, F-06, deliberate). That a caller cannot choose an easier
validation contract after seeing a result (ADR 0189) holds for one attempt; a second
attempt at the candidate may freeze another contract.

Evaluation. Analyzers bound what they contribute in their own files: npm-audit and
Gitleaks at 768 candidates, npm-publish-surface at 40, GitHub Actions at 29. Only the
last was computed from the 128 records of a sealed bundle; beyond 29 candidates the
others' Assessments are blocked at the seal, on every resume too, and with a risk
window 30 or 31 candidates open one whose finalization can never be sealed. More than
127 report slices give COMPLETE coverage with only a diagnostic; the limits of
publication catch it. A registered Host Analyzer that is not eligible is
executed all the same, and may block the Assessment or make its outcome indeterminate.
A disposer still works after registration is closed. After a restart with another build an
Assessment blocks until it is composed again. A policy over a declaration file is
SATISFIED for a Subject without the file.

Release. Only a candidate that is handed to the commands is modelled. Proof records
are read again by assemble alone; the failure history of a draft is what its author
supplies; a runner writes a record only if all its assertions pass. A diagnostic
rerun that passes writes a record like a qualification's, to be taken away by hand. A
platform proof that honestly says INCONCLUSIVE without a reference yields BLOCKED, and
leaving it out INCONCLUSIVE. A qualification that was INCONCLUSIVE cannot be rerun on
the same artifact. Nothing but its presence ties the tarball to the source revision. The
lock is tracked, and an edit ends in a commit: the model has no edit that is taken back
and no return to an earlier revision. If the lock is edited and restored around the
digests of `bind`, and edited the same way and restored around those of `qualify`, every
look of git finds a clean tree and both digests agree on the edited lock.

Freeze and slices. A symbolic link is read once and never looked at again. Status,
diff and untracked names are one look in the model and three commands in the code. A
starting Service reaps a staging directory that a freeze of an earlier one, which its
teardown did not join, is about to rename; that freeze then fails. `settled` and the
caller's signal are not looked at after the Broker's answer, so that a COMPLETED receipt
can follow a settlement. A failed invocation settles no record. No function recomputes
the digest of the redacted text it is handed, nor remembers the invocation identities that
have a capability, and a budget is asked for one reservation per identity: the trusted Host
code in the same process (ADR 0159) is assumed to pass on what the package gave it and to
use an identity once. `EgressIsGoverned` and `InvocationsAreAccounted` hold under that
assumption; with one reservation per identity, that an invocation settles once is close to
the model's shape, and the weight of the second is on its windows and sums. Reservations are
compared each with the tokens the Grant has left, never their sum. The sensitivity of
a material is never compared with the categories the Grant discloses.

Workbench. Answers to LOAD and MORE are tested against the session alone: they can
replace a newer view, or show another Assessment than the session's. The tests of
findings and commands compare revisions and not the Assessment. A superseded monitor
whose poll is rejected fails the whole session. Opening the findings while a
cancellation or resume is being submitted resets the command to IDLE, so that its answer
is dropped and no monitor runs (ADR 0099). A retry after a failure uses a fresh
idempotency key. Where the code aborts a superseded Evidence request, the model has
its generation alone. One page of findings, one Finding, Evidence Link and
destination stand for several.

Control plane. A launch does nothing while `runningAssessments` holds a task that has
settled and is removed one microtask later (`launchAssessment`): if a resume commits then,
its Assessment stays CREATED, unlaunched, until a replay or a restart, and an operation
that waits for it goes on reading. `OperationsEnd` names this exception (`Unlaunched`);
without it TLC finds the behaviour, from two operations of which one replays a start
while the other resumes. An operation that itself read BLOCKED comes after the blocked
task's own removal, which was queued before. RECOVER resumes once: under the
invocation's key a second resume, after a second restart or a second failure, comes with
another revision, is answered IDEMPOTENCY_CONFLICT and reported as failed; ADR 0299
keeps recover for reconciling an existing Assessment. RECOVER of an Assessment
that is BLOCKED in a risk window, has a cancellation accepted, or was resumed by an
operator conflicts as well. NOT_STARTED may be reported ahead of a start that is still
freezing its Subject and later creates the Assessment (ADR 0296). A Repository may be
rebound or disabled between the start and the recovery; the Repository is not modelled.

## Plan

What is left, in order:

1. `RepositoryRegistry` (revisions, rebinding, and the start that resolved an earlier
   one) below `ControlPlane`, whose start key names the Repository.
2. The composition of `SubjectFreeze` with the start and the teardown of
   `AssessmentService`, whose reaper meets a freeze nobody joins.
3. Two Service instances on one store for `ExportDelivery`.
4. The rules of the metrics in `evaluation.ts` (paired arms, non-inferiority) as
   operators against reference definitions.

Proofs: the abstract specifications below, each with its refinement.

Abstract specifications worth stating: an attempt as seen by its Assessment (none,
running, ended) that `RoleAttempts` implements; a capability that is used at most once.
