---------------------------- MODULE RoleAttempts ----------------------------
(***************************************************************************)
(* Role Attempts of one Security Assessment, and what is admitted for      *)
(* them, as SecurityPersistence (src/src/internal/persistence.ts) commits  *)
(* it: an attempt starts, the Evidence of its model invocations is linked, *)
(* a malformed output may be repaired once, one contribution is admitted,  *)
(* its candidates are admitted as one batch, and the attempt completes,    *)
(* fails or is canceled with its Assessment.                               *)
(*                                                                         *)
(* Every operation is one SQLite transaction that names the Assessment     *)
(* revision it was decided on, and commits only if that is the current     *)
(* one: it is an atomic step whose guard reads the current state.  An      *)
(* exact repetition of a committed request changes nothing and a differing *)
(* one is refused; both are stuttering steps here.  The callers are not    *)
(* part of the source: any caller may make any request at any time.        *)
(*                                                                         *)
(* The commands of AssessmentService appear as far as attempts depend on   *)
(* them.  Digests, fences, generations (an attempt identity has one),      *)
(* subjects, grants and times are abstracted.  A contribution is known by  *)
(* its attempt, which has at most one.                                     *)
(***************************************************************************)
EXTENDS Integers, FiniteSets

CONSTANTS
    Attempts,      \* attempt identities (the code admits 128 Role Cards)
    Roles,         \* Role definitions
    Invocations,   \* model invocation identities
    Admissions,    \* identities of admission attempts for candidates
    Payloads,      \* what a contribution proposes
    Bearing,       \* the payloads that carry Candidate Findings
    Oversized,     \* those that carry more than a batch admits: 129 to 256
    RequestLimit,  \* requests the budget of an attempt allows
    MaxRevision,   \* bound: nothing but an ending is committed at it
    None           \* the null of an identity or of a content

ASSUME BearingAssumption == Oversized \subseteq Bearing /\ Bearing \subseteq Payloads
ASSUME LimitAssumption == RequestLimit \in Nat \ {0} /\ MaxRevision \in Nat
ASSUME NoneAssumption == None \notin Attempts \cup Invocations \cup Payloads

VARIABLES
    assessment,    \* the Assessment's state, revision and blocking attempt
    begun,         \* revision at which the evaluation task began, 0 for no task
    resumed,       \* revisions of assessment_resume_admitted in the journal
    attempt,       \* role_attempts and role_output_format_repair_plans
    card,          \* roleCards of the Assessment record: state shown per attempt
    link,          \* model_invocation_evidence_links: the attempt bound
    repair,        \* role_output_format_repair_records: the repaired content
    contribution,  \* role_contributions: the admitted content
    admission      \* role_candidate_admission_batches and _diagnostics

service == <<begun, resumed>>
output == <<link, repair, contribution, admission>>
roles == <<attempt, card, link, repair, contribution, admission>>
vars == <<assessment, begun, resumed, attempt, card, link, repair,
          contribution, admission>>

-----------------------------------------------------------------------------
(* State. *)

States == {"CREATED", "RUNNING", "BLOCKED", "SEALED", "CANCELED"}
Terminal == {"SEALED", "CANCELED"}
LifecycleStates == {"ABSENT", "RUNNING", "COMPLETED", "FAILED", "CANCELED"}
Incomplete == {"FAILED", "CANCELED"}

\* blocker: what blockingAttempt names, the evaluation or a Role Attempt.
AssessmentRecords ==
    [state: States, revision: Nat, pendingCancellation: Nat,
     window: {"null", "OPEN", "RESOLVED"},
     blocker: Attempts \cup {None, "ASSESSMENT_EXECUTION"}]

AttemptRecords ==
    [state: LifecycleStates, role: Roles \cup {None}, parent: Attempts \cup {None},
     started: Nat, ended: Nat,
     original: Invocations \cup {None}, repairing: Invocations \cup {None}]

AbsentAttempt ==
    [state |-> "ABSENT", role |-> None, parent |-> None, started |-> 0, ended |-> 0,
     original |-> None, repairing |-> None]

Contributions == [uses: SUBSET Invocations, payload: Payloads]
AdmissionRecords == [of: Attempts, state: {"ADMITTED", "REJECTED"}]

ASSUME ContentAssumption == None \notin Contributions \cup AdmissionRecords

Init ==
    /\ assessment = [state |-> "CREATED", revision |-> 1, pendingCancellation |-> 0,
                     window |-> "null", blocker |-> None]
    /\ begun = 0
    /\ resumed = {}
    /\ attempt = [x \in Attempts |-> AbsentAttempt]
    /\ card = [x \in Attempts |-> "ABSENT"]
    /\ link = [i \in Invocations |-> None]
    /\ repair = [x \in Attempts |-> None]
    /\ contribution = [x \in Attempts |-> None]
    /\ admission = [n \in Admissions |-> None]

NextRevision == assessment.revision + 1
Running == {x \in Attempts : attempt[x].state = "RUNNING"}
Linked(x) == {i \in Invocations : link[i] = x}
Admitted(x) == \E n \in Admissions : admission[n] = [of |-> x, state |-> "ADMITTED"]

\* Mutant: an operation that was decided on may still commit while canceling.
BugOpenWhileCanceling == assessment.state = "RUNNING" /\ assessment.revision < MaxRevision

\* What every role operation asks of the Assessment.
Open ==
    /\ assessment.state = "RUNNING"
    /\ assessment.pendingCancellation = 0
    /\ assessment.revision < MaxRevision

\* commitAssessmentRevision with nothing but the next revision.
Advance == assessment' = [assessment EXCEPT !.revision = NextRevision]

-----------------------------------------------------------------------------
(* startRoleAttempt. *)

\* Mutant: a fresh attempt may ignore the failed ones of its Role.
BugForgottenLineage(r, p) ==
    p # None => /\ attempt[p].state \in Incomplete
                /\ attempt[p].role = r

\* A parent is an incomplete attempt of the same Role, and a Role that has one
\* cannot start without naming one.
Lineage(r, p) ==
    IF p = None
    THEN \A y \in Attempts : attempt[y].role = r => attempt[y].state \notin Incomplete
    ELSE attempt[p].state \in Incomplete /\ attempt[p].role = r

\* A Format Repair plan names two invocations and needs a budget for both.
Plans == {<<None, None>>} \cup
         {plan \in Invocations \X Invocations : plan[1] # plan[2] /\ RequestLimit >= 2}

Started(r, p, plan) ==
    [state |-> "RUNNING", role |-> r, parent |-> p, started |-> NextRevision,
     ended |-> 0, original |-> plan[1], repairing |-> plan[2]]

StartRoleAttempt(x, r, p, plan) ==
    /\ Open
    /\ attempt[x].state = "ABSENT"
    /\ Lineage(r, p)
    /\ Advance
    /\ attempt' = [attempt EXCEPT ![x] = Started(r, p, plan)]
    /\ card' = [card EXCEPT ![x] = "RUNNING"]
    /\ UNCHANGED <<service, output>>

-----------------------------------------------------------------------------
(* linkModelInvocationEvidence, admitRoleOutputFormatRepair,                *)
(* admitRoleContribution, admitRoleCandidates.                              *)

\* Mutant: output is admitted for an attempt that has ended.
BugAcceptsEnded(x) == Open /\ attempt[x].state # "ABSENT"

Accepts(x) == Open /\ attempt[x].state = "RUNNING"

\* Mutant: Evidence may extend the lineage of an admitted contribution.
BugAlwaysExtensible(x) == attempt[x].state = "RUNNING"

Extensible(x) == contribution[x] = None

LinkModelInvocationEvidence(x, i) ==
    /\ Accepts(x)
    /\ link[i] = None
    /\ i = attempt[x].repairing => link[attempt[x].original] # None
    /\ Extensible(x)
    /\ Advance
    /\ link' = [link EXCEPT ![i] = x]
    /\ UNCHANGED <<service, attempt, card, repair, contribution, admission>>

\* Mutant: the budget admits one request too many.
BugBudgetOffByOne(c) == Cardinality(c.uses) <= RequestLimit + 1

WithinBudget(c) == Cardinality(c.uses) <= RequestLimit

\* The repaired contribution uses exactly the two invocations of the plan.  That
\* its text says what the original said is part of the choice of its payload.
Repaired(x, p) ==
    [uses |-> {attempt[x].original, attempt[x].repairing}, payload |-> p]

AdmitRoleOutputFormatRepair(x, p) ==
    /\ Accepts(x)
    /\ attempt[x].original # None
    /\ repair[x] = None
    /\ Repaired(x, p).uses \subseteq Linked(x)
    /\ WithinBudget(Repaired(x, p))
    /\ Advance
    /\ repair' = [repair EXCEPT ![x] = Repaired(x, p)]
    /\ UNCHANGED <<service, attempt, card, link, contribution, admission>>

\* validateRoleContributionLineage: the contribution accounts for every linked
\* invocation, and once there is a repair it is the repaired contribution.
ClosesLineage(x, c) ==
    /\ c.uses # {}
    /\ c.uses = Linked(x)
    /\ attempt[x].repairing \in c.uses => repair[x] # None
    /\ repair[x] # None => c = repair[x]

AdmitRoleContribution(x, c) ==
    /\ Accepts(x)
    /\ contribution[x] = None
    /\ ClosesLineage(x, c)
    /\ WithinBudget(c)
    /\ Advance
    /\ contribution' = [contribution EXCEPT ![x] = c]
    /\ UNCHANGED <<service, attempt, card, link, repair, admission>>

\* All candidates of a contribution are admitted together, or the attempt to do
\* so is recorded as rejected; either way its identity is used up.  A batch of
\* more than 128 candidates throws and leaves nothing.
AdmitRoleCandidates(x, n, state) ==
    /\ contribution[x] # None
    /\ state = "ADMITTED" => contribution[x].payload \notin Oversized
    /\ admission[n] = None
    /\ ~Admitted(x)
    /\ Accepts(x)
    /\ Advance
    /\ admission' = [admission EXCEPT ![n] = [of |-> x, state |-> state]]
    /\ UNCHANGED <<service, attempt, card, link, repair, contribution>>

-----------------------------------------------------------------------------
(* completeRoleAttempt, failRoleAttempt. *)

Ended(x, state) ==
    [attempt EXCEPT ![x].state = state, ![x].ended = NextRevision]

\* Mutant: any admission attempt counts, the rejected ones too.
BugRejectedCounts(x) ==
    contribution[x].payload \in Bearing =>
        \E n \in Admissions : admission[n] # None /\ admission[n].of = x

CandidatesSettled(x) == contribution[x].payload \in Bearing => Admitted(x)

CompleteRoleAttempt(x) ==
    /\ Accepts(x)
    /\ contribution[x] # None
    /\ CandidatesSettled(x)
    /\ Advance
    /\ attempt' = Ended(x, "COMPLETED")
    /\ card' = [card EXCEPT ![x] = "COMPLETED"]
    /\ UNCHANGED <<service, output>>

\* Mutant: only the cards of the same Role are looked at.
BugPeersOfRole(x) ==
    \A y \in Running \ {x} : attempt[y].role # attempt[x].role

NoRunningPeer(x) ==
    /\ Running \subseteq {x}
    /\ \A y \in Attempts \ {x} : card[y] # "RUNNING"

FailRoleAttempt(x) ==
    /\ Accepts(x)
    /\ card[x] = "RUNNING"
    /\ NoRunningPeer(x)
    /\ assessment' = [assessment EXCEPT !.revision = NextRevision,
                                        !.state = "BLOCKED", !.blocker = x]
    /\ attempt' = Ended(x, "FAILED")
    /\ card' = [card EXCEPT ![x] = "FAILED"]
    /\ begun' = 0
    /\ UNCHANGED <<resumed, output>>

-----------------------------------------------------------------------------
(* The commands of the service and its evaluation task. *)

BeginAssessment ==
    /\ assessment.state = "CREATED"
    /\ assessment.pendingCancellation = 0
    /\ assessment.revision < MaxRevision
    /\ assessment' = [assessment EXCEPT !.revision = NextRevision, !.state = "RUNNING"]
    /\ begun' = NextRevision
    /\ UNCHANGED <<resumed, roles>>

\* The evaluation task names the revision its beginning committed: a role
\* operation that commits meanwhile makes these three conflict.
Evaluating ==
    /\ assessment.state = "RUNNING"
    /\ assessment.revision = begun
    /\ assessment.pendingCancellation = 0

SealAssessment ==
    /\ \/ Evaluating
       \/ /\ assessment.state = "BLOCKED"
          /\ assessment.window = "RESOLVED"
          /\ assessment.pendingCancellation = 0
    /\ assessment' = [assessment EXCEPT !.revision = NextRevision,
                                        !.state = "SEALED", !.blocker = None]
    /\ begun' = 0
    /\ UNCHANGED <<resumed, roles>>

OpenRiskDecisionWindow ==
    /\ Evaluating
    /\ assessment.window = "null"
    /\ assessment' = [assessment EXCEPT !.revision = NextRevision, !.state = "BLOCKED",
                                        !.window = "OPEN"]
    /\ begun' = 0
    /\ UNCHANGED <<resumed, roles>>

\* A decision either settles the last open finding of the window or leaves some.
RecordRiskDecision(window) ==
    /\ assessment.state = "BLOCKED"
    /\ assessment.window = "OPEN"
    /\ assessment.pendingCancellation = 0
    /\ window = "OPEN" => assessment.revision < MaxRevision
    /\ assessment' = [assessment EXCEPT !.revision = NextRevision, !.window = window]
    /\ UNCHANGED <<service, roles>>

Block ==
    /\ assessment' = [assessment EXCEPT !.revision = NextRevision, !.state = "BLOCKED",
                                        !.blocker = "ASSESSMENT_EXECUTION"]
    /\ begun' = 0
    /\ UNCHANGED <<resumed, roles>>

BlockAssessment == Evaluating /\ Block

ResumeAssessment ==
    /\ assessment.state = "BLOCKED"
    /\ assessment.window = "null"
    /\ assessment.pendingCancellation = 0
    /\ assessment.revision < MaxRevision
    /\ assessment' = [assessment EXCEPT !.revision = NextRevision, !.state = "CREATED",
                                        !.blocker = None]
    /\ resumed' = resumed \cup {NextRevision}
    /\ UNCHANGED <<begun, roles>>

RequestCancellation ==
    /\ assessment.state \in {"CREATED", "RUNNING", "BLOCKED"}
    /\ assessment.pendingCancellation = 0
    /\ assessment' = [assessment EXCEPT !.revision = NextRevision,
                                        !.pendingCancellation = NextRevision]
    /\ UNCHANGED <<service, roles>>

\* Mutant: the attempts are left to their own endings.
BugCancelCardsOnly ==
    /\ card' = [x \in Attempts |-> IF x \in Running THEN "CANCELED" ELSE card[x]]
    /\ UNCHANGED attempt

\* Every RUNNING attempt and its card end in the commit that cancels; a
\* RUNNING card without an attempt, or the reverse, refuses it.
CancelRunning ==
    /\ Running = {x \in Attempts : card[x] = "RUNNING"}
    /\ attempt' = [x \in Attempts |-> IF x \in Running
                                      THEN [attempt[x] EXCEPT !.state = "CANCELED",
                                                              !.ended = NextRevision]
                                      ELSE attempt[x]]
    /\ card' = [x \in Attempts |-> IF x \in Running THEN "CANCELED" ELSE card[x]]

CompleteCancellation ==
    /\ assessment.pendingCancellation # 0
    /\ assessment.state \notin Terminal
    /\ assessment' = [assessment EXCEPT !.revision = NextRevision,
                                        !.state = "CANCELED", !.blocker = None]
    /\ CancelRunning
    /\ begun' = 0
    /\ UNCHANGED <<resumed, output>>

\* A restart: an accepted cancellation completes (above), an interrupted
\* evaluation blocks at whatever revision it is.  Attempts are not looked at.
RecoverInterrupted ==
    /\ assessment.state = "RUNNING"
    /\ assessment.pendingCancellation = 0
    /\ Block

-----------------------------------------------------------------------------

RoleOperation(x) ==
    \/ \E r \in Roles, p \in Attempts \cup {None}, plan \in Plans :
           StartRoleAttempt(x, r, p, plan)
    \/ \E i \in Invocations : LinkModelInvocationEvidence(x, i)
    \/ \E p \in Payloads : AdmitRoleOutputFormatRepair(x, p)
    \/ \E c \in Contributions : AdmitRoleContribution(x, c)
    \/ \E n \in Admissions, state \in {"ADMITTED", "REJECTED"} :
           AdmitRoleCandidates(x, n, state)
    \/ CompleteRoleAttempt(x)
    \/ FailRoleAttempt(x)

ServiceOperation ==
    \/ BeginAssessment
    \/ SealAssessment
    \/ OpenRiskDecisionWindow
    \/ \E window \in {"OPEN", "RESOLVED"} : RecordRiskDecision(window)
    \/ BlockAssessment
    \/ ResumeAssessment
    \/ RequestCancellation
    \/ CompleteCancellation
    \/ RecoverInterrupted

Next == ServiceOperation \/ \E x \in Attempts : RoleOperation(x)

Spec == Init /\ [][Next]_vars

-----------------------------------------------------------------------------
(* Properties. *)

\* Every variable has its type, no contribution exceeds the request budget of
\* its attempt and no identity that was never started has output.
TypeOK ==
    /\ assessment \in AssessmentRecords
    /\ begun \in Nat
    /\ resumed \subseteq 1 .. assessment.revision
    /\ attempt \in [Attempts -> AttemptRecords]
    /\ card \in [Attempts -> LifecycleStates]
    /\ link \in [Invocations -> Attempts \cup {None}]
    /\ repair \in [Attempts -> Contributions \cup {None}]
    /\ contribution \in [Attempts -> Contributions \cup {None}]
    /\ admission \in [Admissions -> AdmissionRecords \cup {None}]
    /\ \A x \in Attempts : contribution[x] # None => Cardinality(contribution[x].uses) <= RequestLimit
    /\ \A x \in Attempts : attempt[x].state = "ABSENT" => Linked(x) = {}

\* An admitted contribution accounts for every model invocation ever linked to
\* its attempt, also those linked by another operation after it; when it uses
\* the repair invocation it is exactly the repaired contribution, and a repair
\* is never left behind by a different one (ADR 0177: the Store "requires any
\* resulting Role Contribution to match that record").
OutputIsClosed ==
    \A x \in Attempts : contribution[x] # None =>
        /\ contribution[x].uses = Linked(x)
        /\ attempt[x].repairing \in Linked(x) => contribution[x] = repair[x]
        /\ repair[x] # None => contribution[x] = repair[x]

\* A COMPLETED attempt has its contribution and, if that bears Candidate
\* Findings, exactly one admitted batch of them; and the Role Cards of the
\* Assessment show every attempt as its own record has it.
CompletedIsBacked ==
    \A x \in Attempts :
        /\ card[x] = attempt[x].state
        /\ attempt[x].state = "COMPLETED" =>
               /\ contribution[x] # None
               /\ contribution[x].payload \in Bearing =>
                      Cardinality({n \in Admissions :
                          admission[n] = [of |-> x, state |-> "ADMITTED"]}) = 1

\* Work that failed is never redone silently (ADR 0179): an attempt with a
\* parent redoes an incomplete one of its Role after an operator resumed the
\* Assessment, and one without a parent started before any of its Role ended
\* incomplete.
RetryFollowsResume ==
    \A x \in Attempts : attempt[x].state # "ABSENT" =>
        IF attempt[x].parent = None
        THEN \A y \in Attempts :
                 attempt[y].role = attempt[x].role /\ attempt[y].state \in Incomplete
                     => attempt[x].started < attempt[y].ended
        ELSE LET p == attempt[attempt[x].parent]
             IN  /\ p.role = attempt[x].role
                 /\ p.state \in Incomplete
                 /\ \E r \in resumed : p.ended < r /\ r < attempt[x].started

\* The failure of an attempt blocks the Assessment, with that attempt as its
\* blocker and no attempt of any Role still running, until an operator resumes
\* or cancels it.
FailureBlocksUntilResume ==
    \A x \in Attempts : attempt[x].state = "FAILED" =>
        \/ /\ assessment.state = "BLOCKED"
           /\ assessment.blocker = x
           /\ Running = {}
        \/ \E r \in resumed : attempt[x].ended < r
        \/ assessment.state = "CANCELED"

\* What an attempt was and what was admitted for it does not change once it has
\* ended, whatever its callers still send.
EndedIsFinal ==
    [][\A x \in Attempts : attempt[x].state \notin {"ABSENT", "RUNNING"} =>
           /\ attempt'[x] = attempt[x]
           /\ Linked(x)' = Linked(x)
           /\ repair'[x] = repair[x]
           /\ contribution'[x] = contribution[x]
           /\ \A n \in Admissions :
                  admission'[n] # admission[n] => admission'[n].of # x]_vars

\* Once a cancellation is accepted nothing more is admitted for any attempt,
\* attempts change only by being canceled with the Assessment, and the commit
\* that cancels it leaves none running.
CancellationStopsRoles ==
    [][assessment.pendingCancellation # 0 =>
           /\ UNCHANGED output
           /\ \A x \in Attempts : attempt'[x] # attempt[x] =>
                  /\ attempt[x].state = "RUNNING"
                  /\ attempt'[x].state = "CANCELED"
                  /\ assessment'.state = "CANCELED"
           /\ assessment'.state = "CANCELED" =>
                  \A x \in Attempts : attempt'[x].state # "RUNNING"]_vars

-----------------------------------------------------------------------------
(* The lifecycle of the Assessment, and what stands for it here. *)

Phase == CASE assessment.state = "SEALED" -> "sealed"
           [] assessment.state = "CANCELED" -> "canceled"
           [] OTHER -> "open"

Lifecycle == INSTANCE AssessmentLifecycle
                WITH Assessments <- {"it"},
                     phase <- [it \in {"it"} |-> Phase],
                     granted <- [it \in {"it"} |-> assessment.state = "CREATED"],
                     working <- [it \in {"it"} |-> assessment.state = "RUNNING"],
                     closing <- [it \in {"it"} |-> assessment.pendingCancellation # 0]

\* Role operations, which no command of the service knows of and which may commit
\* between any two of them, leave the Assessment the lifecycle that AssessmentService
\* implements: a failing attempt only holds an execution that is admitted and under
\* way, no attempt authorizes or revives one, and none holds up a cancellation.
KeepsLifecycle == [][Lifecycle!Next]_(Lifecycle!lifecycle)
=============================================================================
