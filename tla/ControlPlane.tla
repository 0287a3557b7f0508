---------------------------- MODULE ControlPlane ----------------------------
(***************************************************************************)
(* The optional Control Plane Provider (src/src/control-plane-provider.ts) *)
(* over the Security Service: ASSESS, RECOVER and CANCEL of one provider   *)
(* invocation (executeControlPlaneProviderOperation, src/src/index.ts).    *)
(*                                                                         *)
(* An invocation derives its idempotency keys from its own identity, so    *)
(* every operation of it names the same Assessment and uses the same key:  *)
(* an Assessment stands for the start key of an invocation, ProviderKey    *)
(* for its resume and cancel keys (the receipts tell the two apart).  The  *)
(* operations are ordinary callers of the Service: between two awaits they *)
(* run alone, between two calls anything may happen, and they are lost     *)
(* when the process dies.  The engine that calls them is not modelled: it  *)
(* may begin any of them at any time, also twice at once.  An Assessment   *)
(* has the clients of the one who started it: the engine, or operators,    *)
(* which do what AssessmentService lets them.                              *)
(***************************************************************************)
EXTENDS AssessmentService

CONSTANTS
    ProviderKey,    \* controlPlaneOperationIdempotencyKey of resume and cancel
    ProviderCalls   \* numbers of the operations that may be under way at once

ASSUME ProviderAssumption ==
    /\ ProviderKey \in Keys
    /\ ProviderCalls \subseteq Nat

VARIABLES
    owner,  \* who starts each assessment: "engine" or "operators"
    calls   \* the provider operations under way, and the last answers

providerVars == <<vars, owner, calls>>

RunKinds == {"ASSESS", "RECOVER"}

(* What a call told its caller.  Only a sealed and a canceled Assessment are    *)
(* claims about it: a call that ends blocked, failed, aborted, thrown, or finds *)
(* nothing started leaves "none".                                               *)
Answers == {"none", "sealed", "canceled"}

IdleCall ==
    [kind |-> "none", target |-> "nobody", pc |-> "idle", revision |-> 0,
     answer |-> "none"]

ProviderInit ==
    /\ Init
    /\ owner \in [Assessments -> {"engine", "operators"}]
    /\ calls = [c \in ProviderCalls |-> IdleCall]

Answer(c, answer) ==
    calls' = [calls EXCEPT ![c] = [IdleCall EXCEPT !.target = calls[c].target,
                                                   !.answer = answer]]

\* Which slot a call takes tells nothing: it takes the first free one.
Begin(c, a, kind, pc) ==
    /\ \A d \in ProviderCalls : d < c => calls[d].pc # "idle"
    /\ calls' = [calls EXCEPT ![c] = [IdleCall EXCEPT !.kind = kind, !.target = a,
                                                      !.pc = pc]]

\* The call ends blocked, failed, aborted or with an exception.
GiveUp(c) == calls' = [calls EXCEPT ![c] = IdleCall]

Proceed(c, pc, revision) ==
    calls' = [calls EXCEPT ![c].pc = pc, ![c].revision = revision]

\* A continuation of call c that waits at pc: the store is open.
At(c, pc) == Continues /\ calls[c].pc = pc

\* The receipt the provider's key already has for this operation, if any.
ProviderReceipts(op, a) == ReceiptsOf(op, a, ProviderKey)

\* The stored request names the revision before the one it committed: only a
\* repetition that expects the same revision has the same request digest.
SameRequest(op, a, expected) ==
    \E r \in ProviderReceipts(op, a) : r.revision = expected + 1

-----------------------------------------------------------------------------
(* ASSESS and RECOVER. *)

\* ASSESS or RECOVER has passed its Repository checks and starts the Assessment
\* under the invocation's key: a new freeze, or the receipt and another launch.
\* What refuses it before changes nothing.  At most one start of an Assessment
\* is in its freeze.
StartOperation(c, a, kind) ==
    /\ At(c, "idle")
    /\ \/ /\ \A d \in ProviderCalls :
                calls[d].target = a => calls[d].pc # "starting"
          /\ AdmitStart(a)
          /\ Begin(c, a, kind, "starting")
       \/ /\ ReplayStart(a)
          /\ Begin(c, a, kind, "reading")

FinishStart(c) ==
    /\ calls[c].pc = "starting"
    /\ CreateAssessment(calls[c].target)
    /\ Proceed(c, "reading", 0)

FailStart(c) ==
    /\ calls[c].pc = "starting"
    /\ AbandonStart(calls[c].target)
    /\ GiveUp(c)

\* Mutant: an Assessment that is not executing is worth waiting for.
BugWaitsWhileBlocked(c) ==
    /\ At(c, "reading")
    /\ calls[c].kind \in RunKinds
    /\ LET a == calls[c].target
       IN  \/ record[a].state = "SEALED" /\ Answer(c, "sealed")
           \/ record[a].state = "CANCELED" /\ Answer(c, "canceled")
           \/ /\ record[a].state = "BLOCKED"
              /\ calls[c].kind = "RECOVER"
              /\ runner[a].pc # "settled"
              /\ Proceed(c, "resuming", record[a].revision)
    /\ UNCHANGED vars

\* The loop's read.  While the Assessment is CREATED or RUNNING it waits for a
\* later revision, or five seconds, and reads again.  The answer that lets
\* RECOVER resume reaches it after the blocked task's own continuation, which was
\* queued before.
ReadForOutcome(c) ==
    /\ At(c, "reading")
    /\ calls[c].kind \in RunKinds
    /\ LET a == calls[c].target
       IN  \/ record[a].state = "SEALED" /\ Answer(c, "sealed")
           \/ record[a].state = "CANCELED" /\ Answer(c, "canceled")
           \/ /\ record[a].state = "BLOCKED"
              /\ calls[c].kind = "ASSESS"
              /\ GiveUp(c)
           \/ /\ record[a].state = "BLOCKED"
              /\ calls[c].kind = "RECOVER"
              /\ runner[a].pc # "settled"
              /\ Proceed(c, "resuming", record[a].revision)
    /\ UNCHANGED vars

\* resumeAssessment at the revision that was read, below the bound of every resume.
ResumeOperation(c) ==
    /\ calls[c].pc = "resuming"
    /\ LET a == calls[c].target
           expected == calls[c].revision
       IN  \/ /\ SameRequest("resume_assessment", a, expected)
              /\ ReplayResume(a, ProviderKey)
           \/ /\ record[a].revision = expected
              /\ record[a].revision < MaxRevision
              /\ ResumeAssessment(a, ProviderKey)
    /\ Proceed(c, "reading", 0)

\* IDEMPOTENCY_CONFLICT when the key resumed another revision, CONFLICT when
\* the Assessment moved on, waits for a risk decision or is being canceled.
RefuseResume(c) ==
    /\ At(c, "resuming")
    /\ process = "ACTIVE"
    /\ LET a == calls[c].target
           expected == calls[c].revision
       IN  IF ProviderReceipts("resume_assessment", a) # {}
           THEN ~SameRequest("resume_assessment", a, expected)
           ELSE \/ record[a].revision # expected
                \/ record[a].window # "null"
                \/ record[a].pendingCancellation # 0
    /\ GiveUp(c)
    /\ UNCHANGED vars

-----------------------------------------------------------------------------
(* CANCEL. *)

\* lookupControlPlaneAssessment never starts anything: without a record the call
\* answers that nothing was started, and that is all.
LookUp(c, a) ==
    /\ At(c, "idle")
    /\ record[a].state # "ABSENT"
    /\ Begin(c, a, "CANCEL", "reading")
    /\ UNCHANGED vars

\* Mutant: whatever is not executing is taken for terminal.
BugBlockedIsTerminal(c) ==
    /\ At(c, "reading")
    /\ calls[c].kind = "CANCEL"
    /\ LET a == calls[c].target
       IN  \/ record[a].state = "SEALED" /\ Answer(c, "sealed")
           \/ /\ record[a].state \in {"CANCELED", "BLOCKED"}
              /\ Answer(c, "canceled")
           \/ /\ record[a].state \in {"CREATED", "RUNNING"}
              /\ Proceed(c, "requesting", record[a].revision)
    /\ UNCHANGED vars

ReadForCancel(c) ==
    /\ At(c, "reading")
    /\ calls[c].kind = "CANCEL"
    /\ LET a == calls[c].target
       IN  \/ record[a].state = "SEALED" /\ Answer(c, "sealed")
           \/ record[a].state = "CANCELED" /\ Answer(c, "canceled")
           \/ /\ record[a].state \notin Terminal
              /\ Proceed(c, "requesting", record[a].revision)
    /\ UNCHANGED vars

Cancelable(a, expected) ==
    /\ record[a].state \notin Terminal
    /\ record[a].revision = expected
    /\ record[a].pendingCancellation = 0

\* cancelAssessment at the revision that was read; the call goes on when the
\* Service's own call has.
CancelOperation(c) ==
    /\ calls[c].pc = "requesting"
    /\ LET a == calls[c].target
           expected == calls[c].revision
       IN  /\ \/ /\ SameRequest("cancel_assessment", a, expected)
                 /\ ReplayCancellation(a, ProviderKey)
              \/ /\ Cancelable(a, expected)
                 /\ RequestCancellation(a, ProviderKey)
           /\ Proceed(c, "cancelling", expected + 1)

\* CONFLICT: another round, or the end after the fourth.  How many are left is
\* not kept.
RepeatCancel(c) ==
    /\ At(c, "requesting")
    /\ process = "ACTIVE"
    /\ LET a == calls[c].target
       IN  /\ ProviderReceipts("cancel_assessment", a) = {}
           /\ ~Cancelable(a, calls[c].revision)
    /\ Proceed(c, "reading", 0) \/ GiveUp(c)
    /\ UNCHANGED vars

\* IDEMPOTENCY_CONFLICT: the key has canceled at another revision.
RefuseCancel(c) ==
    /\ At(c, "requesting")
    /\ process = "ACTIVE"
    /\ LET a == calls[c].target
       IN  /\ ProviderReceipts("cancel_assessment", a) # {}
           /\ ~SameRequest("cancel_assessment", a, calls[c].revision)
    /\ GiveUp(c)
    /\ UNCHANGED vars

\* The Service's cancelAssessment has returned.
Returned(c) == [target |-> calls[c].target, revision |-> calls[c].revision] \notin cancelling

\* The Assessment is read once more.
VerifyCanceled(c) ==
    /\ At(c, "cancelling")
    /\ Returned(c)
    /\ IF record[calls[c].target].state = "CANCELED"
       THEN Answer(c, "canceled")
       ELSE GiveUp(c)
    /\ UNCHANGED vars

-----------------------------------------------------------------------------
(* The caller and the process. *)

\* admitsMutations is false: the Service answers UNAVAILABLE.
RefuseUnavailable(c) ==
    /\ Continues
    /\ calls[c].pc \in {"resuming", "requesting"}
    /\ process # "ACTIVE"
    /\ GiveUp(c)
    /\ UNCHANGED vars

\* The caller's signal is seen by the next call into the Service.
AbortOperation(c) ==
    /\ Continues
    /\ calls[c].pc \in {"reading", "resuming", "requesting", "cancelling"}
    /\ calls[c].pc = "cancelling" => Returned(c)
    /\ GiveUp(c)
    /\ UNCHANGED vars

\* Calls under way end with the store or the process; answers already given
\* stay with the caller.
EndCalls ==
    calls' = [c \in ProviderCalls |->
                IF calls[c].pc = "idle" THEN calls[c] ELSE IdleCall]

\* The clients of an operator's Assessment, and the end of their starts.
OperatorMoves ==
    \/ \E a \in Assessments :
         owner[a] = "operators" /\ (ClientRequest(a) \/ CreateAssessment(a))
    \/ \E s \in Calls : FinalizerStep(s)

\* What the Service does by itself.
ServiceMoves ==
    \/ \E a \in Assessments :
         \/ RunnerStep(a) \/ Launch(a) \/ ReapTask(a)
         \/ CompleteCancellationNow(a) \/ CompleteCancellationAfterTask(a)
    \/ Recovery \/ Quiesce

BeginOperation(c) ==
    \E a \in {b \in Assessments : owner[b] = "engine"} :
        LookUp(c, a) \/ \E kind \in RunKinds : StartOperation(c, a, kind)

CallStep(c) ==
    \/ FinishStart(c) \/ FailStart(c)
    \/ ReadForOutcome(c) \/ ResumeOperation(c) \/ RefuseResume(c)
    \/ ReadForCancel(c) \/ CancelOperation(c)
    \/ RepeatCancel(c) \/ RefuseCancel(c) \/ VerifyCanceled(c)
    \/ RefuseUnavailable(c)

ProviderNext ==
    /\ \/ (OperatorMoves \/ ServiceMoves) /\ UNCHANGED calls
       \/ \E c \in ProviderCalls :
            BeginOperation(c) \/ CallStep(c) \/ AbortOperation(c)
       \/ (CloseStore \/ Crash) /\ EndCalls
    /\ UNCHANGED owner

ProviderSpec == ProviderInit /\ [][ProviderNext]_providerVars

\* Nothing obliges the engine to begin or to abort a call; what the Service
\* owes a call, its fair event loop gives.
ProviderFairness ==
    /\ Fairness
    /\ \A c \in ProviderCalls : SF_<<vars, calls>>(CallStep(c))

ProviderFairSpec == ProviderSpec /\ ProviderFairness

-----------------------------------------------------------------------------
(* Properties. *)

\* What the control plane was told stays true whatever other operations,
\* crashes and retries do afterwards: "sealed" (a submission) is of a sealed
\* Assessment whose artifacts are in place, and a cancellation left nothing executing.
AnswersHold ==
    \A c \in ProviderCalls :
        LET a == calls[c].target
        IN  /\ calls[c].answer = "sealed" =>
                 /\ record[a].state = "SEALED"
                 /\ record[a].publication \in bundles[a]
            /\ calls[c].answer = "canceled" =>
                 /\ record[a].state = "CANCELED"
                 /\ runner[a].pc \notin Live

\* A resume that commits between another launch's refusal to begin and the
\* removal of its settled task finds runningAssessments occupied and launches
\* nothing: the Assessment stays CREATED until a replay or a restart.
Unlaunched(a) ==
    record[a].state = "CREATED" /\ runner[a].pc = "none" /\ turn = {}

\* Every provider operation ends: none waits for a revision, a task or a round
\* that will not come, except on an Assessment whose launch was dropped.
OperationsEnd ==
    \A c \in ProviderCalls :
        calls[c].pc # "idle" ~> calls[c].pc = "idle" \/ Unlaunched(calls[c].target)
=============================================================================
