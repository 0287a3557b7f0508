------------------------- MODULE ControlPlaneProofs -------------------------
(***************************************************************************)
(* Proofs about ControlPlane for every set of assessments, findings, keys, *)
(* seals and provider calls: the provider and its engine are clients the   *)
(* Security Service already allows for, so everything proved about the     *)
(* Service holds under them, and what the engine was told stays true.      *)
(***************************************************************************)
EXTENDS ControlPlane, AssessmentServiceProofs

-----------------------------------------------------------------------------
(* Provider calls. *)

\* A call under way has a target; only an answer or nothing is left of one that ended.
CallRecords ==
    [kind: RunKinds \cup {"none", "CANCEL"}, target: Assessments \cup {"nobody"},
     pc: {"idle", "starting", "reading", "resuming", "requesting", "cancelling"},
     revision: Nat, answer: Answers]

ProviderTypeOK ==
    /\ owner \in [Assessments -> {"engine", "operators"}]
    /\ calls \in [ProviderCalls -> CallRecords]
    /\ \A c \in ProviderCalls : calls[c].pc # "idle" => calls[c].target \in Assessments

LEMMA IdleCallTyped ==
    IdleCall \in CallRecords /\ IdleCall.pc = "idle" /\ IdleCall.answer = "none"
BY DEF IdleCall, CallRecords, Answers

\* What the entry of a call becomes.
LEMMA BeginTyped ==
    ASSUME ProviderTypeOK, NEW c \in ProviderCalls, NEW a \in Assessments,
           NEW kind \in RunKinds \cup {"CANCEL"}, NEW pc \in {"starting", "reading"},
           Begin(c, a, kind, pc)
    PROVE  \E r \in CallRecords : /\ calls' = [calls EXCEPT ![c] = r]
                                  /\ r.target = a
                                  /\ r.answer = "none"
<1> DEFINE r == [IdleCall EXCEPT !.kind = kind, !.target = a, !.pc = pc]
<1>1. r \in CallRecords /\ r.target = a /\ r.answer = "none"
  BY IdleCallTyped DEF CallRecords
<1>2. calls' = [calls EXCEPT ![c] = r]
  BY DEF Begin
<1> QED
  BY <1>1, <1>2

LEMMA AnswerTyped ==
    ASSUME ProviderTypeOK, NEW c \in ProviderCalls, NEW answer \in Answers,
           Answer(c, answer)
    PROVE  \E r \in CallRecords : /\ calls' = [calls EXCEPT ![c] = r]
                                  /\ r.target = calls[c].target
                                  /\ r.pc = "idle"
                                  /\ r.answer = answer
<1> DEFINE r == [IdleCall EXCEPT !.target = calls[c].target, !.answer = answer]
<1>1. calls[c].target \in Assessments \cup {"nobody"}
  BY DEF ProviderTypeOK, CallRecords
<1>2. r \in CallRecords /\ r.target = calls[c].target /\ r.pc = "idle" /\ r.answer = answer
  BY <1>1, IdleCallTyped DEF CallRecords
<1>3. calls' = [calls EXCEPT ![c] = r]
  BY DEF Answer
<1> QED
  BY <1>2, <1>3

LEMMA ProceedTyped ==
    ASSUME ProviderTypeOK, NEW c \in ProviderCalls,
           NEW pc \in {"reading", "resuming", "requesting", "cancelling"}, NEW revision \in Nat,
           Proceed(c, pc, revision)
    PROVE  \E r \in CallRecords : /\ calls' = [calls EXCEPT ![c] = r]
                                  /\ r.target = calls[c].target
                                  /\ r.answer = calls[c].answer
<1> DEFINE r == [calls[c] EXCEPT !.pc = pc, !.revision = revision]
<1>1. calls[c] \in CallRecords
  BY DEF ProviderTypeOK
<1>2. r \in CallRecords /\ r.target = calls[c].target /\ r.answer = calls[c].answer
  BY <1>1 DEF CallRecords
<1>3. calls' = [calls EXCEPT ![c] = r]
  BY DEF Proceed, ProviderTypeOK
<1> QED
  BY <1>2, <1>3

-----------------------------------------------------------------------------
(* Every step of the provider is a step of the Service, or none. *)

LEMMA ProviderStepIsServiceStep ==
    ASSUME ProviderTypeOK, [ProviderNext]_providerVars
    PROVE  [Next]_vars
<1>1. CASE OperatorMoves \/ ServiceMoves
  BY <1>1 DEF OperatorMoves, ServiceMoves, Next, ServiceStep
<1>2. ASSUME NEW c \in ProviderCalls, BeginOperation(c)
      PROVE  [Next]_vars
  BY <1>2 DEF BeginOperation, LookUp, StartOperation, Next, ClientRequest
<1>3. ASSUME NEW c \in ProviderCalls, FinishStart(c) \/ FailStart(c)
      PROVE  [Next]_vars
  <2>1. calls[c].target \in Assessments
    BY <1>3 DEF ProviderTypeOK, FinishStart, FailStart
  <2> QED
    BY <1>3, <2>1 DEF FinishStart, FailStart, Next, ClientRequest, ServiceStep
<1>4. ASSUME NEW c \in ProviderCalls, ResumeOperation(c)
      PROVE  [Next]_vars
  <2>1. calls[c].target \in Assessments
    BY <1>4 DEF ProviderTypeOK, ResumeOperation
  <2> QED
    BY <1>4, <2>1, ProviderAssumption DEF ResumeOperation, Next, ClientRequest
<1>5. ASSUME NEW c \in ProviderCalls, CancelOperation(c)
      PROVE  [Next]_vars
  <2>1. calls[c].target \in Assessments
    BY <1>5 DEF ProviderTypeOK, CancelOperation
  <2> QED
    BY <1>5, <2>1, ProviderAssumption DEF CancelOperation, Next, ClientRequest
<1>6. ASSUME NEW c \in ProviderCalls,
             \/ ReadForOutcome(c) \/ RefuseResume(c) \/ ReadForCancel(c) \/ RepeatCancel(c)
             \/ RefuseCancel(c) \/ VerifyCanceled(c) \/ RefuseUnavailable(c)
             \/ AbortOperation(c)
      PROVE  [Next]_vars
  BY <1>6 DEF ReadForOutcome, RefuseResume, ReadForCancel, RepeatCancel, RefuseCancel,
              VerifyCanceled, RefuseUnavailable, AbortOperation
<1>7. CASE CloseStore \/ Crash \/ UNCHANGED providerVars
  BY <1>7 DEF Next, providerVars
<1> QED
  BY <1>1, <1>2, <1>3, <1>4, <1>5, <1>6, <1>7 DEF ProviderNext, CallStep

\* A call under way goes on, ends with what it has just read, or ends with nothing.
LEMMA CallMoves ==
    ASSUME TypeOK, ProviderTypeOK, NEW c \in ProviderCalls, CallStep(c) \/ AbortOperation(c)
    PROVE  /\ calls[c].pc # "idle"
           /\ \/ GiveUp(c)
              \/ \E pc \in {"reading", "resuming", "requesting", "cancelling"}, n \in Nat :
                   Proceed(c, pc, n)
              \/ Answer(c, "sealed") /\ UNCHANGED vars
                   /\ record[calls[c].target].state = "SEALED"
              \/ Answer(c, "canceled") /\ UNCHANGED vars
                   /\ record[calls[c].target].state = "CANCELED"
<1>1. calls[c].pc # "idle"
  BY DEF CallStep, AbortOperation, FinishStart, FailStart, ReadForOutcome, ResumeOperation,
         RefuseResume, ReadForCancel, CancelOperation, RepeatCancel, RefuseCancel,
         VerifyCanceled, RefuseUnavailable, At
<1>2. record[calls[c].target].revision \in Nat /\ calls[c].revision + 1 \in Nat
  <2>1. calls[c].target \in Assessments /\ calls[c].revision \in Nat
    BY <1>1 DEF ProviderTypeOK, CallRecords
  <2> QED
    BY <2>1 DEF TypeOK, Records
<1>3. CASE ReadForOutcome(c)
  BY <1>1, <1>2, <1>3 DEF ReadForOutcome
<1>4. CASE ReadForCancel(c)
  BY <1>1, <1>2, <1>4 DEF ReadForCancel
<1>5. CASE VerifyCanceled(c)
  BY <1>1, <1>5 DEF VerifyCanceled
<1>6. CASE CancelOperation(c) \/ FinishStart(c) \/ ResumeOperation(c) \/ RepeatCancel(c)
  BY <1>1, <1>2, <1>6 DEF CancelOperation, FinishStart, ResumeOperation, RepeatCancel
<1>7. CASE FailStart(c) \/ RefuseResume(c) \/ RefuseCancel(c) \/ RefuseUnavailable(c)
             \/ AbortOperation(c)
  BY <1>1, <1>7 DEF FailStart, RefuseResume, RefuseCancel, RefuseUnavailable, AbortOperation
<1> QED
  BY <1>1, <1>3, <1>4, <1>5, <1>6, <1>7 DEF CallStep

LEMMA CallsStayTyped ==
    ASSUME TypeOK, ProviderTypeOK, [ProviderNext]_providerVars
    PROVE  ProviderTypeOK'
<1> USE DEF ProviderTypeOK
<1>2. owner' \in [Assessments -> {"engine", "operators"}]
  BY DEF ProviderNext, providerVars
<1>3. ASSUME NEW c \in ProviderCalls, NEW r \in CallRecords, calls' = [calls EXCEPT ![c] = r],
             r.pc # "idle" => r.target \in Assessments
      PROVE  ProviderTypeOK'
  BY <1>2, <1>3
<1>4. ASSUME NEW c \in ProviderCalls, BeginOperation(c)
      PROVE  ProviderTypeOK'
  <2>1. PICK a \in Assessments, kind \in RunKinds \cup {"CANCEL"}, pc \in {"starting", "reading"} :
          Begin(c, a, kind, pc)
    BY <1>4 DEF BeginOperation, LookUp, StartOperation
  <2> QED
    BY <1>3, <2>1, BeginTyped
<1>5. ASSUME NEW c \in ProviderCalls, calls[c].pc # "idle",
             NEW pc \in {"reading", "resuming", "requesting", "cancelling"}, NEW revision \in Nat,
             Proceed(c, pc, revision)
      PROVE  ProviderTypeOK'
  BY <1>3, <1>5, ProceedTyped
<1>6. ASSUME NEW c \in ProviderCalls, GiveUp(c)
      PROVE  ProviderTypeOK'
  BY <1>3, <1>6, IdleCallTyped DEF GiveUp
<1>7. ASSUME NEW c \in ProviderCalls, NEW answer \in Answers, Answer(c, answer)
      PROVE  ProviderTypeOK'
  BY <1>3, <1>7, AnswerTyped
<1>8. ASSUME NEW c \in ProviderCalls, CallStep(c) \/ AbortOperation(c)
      PROVE  ProviderTypeOK'
  BY <1>5, <1>6, <1>7, <1>8, CallMoves DEF Answers
<1>9. CASE EndCalls
  BY <1>2, <1>9, IdleCallTyped DEF EndCalls
<1>10. CASE UNCHANGED calls
  BY <1>2, <1>10
<1> QED
  BY <1>4, <1>8, <1>9, <1>10 DEF ProviderNext, providerVars

LEMMA ProviderInitTyped == ProviderInit => ProviderTypeOK
<1>1. ProviderInit => calls = [c \in ProviderCalls |-> IdleCall]
                      /\ owner \in [Assessments -> {"engine", "operators"}]
  BY DEF ProviderInit
<1> QED
  BY <1>1, IdleCallTyped DEF ProviderTypeOK

\* Every entry of a provider call is of its kind, and a call under way names an
\* Assessment: what each operation reads before an await is still there after it.
THEOREM ProviderTypeCorrect == ProviderSpec => [](TypeOK /\ ProviderTypeOK)
<1>1. ProviderInit => TypeOK /\ ProviderTypeOK
  BY InitTyped, ProviderInitTyped DEF ProviderInit
<1>2. TypeOK /\ ProviderTypeOK /\ [ProviderNext]_providerVars => (TypeOK /\ ProviderTypeOK)'
  BY TypeKept, CallsStayTyped, ProviderStepIsServiceStep
<1> QED
  BY <1>1, <1>2, PTL DEF ProviderSpec

\* The provider and the engine behind it (src/src/control-plane-provider.ts) do
\* nothing that operators of the Service (src/src/index.ts) could not do by
\* themselves: whatever is proved of the Service holds under the control plane.
THEOREM ProviderImplementsService == ProviderSpec => Spec
<1>1. ProviderInit => Init
  BY DEF ProviderInit
<1>2. ProviderTypeOK /\ [ProviderNext]_providerVars => [Next]_vars
  BY ProviderStepIsServiceStep
<1> QED
  BY <1>1, <1>2, ProviderTypeCorrect, PTL DEF ProviderSpec, Spec

-----------------------------------------------------------------------------
(* The answers of ended calls. *)

\* An answer names an Assessment that is as it said.
AnswersAreOutcomes ==
    \A c \in ProviderCalls :
        /\ calls[c].answer \in {"sealed", "canceled"} => calls[c].target \in Assessments
        /\ calls[c].answer = "sealed" => record[calls[c].target].state = "SEALED"
        /\ calls[c].answer = "canceled" => record[calls[c].target].state = "CANCELED"

\* One step of TerminalIsFinal.
TerminalStep ==
    \A a \in Assessments :
        record[a].state \in Terminal =>
            record'[a] = record[a] /\ journal'[a] = journal[a]

LEMMA OutcomesInductive ==
    ASSUME TypeOK, ProviderTypeOK, AnswersAreOutcomes, [ProviderNext]_providerVars, [TerminalStep]_vars
    PROVE  AnswersAreOutcomes'
<1>1. \A c \in ProviderCalls : calls[c].answer = "sealed" =>
        /\ calls[c].target \in Assessments
        /\ record'[calls[c].target].state = "SEALED"
  BY DEF AnswersAreOutcomes, TerminalStep, Terminal, vars
<1>2. \A c \in ProviderCalls : calls[c].answer = "canceled" =>
        /\ calls[c].target \in Assessments
        /\ record'[calls[c].target].state = "CANCELED"
  BY DEF AnswersAreOutcomes, TerminalStep, Terminal, vars
<1>3. ASSUME NEW c \in ProviderCalls, NEW r, calls' = [calls EXCEPT ![c] = r],
             \/ r.answer = "none"
             \/ r.answer = calls[c].answer /\ r.target = calls[c].target
             \/ /\ r.answer = "sealed"
                /\ r.target \in Assessments
                /\ record'[r.target].state = "SEALED"
             \/ /\ r.answer = "canceled"
                /\ r.target \in Assessments
                /\ record'[r.target].state = "CANCELED"
      PROVE  AnswersAreOutcomes'
  <2>1. calls'[c] = r /\ \A d \in ProviderCalls : d # c => calls'[d] = calls[d]
    BY <1>3 DEF ProviderTypeOK
  <2> QED
    BY <1>1, <1>2, <1>3, <2>1 DEF AnswersAreOutcomes
<1>4. ASSUME NEW c \in ProviderCalls, GiveUp(c)
      PROVE  AnswersAreOutcomes'
  BY <1>3, <1>4, IdleCallTyped DEF GiveUp
<1>5. ASSUME NEW c \in ProviderCalls,
             NEW pc \in {"reading", "resuming", "requesting", "cancelling"}, NEW revision \in Nat,
             Proceed(c, pc, revision)
      PROVE  AnswersAreOutcomes'
  BY <1>3, <1>5, ProceedTyped
<1>6. ASSUME NEW c \in ProviderCalls, BeginOperation(c)
      PROVE  AnswersAreOutcomes'
  <2>1. PICK a \in Assessments, kind \in RunKinds \cup {"CANCEL"}, pc \in {"starting", "reading"} :
          Begin(c, a, kind, pc)
    BY <1>6 DEF BeginOperation, LookUp, StartOperation
  <2> QED
    BY <1>3, <2>1, BeginTyped
<1>7. ASSUME NEW c \in ProviderCalls, CallStep(c) \/ AbortOperation(c)
      PROVE  AnswersAreOutcomes'
  <2>1. calls[c].target \in Assessments
    BY <1>7, CallMoves DEF ProviderTypeOK
  <2>2. CASE Answer(c, "sealed") /\ UNCHANGED vars
               /\ record[calls[c].target].state = "SEALED"
    BY <1>3, <2>1, <2>2, AnswerTyped DEF Answers, vars
  <2>3. CASE Answer(c, "canceled") /\ UNCHANGED vars
               /\ record[calls[c].target].state = "CANCELED"
    BY <1>3, <2>1, <2>3, AnswerTyped DEF Answers, vars
  <2> QED
    BY <1>4, <1>5, <1>7, <2>2, <2>3, CallMoves
<1>8. CASE EndCalls
  <2>1. \A c \in ProviderCalls : calls'[c] = calls[c] \/ calls'[c].answer = "none"
    BY <1>8, IdleCallTyped DEF EndCalls
  <2> QED
    BY <1>1, <1>2, <2>1 DEF AnswersAreOutcomes
<1>9. CASE UNCHANGED calls
  BY <1>1, <1>2, <1>9 DEF AnswersAreOutcomes
<1> QED
  BY <1>6, <1>7, <1>8, <1>9 DEF ProviderNext, providerVars

\* What the control plane was told stays true: a submission is of a sealed
\* Assessment whose artifacts are in place, a cancellation left nothing executing,
\* whatever operations, retries, teardowns and crashes follow
\* (executeControlPlaneProviderOperation, src/src/index.ts).
THEOREM AnswersStayTrue == ProviderSpec => []AnswersHold
<1>1. ProviderInit => AnswersAreOutcomes
  <2>1. ProviderInit => \A c \in ProviderCalls : calls[c] = IdleCall
    BY DEF ProviderInit
  <2> QED
    BY <2>1, IdleCallTyped DEF AnswersAreOutcomes
<1>2. TypeOK /\ ProviderTypeOK /\ AnswersAreOutcomes /\ [ProviderNext]_providerVars
        /\ [TerminalStep]_vars => AnswersAreOutcomes'
  BY OutcomesInductive
<1>3. AnswersAreOutcomes /\ SealedIsPublished /\ CanceledHasNoTask => AnswersHold
  BY DEF AnswersAreOutcomes, SealedIsPublished, CanceledHasNoTask, AnswersHold
<1>4. ProviderSpec => [][TerminalStep]_vars
  BY ProviderImplementsService, TerminalStays, PTL DEF TerminalIsFinal, TerminalStep
<1>5. ProviderSpec => []AnswersAreOutcomes
  BY <1>1, <1>2, <1>4, ProviderTypeCorrect, PTL DEF ProviderSpec
<1>6. ProviderSpec => [](SealedIsPublished /\ CanceledHasNoTask)
  BY ProviderImplementsService, SealsArePublished, CanceledIsIdle, PTL
<1> QED
  BY <1>3, <1>5, <1>6, PTL
=============================================================================
