------------------------- MODULE RoleAttemptsProofs -------------------------
(***************************************************************************)
(* Proofs about RoleAttempts for every set of attempts, Roles, invocations, *)
(* admissions and payloads, every request budget and every bound.          *)
(***************************************************************************)
EXTENDS RoleAttempts, FiniteSetTheorems, TLAPS

-----------------------------------------------------------------------------
(* Type correctness. *)

\* The revision the next commit gives the Assessment.
LEMMA NextTyped ==
    ASSUME TypeOK
    PROVE  /\ assessment \in AssessmentRecords
           /\ assessment.revision \in Nat
           /\ NextRevision = assessment.revision + 1
           /\ NextRevision \in Nat
<1>1. assessment \in AssessmentRecords
  BY DEF TypeOK
<1> QED
  BY <1>1 DEF AssessmentRecords, NextRevision

\* What every commit of a role operation does to the Assessment.
LEMMA AdvanceTyped ==
    ASSUME TypeOK, Advance
    PROVE  /\ assessment' \in AssessmentRecords
           /\ resumed \subseteq 1 .. assessment'.revision
           /\ NextRevision \in Nat
<1>1. assessment' \in AssessmentRecords /\ assessment'.revision = NextRevision
  BY NextTyped DEF Advance, AssessmentRecords
<1>2. resumed \subseteq 1 .. assessment.revision
  BY DEF TypeOK
<1> QED
  BY <1>1, <1>2, NextTyped

LEMMA EndedTyped ==
    ASSUME TypeOK, NEW x \in Attempts, NEW s \in {"COMPLETED", "FAILED"}
    PROVE  /\ Ended(x, s) \in [Attempts -> AttemptRecords]
           /\ [card EXCEPT ![x] = s] \in [Attempts -> LifecycleStates]
           /\ \A y \in Attempts : Ended(x, s)[y].state = "ABSENT" =>
                  attempt[y].state = "ABSENT"
<1>1. NextRevision \in Nat
  BY NextTyped
<1>2. attempt[x] \in AttemptRecords
  BY DEF TypeOK
<1>3. [attempt[x] EXCEPT !.state = s, !.ended = NextRevision] \in AttemptRecords
  BY <1>1, <1>2 DEF AttemptRecords, LifecycleStates
<1>4. Ended(x, s) = [attempt EXCEPT ![x] = [attempt[x] EXCEPT !.state = s,
                                                              !.ended = NextRevision]]
  BY <1>2 DEF Ended, TypeOK, AttemptRecords
<1> QED
  BY <1>2, <1>3, <1>4 DEF TypeOK, LifecycleStates, AttemptRecords

LEMMA CancelRunningTyped ==
    ASSUME TypeOK, CancelRunning
    PROVE  /\ attempt' \in [Attempts -> AttemptRecords]
           /\ card' \in [Attempts -> LifecycleStates]
           /\ \A y \in Attempts : attempt'[y].state = "ABSENT" =>
                  attempt[y].state = "ABSENT"
<1>1. NextRevision \in Nat
  BY NextTyped
<1>2. \A x \in Attempts : [attempt[x] EXCEPT !.state = "CANCELED", !.ended = NextRevision]
          \in AttemptRecords
  <2>1. \A x \in Attempts : attempt[x] \in AttemptRecords
    BY DEF TypeOK
  <2> QED
    BY <1>1, <2>1 DEF AttemptRecords, LifecycleStates
<1>3. \A x \in Attempts :
        /\ attempt[x] \in AttemptRecords
        /\ \/ attempt'[x] = [attempt[x] EXCEPT !.state = "CANCELED", !.ended = NextRevision]
           \/ attempt'[x] = attempt[x]
        /\ card'[x] \in {"CANCELED", card[x]}
  BY DEF CancelRunning, TypeOK
<1>4. attempt' \in [Attempts -> AttemptRecords]
  <2>1. \A x \in Attempts : attempt'[x] \in AttemptRecords
    BY <1>2, <1>3
  <2> QED
    BY <2>1 DEF CancelRunning
<1>5. card' \in [Attempts -> LifecycleStates]
  BY <1>3 DEF CancelRunning, TypeOK, LifecycleStates
<1>6. ASSUME NEW y \in Attempts, attempt'[y].state = "ABSENT"
      PROVE  attempt[y].state = "ABSENT"
  <2>1. [attempt[y] EXCEPT !.state = "CANCELED", !.ended = NextRevision].state = "CANCELED"
    BY <1>3 DEF AttemptRecords
  <2> QED
    BY <1>3, <1>6, <2>1
<1> QED
  BY <1>4, <1>5, <1>6

LEMMA InitTyped == Init => TypeOK
BY LimitAssumption, NoneAssumption
   DEF Init, TypeOK, AssessmentRecords, AttemptRecords, AbsentAttempt, States,
       LifecycleStates, Linked

\* The commands leave the output alone, and none makes an attempt absent.
LEMMA ServiceTyped ==
    ASSUME TypeOK, ServiceOperation
    PROVE  TypeOK'
<1>1. /\ assessment \in AssessmentRecords
      /\ assessment.revision \in Nat
      /\ NextRevision = assessment.revision + 1
      /\ NextRevision \in Nat
  BY NextTyped
<1>2. /\ assessment' \in AssessmentRecords
      /\ assessment'.revision = NextRevision
  <2>1. CASE BeginAssessment
    BY <1>1, <2>1 DEF BeginAssessment, AssessmentRecords, States
  <2>2. CASE SealAssessment
    BY <1>1, <2>2 DEF SealAssessment, AssessmentRecords, States
  <2>3. CASE OpenRiskDecisionWindow
    BY <1>1, <2>3 DEF OpenRiskDecisionWindow, AssessmentRecords, States
  <2>4. ASSUME NEW w \in {"OPEN", "RESOLVED"}, RecordRiskDecision(w)
        PROVE  assessment' \in AssessmentRecords /\ assessment'.revision = NextRevision
    BY <1>1, <2>4 DEF RecordRiskDecision, AssessmentRecords, States
  <2>5. CASE Block
    BY <1>1, <2>5 DEF Block, AssessmentRecords, States
  <2>6. CASE ResumeAssessment
    BY <1>1, <2>6 DEF ResumeAssessment, AssessmentRecords, States
  <2>7. CASE RequestCancellation
    BY <1>1, <2>7 DEF RequestCancellation, AssessmentRecords, States
  <2>8. CASE CompleteCancellation
    BY <1>1, <2>8 DEF CompleteCancellation, AssessmentRecords, States
  <2> QED
    BY <2>1, <2>2, <2>3, <2>4, <2>5, <2>6, <2>7, <2>8
       DEF ServiceOperation, BlockAssessment, RecoverInterrupted
<1>3. begun' \in Nat /\ resumed' \subseteq resumed \cup {NextRevision}
  BY <1>1 DEF TypeOK, ServiceOperation, BeginAssessment, SealAssessment,
     OpenRiskDecisionWindow, RecordRiskDecision, Block, BlockAssessment,
     RecoverInterrupted, ResumeAssessment, RequestCancellation, CompleteCancellation, service
<1>4. resumed' \subseteq 1 .. assessment'.revision
  BY <1>1, <1>2, <1>3 DEF TypeOK
<1>5. UNCHANGED output
  BY DEF ServiceOperation, BeginAssessment, SealAssessment, OpenRiskDecisionWindow,
     RecordRiskDecision, Block, BlockAssessment, RecoverInterrupted, ResumeAssessment,
     RequestCancellation, CompleteCancellation, roles, output
<1>6. CancelRunning \/ UNCHANGED <<attempt, card>>
  BY DEF ServiceOperation, BeginAssessment, SealAssessment, OpenRiskDecisionWindow,
     RecordRiskDecision, Block, BlockAssessment, RecoverInterrupted, ResumeAssessment,
     RequestCancellation, CompleteCancellation, roles
<1>7. /\ attempt' \in [Attempts -> AttemptRecords]
      /\ card' \in [Attempts -> LifecycleStates]
      /\ \A y \in Attempts : attempt'[y].state = "ABSENT" => attempt[y].state = "ABSENT"
  BY <1>6, CancelRunningTyped DEF TypeOK
<1> QED
  BY <1>2, <1>3, <1>4, <1>5, <1>7 DEF TypeOK, output, Linked

LEMMA StartTyped ==
    ASSUME TypeOK, NEW x \in Attempts, NEW r \in Roles, NEW p \in Attempts \cup {None},
           NEW plan \in Plans, StartRoleAttempt(x, r, p, plan)
    PROVE  TypeOK'
<1>1. Advance /\ UNCHANGED <<service, output>>
  BY DEF StartRoleAttempt
<1>2. /\ plan[1] \in Invocations \cup {None}
      /\ plan[2] \in Invocations \cup {None}
  BY DEF Plans
<1>3. Started(r, p, plan) \in AttemptRecords /\ Started(r, p, plan).state = "RUNNING"
  BY <1>2, NextTyped DEF Started, AttemptRecords, LifecycleStates
<1>4. /\ attempt' = [attempt EXCEPT ![x] = Started(r, p, plan)]
      /\ card' = [card EXCEPT ![x] = "RUNNING"]
  BY DEF StartRoleAttempt
<1>5. /\ attempt' \in [Attempts -> AttemptRecords]
      /\ card' \in [Attempts -> LifecycleStates]
      /\ \A y \in Attempts : attempt'[y].state = "ABSENT" => attempt[y].state = "ABSENT"
  BY <1>3, <1>4 DEF TypeOK, LifecycleStates
<1> QED
  BY <1>1, <1>5, AdvanceTyped DEF TypeOK, service, output, Linked

LEMMA LinkTyped ==
    ASSUME TypeOK, NEW x \in Attempts, NEW i \in Invocations,
           LinkModelInvocationEvidence(x, i)
    PROVE  TypeOK'
<1>1. /\ Advance
      /\ attempt[x].state = "RUNNING"
      /\ link' = [link EXCEPT ![i] = x]
      /\ UNCHANGED <<service, attempt, card, repair, contribution, admission>>
  BY DEF LinkModelInvocationEvidence, Accepts
<1>2. \A y \in Attempts : y # x => Linked(y)' \subseteq Linked(y)
  BY <1>1 DEF TypeOK, Linked
<1> QED
  BY <1>1, <1>2, AdvanceTyped DEF TypeOK, service

LEMMA RepairTyped ==
    ASSUME TypeOK, NEW x \in Attempts, NEW p \in Payloads,
           AdmitRoleOutputFormatRepair(x, p)
    PROVE  TypeOK'
<1>1. /\ Advance
      /\ repair' = [repair EXCEPT ![x] = Repaired(x, p)]
      /\ UNCHANGED <<service, attempt, card, link, contribution, admission>>
  BY DEF AdmitRoleOutputFormatRepair
<1>2. Repaired(x, p) \in Contributions
  BY DEF AdmitRoleOutputFormatRepair, Repaired, Contributions, Linked
<1> QED
  BY <1>1, <1>2, AdvanceTyped DEF TypeOK, service, Linked

LEMMA ContributionTyped ==
    ASSUME TypeOK, NEW x \in Attempts, NEW c \in Contributions,
           AdmitRoleContribution(x, c)
    PROVE  TypeOK'
<1>1. /\ Advance
      /\ contribution' = [contribution EXCEPT ![x] = c]
      /\ UNCHANGED <<service, attempt, card, link, repair, admission>>
      /\ Cardinality(c.uses) <= RequestLimit
  BY DEF AdmitRoleContribution, WithinBudget
<1> QED
  BY <1>1, AdvanceTyped DEF TypeOK, service, Linked

LEMMA CandidatesTyped ==
    ASSUME TypeOK, NEW x \in Attempts, NEW n \in Admissions,
           NEW state \in {"ADMITTED", "REJECTED"}, AdmitRoleCandidates(x, n, state)
    PROVE  TypeOK'
<1>1. /\ Advance
      /\ admission' = [admission EXCEPT ![n] = [of |-> x, state |-> state]]
      /\ UNCHANGED <<service, attempt, card, link, repair, contribution>>
  BY DEF AdmitRoleCandidates
<1> QED
  BY <1>1, AdvanceTyped DEF TypeOK, service, Linked, AdmissionRecords

LEMMA CompleteTyped ==
    ASSUME TypeOK, NEW x \in Attempts, CompleteRoleAttempt(x)
    PROVE  TypeOK'
<1>1. /\ Advance
      /\ attempt' = Ended(x, "COMPLETED")
      /\ card' = [card EXCEPT ![x] = "COMPLETED"]
      /\ UNCHANGED <<service, output>>
  BY DEF CompleteRoleAttempt
<1> QED
  BY <1>1, AdvanceTyped, EndedTyped DEF TypeOK, service, output, Linked

LEMMA FailTyped ==
    ASSUME TypeOK, NEW x \in Attempts, FailRoleAttempt(x)
    PROVE  TypeOK'
<1>1. /\ assessment' = [assessment EXCEPT !.revision = NextRevision,
                                          !.state = "BLOCKED", !.blocker = x]
      /\ attempt' = Ended(x, "FAILED")
      /\ card' = [card EXCEPT ![x] = "FAILED"]
      /\ begun' = 0
      /\ UNCHANGED <<resumed, output>>
  BY DEF FailRoleAttempt
<1>2. assessment' \in AssessmentRecords /\ assessment'.revision = NextRevision
  BY <1>1, NextTyped DEF AssessmentRecords, States
<1>3. resumed \subseteq 1 .. assessment.revision
  BY DEF TypeOK
<1>4. resumed' \subseteq 1 .. assessment'.revision
  BY <1>1, <1>2, <1>3, NextTyped
<1> QED
  BY <1>1, <1>2, <1>4, EndedTyped DEF TypeOK, output, Linked

\* Every variable of the role operations keeps its type, no contribution exceeds
\* the request budget of its attempt and no attempt that never started has
\* output.
THEOREM TypeCorrect == Spec => []TypeOK
<1>1. TypeOK /\ [Next]_vars => TypeOK'
  <2> SUFFICES ASSUME TypeOK, [Next]_vars
               PROVE  TypeOK'
    OBVIOUS
  <2>1. CASE ServiceOperation
    BY <2>1, ServiceTyped
  <2>2. ASSUME NEW x \in Attempts, RoleOperation(x)
        PROVE  TypeOK'
    BY <2>2, StartTyped, LinkTyped, RepairTyped, ContributionTyped, CandidatesTyped,
       CompleteTyped, FailTyped DEF RoleOperation
  <2>3. CASE UNCHANGED vars
    BY <2>3 DEF vars, TypeOK, Linked
  <2> QED
    BY <2>1, <2>2, <2>3 DEF Next
<1> QED
  BY <1>1, InitTyped, PTL DEF Spec

-----------------------------------------------------------------------------
(* What the steps do to the attempts and to their output. *)

LEMMA ServiceKeepsOutput ==
    ASSUME ServiceOperation
    PROVE  /\ UNCHANGED output
           /\ CompleteCancellation \/ UNCHANGED <<attempt, card>>
<1>1. UNCHANGED output
  BY DEF ServiceOperation, BeginAssessment, SealAssessment, OpenRiskDecisionWindow,
     RecordRiskDecision, Block, BlockAssessment, RecoverInterrupted, ResumeAssessment,
     RequestCancellation, CompleteCancellation, roles, output
<1>2. CompleteCancellation \/ UNCHANGED <<attempt, card>>
  BY DEF ServiceOperation, BeginAssessment, SealAssessment, OpenRiskDecisionWindow,
     RecordRiskDecision, Block, BlockAssessment, RecoverInterrupted, ResumeAssessment,
     RequestCancellation, roles
<1> QED
  BY <1>1, <1>2

\* A command changes an attempt only by canceling it with the Assessment.
LEMMA ServiceCancels ==
    ASSUME TypeOK, ServiceOperation, NEW x \in Attempts
    PROVE  \/ attempt'[x] = attempt[x]
           \/ /\ CompleteCancellation
              /\ attempt[x].state = "RUNNING"
              /\ attempt'[x] = [attempt[x] EXCEPT !.state = "CANCELED",
                                                  !.ended = NextRevision]
<1>1. CASE CompleteCancellation
  BY <1>1 DEF CompleteCancellation, CancelRunning, Running
<1> QED
  BY <1>1, ServiceKeepsOutput

\* Completing or failing an attempt changes its state and its end, of no other.
LEMMA EndedFields ==
    ASSUME TypeOK, NEW x \in Attempts, NEW s \in LifecycleStates,
           attempt' = Ended(x, s)
    PROVE  /\ attempt'[x] = [attempt[x] EXCEPT !.state = s, !.ended = NextRevision]
           /\ \A y \in Attempts \ {x} : attempt'[y] = attempt[y]
<1>1. attempt \in [Attempts -> AttemptRecords] /\ attempt[x] \in AttemptRecords
  BY DEF TypeOK
<1> QED
  BY <1>1 DEF Ended, AttemptRecords

-----------------------------------------------------------------------------
(* Output is closed. *)

LEMMA ClosedByService ==
    ASSUME TypeOK, OutputIsClosed, ServiceOperation
    PROVE  OutputIsClosed'
<1>1. ASSUME NEW x \in Attempts
      PROVE  attempt'[x].repairing = attempt[x].repairing
  <2>1. attempt[x] \in AttemptRecords
    BY DEF TypeOK
  <2> QED
    BY <2>1, ServiceCancels DEF AttemptRecords
<1> QED
  BY <1>1, ServiceKeepsOutput DEF OutputIsClosed, output, Linked

LEMMA ClosedByStart ==
    ASSUME TypeOK, OutputIsClosed, NEW x \in Attempts, NEW r \in Roles,
           NEW p \in Attempts \cup {None}, NEW plan \in Plans,
           StartRoleAttempt(x, r, p, plan)
    PROVE  OutputIsClosed'
<1>1. /\ attempt[x].state = "ABSENT"
      /\ attempt' = [attempt EXCEPT ![x] = Started(r, p, plan)]
      /\ UNCHANGED output
  BY DEF StartRoleAttempt
<1>2. Linked(x) = {}
  BY <1>1 DEF TypeOK
<1>3. \A y \in Attempts \ {x} : attempt'[y] = attempt[y]
  BY <1>1 DEF TypeOK
<1>4. \A y \in Attempts : Linked(y)' = Linked(y)
  BY <1>1 DEF output, Linked
<1> QED
  BY <1>1, <1>2, <1>3, <1>4 DEF OutputIsClosed, output

\* Evidence is linked only while there is no contribution it could escape.
LEMMA ClosedByLink ==
    ASSUME TypeOK, OutputIsClosed, NEW x \in Attempts, NEW i \in Invocations,
           LinkModelInvocationEvidence(x, i)
    PROVE  OutputIsClosed'
<1>1. /\ link[i] = None
      /\ contribution[x] = None
      /\ link' = [link EXCEPT ![i] = x]
      /\ UNCHANGED <<attempt, repair, contribution>>
  BY DEF LinkModelInvocationEvidence, Extensible
<1>2. \A y \in Attempts \ {x} : Linked(y)' = Linked(y)
  BY <1>1, NoneAssumption DEF TypeOK, Linked
<1> QED
  BY <1>1, <1>2 DEF OutputIsClosed

\* A repair cannot come after a contribution: both its invocations are linked
\* then, and a contribution that uses the repair invocation is the repair.
LEMMA ClosedByRepair ==
    ASSUME TypeOK, OutputIsClosed, NEW x \in Attempts, NEW p \in Payloads,
           AdmitRoleOutputFormatRepair(x, p)
    PROVE  OutputIsClosed'
<1>1. /\ repair[x] = None
      /\ attempt[x].repairing \in Linked(x)
      /\ repair' = [repair EXCEPT ![x] = Repaired(x, p)]
      /\ UNCHANGED <<attempt, link, contribution>>
  BY DEF AdmitRoleOutputFormatRepair, Repaired
<1>2. contribution[x] = None
  BY <1>1 DEF OutputIsClosed
<1>3. \A y \in Attempts \ {x} : repair'[y] = repair[y]
  BY <1>1 DEF TypeOK
<1> QED
  BY <1>1, <1>2, <1>3 DEF OutputIsClosed, Linked

LEMMA ClosedByContribution ==
    ASSUME TypeOK, OutputIsClosed, NEW x \in Attempts, NEW c \in Contributions,
           AdmitRoleContribution(x, c)
    PROVE  OutputIsClosed'
<1>1. /\ ClosesLineage(x, c)
      /\ contribution' = [contribution EXCEPT ![x] = c]
      /\ UNCHANGED <<attempt, link, repair>>
  BY DEF AdmitRoleContribution
<1>2. /\ contribution'[x] = c
      /\ \A y \in Attempts \ {x} : contribution'[y] = contribution[y]
  BY <1>1 DEF TypeOK
<1> QED
  BY <1>1, <1>2 DEF OutputIsClosed, ClosesLineage, Linked

LEMMA ClosedByEnding ==
    ASSUME TypeOK, OutputIsClosed, NEW x \in Attempts,
           NEW s \in {"COMPLETED", "FAILED"}, attempt' = Ended(x, s), UNCHANGED output
    PROVE  OutputIsClosed'
<1>1. \A y \in Attempts : attempt'[y].repairing = attempt[y].repairing
  <2>1. s \in LifecycleStates /\ attempt[x] \in AttemptRecords
    BY DEF TypeOK, LifecycleStates
  <2>2. /\ attempt'[x] = [attempt[x] EXCEPT !.state = s, !.ended = NextRevision]
        /\ \A y \in Attempts \ {x} : attempt'[y] = attempt[y]
    BY <2>1, EndedFields
  <2>3. attempt'[x].repairing = attempt[x].repairing
    BY <2>1, <2>2 DEF AttemptRecords
  <2> QED
    BY <2>2, <2>3
<1> QED
  BY <1>1 DEF OutputIsClosed, output, Linked

\* An admitted contribution accounts for every invocation ever linked to its
\* attempt, and a repair and a contribution of one attempt are the same.
THEOREM OutputStaysClosed == Spec => []OutputIsClosed
<1>1. Init => OutputIsClosed
  BY DEF Init, OutputIsClosed
<1>2. TypeOK /\ OutputIsClosed /\ [Next]_vars => OutputIsClosed'
  <2> SUFFICES ASSUME TypeOK, OutputIsClosed, [Next]_vars
               PROVE  OutputIsClosed'
    OBVIOUS
  <2>1. CASE ServiceOperation
    BY <2>1, ClosedByService
  <2>2. ASSUME NEW x \in Attempts, RoleOperation(x)
        PROVE  OutputIsClosed'
    <3>1. ASSUME NEW n \in Admissions, NEW state, AdmitRoleCandidates(x, n, state)
          PROVE  OutputIsClosed'
      BY <3>1 DEF AdmitRoleCandidates, OutputIsClosed, Linked
    <3>2. CASE CompleteRoleAttempt(x)
      BY <3>2, ClosedByEnding DEF CompleteRoleAttempt
    <3>3. CASE FailRoleAttempt(x)
      BY <3>3, ClosedByEnding DEF FailRoleAttempt
    <3> QED
      BY <2>2, <3>1, <3>2, <3>3, ClosedByStart, ClosedByLink, ClosedByRepair,
         ClosedByContribution DEF RoleOperation
  <2>3. CASE UNCHANGED vars
    BY <2>3 DEF vars, OutputIsClosed, Linked
  <2> QED
    BY <2>1, <2>2, <2>3 DEF Next
<1> QED
  BY <1>1, <1>2, TypeCorrect, PTL DEF Spec

-----------------------------------------------------------------------------
(* Ended attempts. *)

LEMMA RoleKeepsEnded ==
    ASSUME TypeOK, NEW x \in Attempts, RoleOperation(x),
           NEW y \in Attempts, attempt[y].state \notin {"ABSENT", "RUNNING"}
    PROVE  /\ attempt'[y] = attempt[y]
           /\ Linked(y)' = Linked(y)
           /\ repair'[y] = repair[y]
           /\ contribution'[y] = contribution[y]
           /\ \A n \in Admissions : admission'[n] # admission[n] => admission'[n].of # y
<1>1. ASSUME NEW r \in Roles, NEW p \in Attempts \cup {None}, NEW plan \in Plans,
             StartRoleAttempt(x, r, p, plan)
      PROVE  attempt'[y] = attempt[y] /\ UNCHANGED output
  BY <1>1 DEF StartRoleAttempt, TypeOK
<1>2. ASSUME NEW i \in Invocations, LinkModelInvocationEvidence(x, i)
      PROVE  /\ UNCHANGED <<attempt, repair, contribution, admission>>
             /\ Linked(y)' = Linked(y)
  BY <1>2, NoneAssumption DEF LinkModelInvocationEvidence, Accepts, TypeOK, Linked
<1>3. ASSUME NEW p \in Payloads, AdmitRoleOutputFormatRepair(x, p)
      PROVE  UNCHANGED <<attempt, link, contribution, admission>> /\ repair'[y] = repair[y]
  BY <1>3 DEF AdmitRoleOutputFormatRepair, Accepts, TypeOK
<1>4. ASSUME NEW c \in Contributions, AdmitRoleContribution(x, c)
      PROVE  /\ UNCHANGED <<attempt, link, repair, admission>>
             /\ contribution'[y] = contribution[y]
  BY <1>4 DEF AdmitRoleContribution, Accepts, TypeOK
<1>5. ASSUME NEW n \in Admissions, NEW state \in {"ADMITTED", "REJECTED"},
             AdmitRoleCandidates(x, n, state)
      PROVE  /\ UNCHANGED <<attempt, link, repair, contribution>>
             /\ \A m \in Admissions :
                   admission'[m] # admission[m] => admission'[m].of # y
  BY <1>5 DEF AdmitRoleCandidates, Accepts, TypeOK
<1>6. CASE CompleteRoleAttempt(x)
  BY <1>6, EndedFields DEF CompleteRoleAttempt, Accepts, LifecycleStates, output, Linked
<1>7. CASE FailRoleAttempt(x)
  BY <1>7, EndedFields DEF FailRoleAttempt, Accepts, LifecycleStates, output, Linked
<1> QED
  BY <1>1, <1>2, <1>3, <1>4, <1>5, <1>6, <1>7 DEF RoleOperation, output, Linked

\* What an attempt was and what was admitted for it never changes once it ended.
THEOREM EndedAttemptsStay == Spec => EndedIsFinal
<1> DEFINE Stays(x) ==
        attempt[x].state \notin {"ABSENT", "RUNNING"} =>
           /\ attempt'[x] = attempt[x]
           /\ Linked(x)' = Linked(x)
           /\ repair'[x] = repair[x]
           /\ contribution'[x] = contribution[x]
           /\ \A n \in Admissions :
                  admission'[n] # admission[n] => admission'[n].of # x
<1>1. TypeOK /\ [Next]_vars => [\A x \in Attempts : Stays(x)]_vars
  <2> SUFFICES ASSUME TypeOK, Next, NEW x \in Attempts
               PROVE  Stays(x)
    OBVIOUS
  <2>1. CASE ServiceOperation
    BY <2>1, ServiceCancels, ServiceKeepsOutput DEF output, Linked
  <2>2. ASSUME NEW y \in Attempts, RoleOperation(y)
        PROVE  Stays(x)
    BY <2>2, RoleKeepsEnded
  <2> QED
    BY <2>1, <2>2 DEF Next
<1> QED
  BY <1>1, TypeCorrect, PTL DEF Spec, EndedIsFinal

-----------------------------------------------------------------------------
(* Accepted cancellations. *)

\* Once a cancellation is accepted nothing is admitted for any attempt, and the
\* commit that cancels the Assessment leaves no attempt running.
THEOREM CancellationEndsRoles == Spec => CancellationStopsRoles
<1> DEFINE Stopped ==
        /\ UNCHANGED output
        /\ \A x \in Attempts : attempt'[x] # attempt[x] =>
               /\ attempt[x].state = "RUNNING"
               /\ attempt'[x].state = "CANCELED"
               /\ assessment'.state = "CANCELED"
        /\ assessment'.state = "CANCELED" =>
               \A x \in Attempts : attempt'[x].state # "RUNNING"
<1>1. ASSUME TypeOK, Next, assessment.pendingCancellation # 0
      PROVE  Stopped
  <2>1. ServiceOperation
    BY <1>1 DEF Next, RoleOperation, StartRoleAttempt, LinkModelInvocationEvidence,
       AdmitRoleOutputFormatRepair, AdmitRoleContribution, AdmitRoleCandidates,
       CompleteRoleAttempt, FailRoleAttempt, Accepts, Open
  <2>2. CompleteCancellation
    BY <1>1, <2>1 DEF ServiceOperation, BeginAssessment, SealAssessment,
       OpenRiskDecisionWindow, RecordRiskDecision, BlockAssessment, Evaluating,
       ResumeAssessment, RequestCancellation, RecoverInterrupted
  <2>3. assessment'.state = "CANCELED"
    BY <1>1, <2>2, NextTyped DEF CompleteCancellation, AssessmentRecords
  <2>4. ASSUME NEW x \in Attempts
        PROVE  /\ attempt'[x] # attempt[x] =>
                     attempt[x].state = "RUNNING" /\ attempt'[x].state = "CANCELED"
               /\ attempt'[x].state # "RUNNING"
    <3>1. attempt[x] \in AttemptRecords
      BY <1>1 DEF TypeOK
    <3> QED
      BY <2>2, <3>1 DEF CompleteCancellation, CancelRunning, Running, AttemptRecords
  <2> QED
    BY <2>1, <2>3, <2>4, ServiceKeepsOutput
<1>2. TypeOK /\ [Next]_vars =>
          [assessment.pendingCancellation # 0 => Stopped]_vars
  BY <1>1
<1> QED
  BY <1>2, TypeCorrect, PTL DEF Spec, CancellationStopsRoles

-----------------------------------------------------------------------------
(* Failures and retries. *)

\* No attempt starts or ends later than the Assessment's revision, only an
\* Assessment that is not evaluated has a window or a blocker, not both, and an
\* attempt is only canceled with its Assessment.
Settled ==
    /\ \A x \in Attempts : /\ attempt[x].started <= assessment.revision
                            /\ attempt[x].ended <= assessment.revision
    /\ assessment.state \in {"CREATED", "RUNNING"} =>
           assessment.window = "null" /\ assessment.blocker = None
    /\ assessment.window # "null" => assessment.blocker = None
    /\ \A x \in Attempts : attempt[x].state = "CANCELED" => assessment.state = "CANCELED"

\* This step ends x.
Ends(x) ==
    /\ attempt[x].state = "RUNNING"
    /\ attempt'[x].state \in {"COMPLETED", "FAILED", "CANCELED"}
    /\ attempt'[x].state = "FAILED" => FailRoleAttempt(x)
    /\ attempt'[x].state = "CANCELED" => CompleteCancellation
    /\ attempt'[x].ended = NextRevision
    /\ attempt'[x].started = attempt[x].started
    /\ attempt'[x].role = attempt[x].role
    /\ attempt'[x].parent = attempt[x].parent

Starts(x) ==
    \E r \in Roles, p \in Attempts \cup {None}, plan \in Plans :
        StartRoleAttempt(x, r, p, plan)

LEMMA EndsByCompletion ==
    ASSUME TypeOK, NEW x \in Attempts, CompleteRoleAttempt(x)
    PROVE  Ends(x) /\ \A y \in Attempts \ {x} : attempt'[y] = attempt[y]
<1>1. attempt[x] \in AttemptRecords /\ "COMPLETED" \in LifecycleStates
  BY DEF TypeOK, LifecycleStates
<1>2. /\ attempt'[x] = [attempt[x] EXCEPT !.state = "COMPLETED", !.ended = NextRevision]
      /\ \A y \in Attempts \ {x} : attempt'[y] = attempt[y]
  BY <1>1, EndedFields DEF CompleteRoleAttempt
<1>3. attempt[x].state = "RUNNING"
  BY DEF CompleteRoleAttempt, Accepts
<1>4. attempt'[x] = [attempt[x] EXCEPT !.state = "COMPLETED", !.ended = NextRevision]
  BY <1>2
<1>5. /\ attempt'[x].state = "COMPLETED"
      /\ attempt'[x].ended = NextRevision
      /\ attempt'[x].started = attempt[x].started
      /\ attempt'[x].role = attempt[x].role
      /\ attempt'[x].parent = attempt[x].parent
  BY <1>1, <1>4 DEF AttemptRecords
<1>6. Ends(x)
  BY <1>3, <1>5 DEF Ends
<1> QED
  BY <1>2, <1>6

LEMMA EndsByFailure ==
    ASSUME TypeOK, NEW x \in Attempts, FailRoleAttempt(x)
    PROVE  Ends(x) /\ \A y \in Attempts \ {x} : attempt'[y] = attempt[y]
<1>1. attempt[x] \in AttemptRecords /\ "FAILED" \in LifecycleStates
  BY DEF TypeOK, LifecycleStates
<1>2. /\ attempt'[x] = [attempt[x] EXCEPT !.state = "FAILED", !.ended = NextRevision]
      /\ \A y \in Attempts \ {x} : attempt'[y] = attempt[y]
  BY <1>1, EndedFields DEF FailRoleAttempt
<1>3. attempt[x].state = "RUNNING"
  BY DEF FailRoleAttempt, Accepts
<1>4. attempt'[x] = [attempt[x] EXCEPT !.state = "FAILED", !.ended = NextRevision]
  BY <1>2
<1>5. /\ attempt'[x].state = "FAILED"
      /\ attempt'[x].ended = NextRevision
      /\ attempt'[x].started = attempt[x].started
      /\ attempt'[x].role = attempt[x].role
      /\ attempt'[x].parent = attempt[x].parent
  BY <1>1, <1>4 DEF AttemptRecords
<1>6. Ends(x)
  BY <1>3, <1>5 DEF Ends
<1> QED
  BY <1>2, <1>6

LEMMA EndsByCommand ==
    ASSUME TypeOK, ServiceOperation, NEW x \in Attempts
    PROVE  attempt'[x] = attempt[x] \/ Ends(x)
<1>1. attempt[x] \in AttemptRecords
  BY DEF TypeOK
<1>2. CASE attempt'[x] # attempt[x]
  <2>1. /\ CompleteCancellation
        /\ attempt[x].state = "RUNNING"
        /\ attempt'[x] = [attempt[x] EXCEPT !.state = "CANCELED", !.ended = NextRevision]
    BY <1>2, ServiceCancels
  <2>2. /\ attempt'[x].state = "CANCELED"
        /\ attempt'[x].ended = NextRevision
        /\ attempt'[x].started = attempt[x].started
        /\ attempt'[x].role = attempt[x].role
        /\ attempt'[x].parent = attempt[x].parent
    BY <1>1, <2>1 DEF AttemptRecords
  <2> QED
    BY <2>1, <2>2 DEF Ends
<1> QED
  BY <1>2

\* A step starts one attempt, or each attempt stays as it is or ends.
LEMMA AttemptSteps ==
    ASSUME TypeOK, Next
    PROVE  \/ \E x \in Attempts : Starts(x)
           \/ \A x \in Attempts : attempt'[x] = attempt[x] \/ Ends(x)
<1>1. CASE ServiceOperation
  BY <1>1, EndsByCommand
<1>2. ASSUME NEW x \in Attempts, RoleOperation(x)
      PROVE  \/ Starts(x)
             \/ \A y \in Attempts : attempt'[y] = attempt[y] \/ Ends(y)
  <2>1. \/ Starts(x)
        \/ UNCHANGED attempt
        \/ CompleteRoleAttempt(x)
        \/ FailRoleAttempt(x)
    BY <1>2 DEF RoleOperation, Starts, LinkModelInvocationEvidence,
       AdmitRoleOutputFormatRepair, AdmitRoleContribution, AdmitRoleCandidates
  <2> QED
    BY <2>1, EndsByCompletion, EndsByFailure
<1> QED
  BY <1>1, <1>2 DEF Next

LEMMA StartFields ==
    ASSUME TypeOK, NEW x \in Attempts, Starts(x)
    PROVE  /\ Open
           /\ UNCHANGED resumed
           /\ attempt[x].state = "ABSENT"
           /\ attempt'[x].state = "RUNNING"
           /\ attempt'[x].started = NextRevision
           /\ attempt'[x].ended = 0
           /\ Lineage(attempt'[x].role, attempt'[x].parent)
           /\ attempt'[x].parent \in Attempts \cup {None}
           /\ \A y \in Attempts \ {x} : attempt'[y] = attempt[y]
<1>1. PICK r \in Roles, p \in Attempts \cup {None}, plan \in Plans :
          StartRoleAttempt(x, r, p, plan)
  BY DEF Starts
<1>2. attempt' = [attempt EXCEPT ![x] = Started(r, p, plan)]
  BY <1>1 DEF StartRoleAttempt
<1>3. /\ attempt'[x] = Started(r, p, plan)
      /\ \A y \in Attempts \ {x} : attempt'[y] = attempt[y]
  BY <1>2 DEF TypeOK
<1> QED
  BY <1>1, <1>3 DEF StartRoleAttempt, Started, service

LEMMA EveryStepCommits ==
    ASSUME TypeOK, Next
    PROVE  /\ assessment.state \notin Terminal
           /\ assessment'.revision = NextRevision
           /\ resumed \subseteq resumed'
<1>1. CASE ServiceOperation
  <2>1. assessment.state \notin Terminal /\ resumed \subseteq resumed'
    BY <1>1 DEF ServiceOperation, BeginAssessment, SealAssessment,
       OpenRiskDecisionWindow, RecordRiskDecision, BlockAssessment, Block, Evaluating,
       ResumeAssessment, RequestCancellation, RecoverInterrupted, CompleteCancellation,
       Terminal, service
  <2>2. assessment'.revision = NextRevision
    BY <1>1, NextTyped DEF ServiceOperation, BeginAssessment, SealAssessment,
       OpenRiskDecisionWindow, RecordRiskDecision, BlockAssessment, Block,
       ResumeAssessment, RequestCancellation, RecoverInterrupted, CompleteCancellation,
       AssessmentRecords
  <2> QED
    BY <2>1, <2>2
<1>2. ASSUME NEW x \in Attempts, RoleOperation(x)
      PROVE  Open /\ (Advance \/ FailRoleAttempt(x)) /\ UNCHANGED resumed
  BY <1>2 DEF RoleOperation, StartRoleAttempt, LinkModelInvocationEvidence,
     AdmitRoleOutputFormatRepair, AdmitRoleContribution, AdmitRoleCandidates,
     CompleteRoleAttempt, FailRoleAttempt, Accepts, service
<1>3. ASSUME NEW x \in Attempts, Open, Advance \/ FailRoleAttempt(x)
      PROVE  assessment.state \notin Terminal /\ assessment'.revision = NextRevision
  BY <1>3, NextTyped DEF Open, Terminal, Advance, FailRoleAttempt, AssessmentRecords
<1> QED
  BY <1>1, <1>2, <1>3 DEF Next

LEMMA SettledInit == Init => Settled
BY DEF Init, Settled, AbsentAttempt

LEMMA SettledStep ==
    ASSUME TypeOK, Settled, Next
    PROVE  Settled'
<1>1. \A x \in Attempts : /\ attempt'[x].started <= assessment'.revision
                          /\ attempt'[x].ended <= assessment'.revision
  <2>1. TAKE x \in Attempts
  <2>2. /\ attempt[x].started \in Nat /\ attempt[x].ended \in Nat
        /\ attempt[x].started <= assessment.revision
        /\ attempt[x].ended <= assessment.revision
    <3>1. attempt[x] \in AttemptRecords
      BY DEF TypeOK
    <3> QED
      BY <3>1 DEF AttemptRecords, Settled
  <2>3. \/ attempt'[x] = attempt[x]
        \/ attempt'[x].started = NextRevision /\ attempt'[x].ended = 0
        \/ attempt'[x].started = attempt[x].started /\ attempt'[x].ended = NextRevision
    BY AttemptSteps, StartFields DEF Ends
  <2> QED
    BY <2>2, <2>3, EveryStepCommits, NextTyped
<1>2. /\ assessment'.state \in {"CREATED", "RUNNING"} =>
             assessment'.window = "null" /\ assessment'.blocker = None
      /\ assessment'.window # "null" => assessment'.blocker = None
  <2>1. CASE ServiceOperation
    BY <2>1, NextTyped DEF Settled, ServiceOperation, BeginAssessment, SealAssessment,
       OpenRiskDecisionWindow, RecordRiskDecision, BlockAssessment, Block, Evaluating,
       ResumeAssessment, RequestCancellation, RecoverInterrupted, CompleteCancellation,
       AssessmentRecords
  <2>2. ASSUME NEW x \in Attempts, RoleOperation(x)
        PROVE  Open /\ (Advance \/ FailRoleAttempt(x))
    BY <2>2 DEF RoleOperation, StartRoleAttempt, LinkModelInvocationEvidence,
       AdmitRoleOutputFormatRepair, AdmitRoleContribution, AdmitRoleCandidates,
       CompleteRoleAttempt, FailRoleAttempt, Accepts
  <2>3. ASSUME NEW x \in Attempts, Open, Advance \/ FailRoleAttempt(x)
        PROVE  /\ assessment'.state \in {"CREATED", "RUNNING"} =>
                      assessment'.window = "null" /\ assessment'.blocker = None
               /\ assessment'.window # "null" => assessment'.blocker = None
    BY <2>3, NextTyped DEF Settled, Open, Advance, FailRoleAttempt, AssessmentRecords
  <2> QED
    BY <2>1, <2>2, <2>3 DEF Next
<1>3. \A x \in Attempts : attempt'[x].state = "CANCELED" => assessment'.state = "CANCELED"
  <2>1. SUFFICES ASSUME NEW x \in Attempts, attempt'[x].state = "CANCELED"
                 PROVE  assessment'.state = "CANCELED"
    OBVIOUS
  <2>2. attempt[x].state # "CANCELED"
    BY EveryStepCommits DEF Settled, Terminal
  <2>3. CompleteCancellation
    BY <2>1, <2>2, AttemptSteps, StartFields DEF Ends
  <2> QED
    BY <2>3, NextTyped DEF CompleteCancellation, AssessmentRecords
<1> QED
  BY <1>1, <1>2, <1>3 DEF Settled

\* While the Assessment is not blocked by it, a failed attempt was resumed from.
LEMMA FailedWasResumed ==
    ASSUME TypeOK, Settled, FailureBlocksUntilResume,
           NEW x \in Attempts, attempt[x].state = "FAILED",
           assessment.state \in {"CREATED", "RUNNING"} \/ assessment.window # "null",
           assessment.state \notin Terminal
    PROVE  \E r \in resumed : attempt[x].ended < r
BY NoneAssumption DEF Settled, FailureBlocksUntilResume, Terminal

LEMMA FailureStep ==
    ASSUME TypeOK, Settled, FailureBlocksUntilResume, Next
    PROVE  FailureBlocksUntilResume'
<1>1. SUFFICES ASSUME NEW x \in Attempts, attempt'[x].state = "FAILED"
               PROVE  \/ /\ assessment'.state = "BLOCKED"
                         /\ assessment'.blocker = x
                         /\ Running' = {}
                      \/ \E r \in resumed' : attempt'[x].ended < r
                      \/ assessment'.state = "CANCELED"
  BY DEF FailureBlocksUntilResume
<1>2. CASE FailRoleAttempt(x)
  <2>1. assessment'.state = "BLOCKED" /\ assessment'.blocker = x
    BY <1>2, NextTyped DEF FailRoleAttempt, AssessmentRecords
  <2>2. Running \subseteq {x} /\ \A y \in Attempts \ {x} : attempt'[y] = attempt[y]
    BY <1>2, EndsByFailure DEF FailRoleAttempt, NoRunningPeer
  <2> QED
    BY <1>1, <2>1, <2>2 DEF Running
<1>3. CASE ~FailRoleAttempt(x)
  <2>1. attempt'[x] = attempt[x]
    BY <1>1, <1>3, AttemptSteps, StartFields DEF Ends
  <2>2. CASE \E r \in resumed : attempt[x].ended < r
    BY <2>1, <2>2, EveryStepCommits
  <2>3. CASE ~\E r \in resumed : attempt[x].ended < r
    <3>1. /\ assessment.state = "BLOCKED" /\ assessment.blocker = x
          /\ Running = {} /\ assessment.window = "null"
      BY <1>1, <2>1, <2>3, EveryStepCommits, FailedWasResumed
         DEF FailureBlocksUntilResume, Terminal
    <3>2. ResumeAssessment \/ RequestCancellation \/ CompleteCancellation
      BY <3>1 DEF Next, RoleOperation, StartRoleAttempt, LinkModelInvocationEvidence,
         AdmitRoleOutputFormatRepair, AdmitRoleContribution, AdmitRoleCandidates,
         CompleteRoleAttempt, FailRoleAttempt, Accepts, Open, ServiceOperation,
         BeginAssessment, SealAssessment, OpenRiskDecisionWindow, RecordRiskDecision,
         BlockAssessment, Evaluating, RecoverInterrupted
    <3>3. CASE ResumeAssessment
      <4>1. attempt[x].ended \in Nat /\ attempt[x].ended <= assessment.revision
        <5>1. attempt[x] \in AttemptRecords
          BY DEF TypeOK
        <5> QED
          BY <5>1 DEF AttemptRecords, Settled
      <4>2. NextRevision \in resumed'
        BY <3>3 DEF ResumeAssessment
      <4> QED
        BY <2>1, <4>1, <4>2, NextTyped
    <3>4. CASE RequestCancellation
      BY <3>1, <3>4, NextTyped DEF RequestCancellation, AssessmentRecords, roles, Running
    <3>5. CASE CompleteCancellation
      BY <3>5, NextTyped DEF CompleteCancellation, AssessmentRecords
    <3> QED
      BY <3>2, <3>3, <3>4, <3>5
  <2> QED
    BY <2>2, <2>3
<1> QED
  BY <1>2, <1>3

\* The condition of RetryFollowsResume on one attempt.
RetryIsFounded(x) ==
    IF attempt[x].parent = None
    THEN \A y \in Attempts :
             attempt[y].role = attempt[x].role /\ attempt[y].state \in Incomplete
                 => attempt[x].started < attempt[y].ended
    ELSE LET p == attempt[attempt[x].parent]
         IN  /\ p.role = attempt[x].role
             /\ p.state \in Incomplete
             /\ \E r \in resumed : p.ended < r /\ r < attempt[x].started

\* An attempt that only goes on or ends keeps its foundation: whatever ends now
\* ends after every start so far, and what had ended incomplete does not change.
LEMMA FoundationKept ==
    ASSUME TypeOK, Settled, RetryFollowsResume, Next,
           NEW x \in Attempts, attempt[x].state # "ABSENT",
           \A y \in Attempts : attempt[y].state # "ABSENT" =>
               attempt'[y] = attempt[y] \/ Ends(y),
           \A y \in Attempts : attempt[y].state = "ABSENT" =>
               attempt'[y].state \notin Incomplete
    PROVE  RetryIsFounded(x)'
<1>1. /\ attempt[x].started \in Nat
      /\ attempt[x].started <= assessment.revision
      /\ attempt[x].parent \in Attempts \cup {None}
  <2>1. attempt[x] \in AttemptRecords
    BY DEF TypeOK
  <2> QED
    BY <2>1 DEF AttemptRecords, Settled
<1>2. /\ attempt'[x].started = attempt[x].started
      /\ attempt'[x].role = attempt[x].role
      /\ attempt'[x].parent = attempt[x].parent
  BY DEF Ends
<1>3. RetryIsFounded(x)
  BY DEF RetryFollowsResume, RetryIsFounded
<1>4. CASE attempt[x].parent = None
  <2>1. ASSUME NEW y \in Attempts, attempt'[y].role = attempt[x].role,
               attempt'[y].state \in Incomplete
        PROVE  attempt[x].started < attempt'[y].ended
    <3>1. CASE attempt'[y] = attempt[y]
      BY <1>3, <1>4, <2>1, <3>1 DEF RetryIsFounded
    <3>2. CASE attempt'[y] # attempt[y]
      BY <1>1, <2>1, <3>2, NextTyped DEF Ends
    <3> QED
      BY <3>1, <3>2
  <2> QED
    BY <1>2, <1>4, <2>1 DEF RetryIsFounded
<1>5. CASE attempt[x].parent # None
  <2>1. attempt[x].parent \in Attempts /\ attempt[attempt[x].parent].state \in Incomplete
    BY <1>1, <1>3, <1>5 DEF RetryIsFounded
  <2>2. attempt'[attempt[x].parent] = attempt[attempt[x].parent]
    BY <2>1 DEF Ends, Incomplete
  <2> QED
    BY <1>2, <1>3, <1>5, <2>2, EveryStepCommits DEF RetryIsFounded
<1> QED
  BY <1>4, <1>5

LEMMA StartIsFounded ==
    ASSUME TypeOK, Settled, FailureBlocksUntilResume, NEW x \in Attempts, Starts(x)
    PROVE  RetryIsFounded(x)'
<1>1. \A y \in Attempts \ {x} : attempt'[y] = attempt[y]
  BY StartFields
<1>2. attempt'[x].state \notin Incomplete /\ attempt[x].state \notin Incomplete
  BY StartFields DEF Incomplete
<1>3. Lineage(attempt'[x].role, attempt'[x].parent)
  BY StartFields
<1>4. CASE attempt'[x].parent = None
  BY <1>1, <1>2, <1>3, <1>4 DEF Lineage, RetryIsFounded
<1>5. CASE attempt'[x].parent # None
  <2> DEFINE p == attempt'[x].parent
  <2>1. /\ p \in Attempts \ {x}
        /\ attempt[p].state \in Incomplete
        /\ attempt[p].role = attempt'[x].role
    BY <1>2, <1>3, <1>5, StartFields DEF Lineage
  <2>2. assessment.state = "RUNNING"
    BY StartFields DEF Open
  <2>3. attempt[p].state = "FAILED"
    BY <2>1, <2>2 DEF Incomplete, Settled
  <2>4. PICK r \in resumed : attempt[p].ended < r
    BY <2>1, <2>2, <2>3, FailedWasResumed DEF Terminal
  <2>5. r \in Nat /\ r < NextRevision
    <3>1. r \in 1 .. assessment.revision
      BY DEF TypeOK
    <3> QED
      BY <3>1, NextTyped
  <2>6. attempt'[p] = attempt[p]
    BY <1>1, <2>1
  <2>7. attempt'[x].started = NextRevision /\ resumed' = resumed
    BY StartFields
  <2> QED
    BY <1>5, <2>1, <2>4, <2>5, <2>6, <2>7 DEF RetryIsFounded
<1> QED
  BY <1>4, <1>5

LEMMA RetryStep ==
    ASSUME TypeOK, Settled, FailureBlocksUntilResume, RetryFollowsResume, Next
    PROVE  RetryFollowsResume'
<1>1. SUFFICES ASSUME NEW x \in Attempts, attempt'[x].state # "ABSENT"
               PROVE  RetryIsFounded(x)'
  BY DEF RetryFollowsResume, RetryIsFounded
<1>2. CASE Starts(x)
  BY <1>2, StartIsFounded
<1>3. CASE ~Starts(x)
  <2>1. /\ \A y \in Attempts : attempt[y].state # "ABSENT" =>
               attempt'[y] = attempt[y] \/ Ends(y)
        /\ \A y \in Attempts : attempt[y].state = "ABSENT" =>
               attempt'[y].state \notin Incomplete
    BY AttemptSteps, StartFields DEF Ends, Incomplete
  <2>2. attempt[x].state # "ABSENT"
    BY <1>1, <1>3, AttemptSteps, StartFields DEF Ends
  <2> QED
    BY <2>1, <2>2, FoundationKept
<1> QED
  BY <1>2, <1>3

LEMMA FailuresAndRetries ==
    Spec => [](Settled /\ FailureBlocksUntilResume /\ RetryFollowsResume)
<1> DEFINE IInv == Settled /\ FailureBlocksUntilResume /\ RetryFollowsResume
<1>1. Init => IInv
  BY SettledInit DEF Init, FailureBlocksUntilResume, RetryFollowsResume, AbsentAttempt
<1>2. TypeOK /\ IInv /\ Next => IInv'
  BY SettledStep, FailureStep, RetryStep
<1>3. TypeOK /\ IInv /\ UNCHANGED vars => IInv'
  BY DEF vars, Settled, FailureBlocksUntilResume, RetryFollowsResume, Running
<1>4. TypeOK /\ IInv /\ [Next]_vars => IInv'
  BY <1>2, <1>3
<1> QED
  BY <1>1, <1>4, TypeCorrect, PTL DEF Spec

\* The failure of an attempt keeps the Assessment blocked by it, with nothing
\* running, until an operator resumes or cancels it.
THEOREM FailuresBlock == Spec => []FailureBlocksUntilResume
BY FailuresAndRetries, PTL

\* An attempt that redoes failed work of its Role starts after a resume that
\* followed the failure; no attempt redoes any without naming it.
THEOREM RetriesAreResumed == Spec => []RetryFollowsResume
BY FailuresAndRetries, PTL

-----------------------------------------------------------------------------
(* Completed attempts. *)

Batch(x) == [of |-> x, state |-> "ADMITTED"]

\* What makes CompletedIsBacked inductive: a contribution has at most one
\* admitted batch, and a completed attempt has all it needs.
Backed ==
    /\ \A x \in Attempts : card[x] = attempt[x].state
    /\ \A x \in Attempts : \A m, n \in Admissions :
           admission[m] = Batch(x) /\ admission[n] = Batch(x) => m = n
    /\ \A x \in Attempts : attempt[x].state = "COMPLETED" =>
           contribution[x] # None /\ CandidatesSettled(x)

LEMMA BackedImplies == Backed => CompletedIsBacked
<1> SUFFICES ASSUME Backed, NEW x \in Attempts, attempt[x].state = "COMPLETED",
                    contribution[x].payload \in Bearing
             PROVE  Cardinality({n \in Admissions :
                        admission[n] = [of |-> x, state |-> "ADMITTED"]}) = 1
  BY DEF Backed, CompletedIsBacked
<1>1. PICK n \in Admissions : admission[n] = Batch(x)
  BY DEF Backed, CandidatesSettled, Admitted, Batch
<1>2. {m \in Admissions : admission[m] = [of |-> x, state |-> "ADMITTED"]} = {n}
  BY <1>1 DEF Backed, Batch
<1> QED
  BY <1>2, FS_Singleton

\* The commands and a start leave what a completed attempt rests on alone.
LEMMA BackedByAttempts ==
    ASSUME TypeOK, Backed, UNCHANGED output,
           \A x \in Attempts : card'[x] = attempt'[x].state,
           \A x \in Attempts : attempt'[x].state = "COMPLETED" =>
               \/ attempt[x].state = "COMPLETED"
               \/ contribution[x] # None /\ CandidatesSettled(x)
    PROVE  Backed'
BY DEF Backed, output, CandidatesSettled, Admitted

LEMMA BackedByCommand ==
    ASSUME TypeOK, Backed, ServiceOperation
    PROVE  Backed'
<1>1. UNCHANGED output
  BY ServiceKeepsOutput
<1>2. \A x \in Attempts : attempt[x] \in AttemptRecords
  BY DEF TypeOK
<1>3. \A x \in Attempts : attempt'[x].state = "COMPLETED" => attempt[x].state = "COMPLETED"
  BY <1>2, ServiceCancels DEF AttemptRecords
<1>4. \A x \in Attempts : card'[x] = attempt'[x].state
  <2>1. CASE CompleteCancellation
    BY <1>2, <2>1 DEF CompleteCancellation, CancelRunning, Running, Backed, AttemptRecords
  <2> QED
    BY <2>1, ServiceKeepsOutput DEF Backed
<1> QED
  BY <1>1, <1>3, <1>4, BackedByAttempts

LEMMA BackedByStart ==
    ASSUME TypeOK, Backed, NEW x \in Attempts, Starts(x)
    PROVE  Backed'
<1>1. UNCHANGED output /\ card' = [card EXCEPT ![x] = "RUNNING"]
  BY DEF Starts, StartRoleAttempt
<1>2. \A y \in Attempts : card'[y] = attempt'[y].state
  BY <1>1, StartFields DEF Backed, TypeOK
<1>3. \A y \in Attempts : attempt'[y].state = "COMPLETED" => attempt[y].state = "COMPLETED"
  BY StartFields
<1> QED
  BY <1>1, <1>2, <1>3, BackedByAttempts

LEMMA BackedByCompletion ==
    ASSUME TypeOK, Backed, NEW x \in Attempts, CompleteRoleAttempt(x)
    PROVE  Backed'
<1>1. /\ UNCHANGED output
      /\ card' = [card EXCEPT ![x] = "COMPLETED"]
      /\ contribution[x] # None /\ CandidatesSettled(x)
      /\ attempt' = Ended(x, "COMPLETED")
  BY DEF CompleteRoleAttempt
<1>2. /\ attempt'[x].state = "COMPLETED"
      /\ \A y \in Attempts \ {x} : attempt'[y] = attempt[y]
  BY <1>1, EndsByCompletion DEF TypeOK, AttemptRecords, Ended
<1>3. \A y \in Attempts : card'[y] = attempt'[y].state
  BY <1>1, <1>2 DEF Backed, TypeOK
<1> QED
  BY <1>1, <1>2, <1>3, BackedByAttempts

LEMMA BackedByFailure ==
    ASSUME TypeOK, Backed, NEW x \in Attempts, FailRoleAttempt(x)
    PROVE  Backed'
<1>1. /\ UNCHANGED output
      /\ card' = [card EXCEPT ![x] = "FAILED"]
      /\ attempt' = Ended(x, "FAILED")
  BY DEF FailRoleAttempt
<1>2. /\ attempt'[x].state = "FAILED"
      /\ \A y \in Attempts \ {x} : attempt'[y] = attempt[y]
  BY <1>1, EndsByFailure DEF TypeOK, AttemptRecords, Ended
<1>3. \A y \in Attempts : card'[y] = attempt'[y].state
  BY <1>1, <1>2 DEF Backed, TypeOK
<1> QED
  BY <1>1, <1>2, <1>3, BackedByAttempts

LEMMA BackedByContribution ==
    ASSUME TypeOK, Backed, NEW x \in Attempts, NEW c \in Contributions,
           AdmitRoleContribution(x, c)
    PROVE  Backed'
<1>1. /\ attempt[x].state = "RUNNING"
      /\ contribution' = [contribution EXCEPT ![x] = c]
      /\ UNCHANGED <<attempt, card, admission>>
  BY DEF AdmitRoleContribution, Accepts
<1>2. \A y \in Attempts \ {x} : contribution'[y] = contribution[y]
  BY <1>1 DEF TypeOK
<1> QED
  BY <1>1, <1>2 DEF Backed, CandidatesSettled, Admitted

\* A batch is admitted under a fresh identity, so that it displaces none, and
\* only for a contribution that has none.
LEMMA BackedByCandidates ==
    ASSUME TypeOK, Backed, NEW x \in Attempts, NEW n \in Admissions,
           NEW state \in {"ADMITTED", "REJECTED"}, AdmitRoleCandidates(x, n, state)
    PROVE  Backed'
<1>1. /\ attempt[x].state = "RUNNING"
      /\ admission[n] = None
      /\ ~Admitted(x)
      /\ admission' = [admission EXCEPT ![n] = [of |-> x, state |-> state]]
      /\ UNCHANGED <<attempt, card, contribution>>
  BY DEF AdmitRoleCandidates, Accepts
<1>2. /\ admission'[n] = [of |-> x, state |-> state]
      /\ \A m \in Admissions \ {n} : admission'[m] = admission[m]
  BY <1>1 DEF TypeOK
<1>3. \A y \in Attempts : Batch(y) # None
  BY ContentAssumption DEF Batch, AdmissionRecords
<1>4. \A y \in Attempts : Admitted(y) => Admitted(y)'
  BY <1>1, <1>2, <1>3 DEF Admitted, Batch
<1>5. \A m \in Admissions : admission[m] # Batch(x)
  BY <1>1 DEF Admitted, Batch
<1>6. \A y \in Attempts : admission'[n] = Batch(y) => y = x
  BY <1>2 DEF Batch
<1>7. ASSUME NEW y \in Attempts, NEW k \in Admissions, NEW m \in Admissions,
             admission'[k] = Batch(y), admission'[m] = Batch(y)
      PROVE  k = m
  BY <1>2, <1>5, <1>6, <1>7 DEF Backed
<1>8. \A y \in Attempts : attempt'[y].state = "COMPLETED" =>
          contribution'[y] # None /\ CandidatesSettled(y)'
  BY <1>1, <1>4 DEF Backed, CandidatesSettled
<1> QED
  BY <1>1, <1>7, <1>8 DEF Backed, Batch

\* A completed attempt has its contribution and the one batch of its candidates,
\* and the Role Cards say of every attempt what its own record says.
THEOREM CompletionIsBacked == Spec => []CompletedIsBacked
<1>1. Init => Backed
  BY ContentAssumption DEF Init, Backed, AbsentAttempt, Batch, AdmissionRecords
<1>2. TypeOK /\ Backed /\ Next => Backed'
  <2> SUFFICES ASSUME TypeOK, Backed, Next
               PROVE  Backed'
    OBVIOUS
  <2>1. CASE ServiceOperation
    BY <2>1, BackedByCommand
  <2>2. ASSUME NEW x \in Attempts, RoleOperation(x)
        PROVE  Backed'
    <3>1. CASE Starts(x)
      BY <3>1, BackedByStart
    <3>2. CASE UNCHANGED <<attempt, card, contribution, admission>>
      BY <3>2 DEF Backed, CandidatesSettled, Admitted
    <3> QED
      BY <2>2, <3>1, <3>2, BackedByContribution, BackedByCandidates,
         BackedByCompletion, BackedByFailure
         DEF RoleOperation, Starts, LinkModelInvocationEvidence,
             AdmitRoleOutputFormatRepair
  <2> QED
    BY <2>1, <2>2 DEF Next
<1>3. TypeOK /\ Backed /\ UNCHANGED vars => Backed'
  BY DEF vars, Backed, CandidatesSettled, Admitted
<1>4. TypeOK /\ Backed /\ [Next]_vars => Backed'
  BY <1>2, <1>3
<1> QED
  BY <1>1, <1>4, BackedImplies, TypeCorrect, PTL DEF Spec
-----------------------------------------------------------------------------
(* The lifecycle of the Assessment. *)

\* What does not touch the Assessment but for its revision shows nothing.
LEMMA HiddenFromLifecycle ==
    ASSUME assessment'.state = assessment.state,
           (assessment'.pendingCancellation # 0) = (assessment.pendingCancellation # 0)
    PROVE  UNCHANGED Lifecycle!lifecycle
BY DEF Lifecycle!lifecycle, Phase

\* The fields an Assessment has after an operation replaced some of them.
LEMMA AssessmentFields ==
    ASSUME TypeOK
    PROVE  /\ assessment.state \in States
           /\ assessment.pendingCancellation \in Nat
           /\ NextRevision \in Nat
           /\ NextRevision # 0
BY DEF TypeOK, AssessmentRecords, NextRevision

\* The executions that an operation holds: a failing attempt, a failing evaluation, a
\* restart and a decision window alike.
LEMMA HoldIsLifecycle ==
    ASSUME assessment.state = "RUNNING", assessment.pendingCancellation = 0,
           assessment'.state = "BLOCKED", assessment'.pendingCancellation = 0
    PROVE  Lifecycle!Next
<1>1. Lifecycle!Hold("it")
  BY DEF Lifecycle!Hold, Lifecycle!Admitting, Phase
<1> QED
  BY <1>1 DEF Lifecycle!Next

LEMMA RolesKeepLifecycle ==
    ASSUME TypeOK, NEW x \in Attempts, RoleOperation(x)
    PROVE  [Lifecycle!Next]_(Lifecycle!lifecycle)
<1>1. CASE Advance
  <2>1. /\ assessment'.state = assessment.state
        /\ assessment'.pendingCancellation = assessment.pendingCancellation
    BY <1>1 DEF Advance, TypeOK, AssessmentRecords
  <2> QED
    BY <2>1, HiddenFromLifecycle
<1>2. CASE FailRoleAttempt(x)
  <2>1. /\ assessment.state = "RUNNING"
        /\ assessment.pendingCancellation = 0
        /\ assessment' = [assessment EXCEPT !.revision = NextRevision,
                                            !.state = "BLOCKED", !.blocker = x]
    BY <1>2 DEF FailRoleAttempt, Accepts, Open
  <2>2. assessment'.state = "BLOCKED" /\ assessment'.pendingCancellation = 0
    BY <2>1 DEF TypeOK, AssessmentRecords
  <2> QED
    BY <2>1, <2>2, HoldIsLifecycle
<1>3. Advance \/ FailRoleAttempt(x)
  BY DEF RoleOperation, StartRoleAttempt, LinkModelInvocationEvidence,
         AdmitRoleOutputFormatRepair, AdmitRoleContribution, AdmitRoleCandidates,
         CompleteRoleAttempt
<1> QED
  BY <1>1, <1>2, <1>3

LEMMA CommandsKeepLifecycle ==
    ASSUME TypeOK, ServiceOperation
    PROVE  [Lifecycle!Next]_(Lifecycle!lifecycle)
<1>1. CASE BeginAssessment
  <2>1. /\ assessment.state = "CREATED"
        /\ assessment.pendingCancellation = 0
        /\ assessment'.state = "RUNNING"
        /\ assessment'.pendingCancellation = 0
    BY <1>1 DEF BeginAssessment, TypeOK, AssessmentRecords
  <2>2. Lifecycle!Begin("it")
    BY <2>1 DEF Lifecycle!Begin, Lifecycle!Admitting, Phase
  <2> QED
    BY <2>2 DEF Lifecycle!Next
<1>2. CASE SealAssessment
  <2>1. /\ assessment.state \in {"RUNNING", "BLOCKED"}
        /\ assessment.pendingCancellation = 0
        /\ assessment'.state = "SEALED"
        /\ assessment'.pendingCancellation = 0
    BY <1>2 DEF SealAssessment, Evaluating, TypeOK, AssessmentRecords
  <2>2. Lifecycle!Seal("it")
    BY <2>1 DEF Lifecycle!Seal, Lifecycle!Admitting, Phase
  <2> QED
    BY <2>2 DEF Lifecycle!Next
<1>3. CASE OpenRiskDecisionWindow \/ BlockAssessment \/ RecoverInterrupted
  <2>1. /\ assessment.state = "RUNNING"
        /\ assessment.pendingCancellation = 0
        /\ assessment'.state = "BLOCKED"
        /\ assessment'.pendingCancellation = 0
    BY <1>3 DEF OpenRiskDecisionWindow, BlockAssessment, RecoverInterrupted, Block, Evaluating,
                TypeOK, AssessmentRecords
  <2> QED
    BY <2>1, HoldIsLifecycle
<1>4. CASE \E window \in {"OPEN", "RESOLVED"} : RecordRiskDecision(window)
  <2>1. /\ assessment'.state = assessment.state
        /\ assessment'.pendingCancellation = assessment.pendingCancellation
    BY <1>4 DEF RecordRiskDecision, TypeOK, AssessmentRecords
  <2> QED
    BY <2>1, HiddenFromLifecycle
<1>5. CASE ResumeAssessment
  <2>1. /\ assessment.state = "BLOCKED"
        /\ assessment.pendingCancellation = 0
        /\ assessment'.state = "CREATED"
        /\ assessment'.pendingCancellation = 0
    BY <1>5 DEF ResumeAssessment, TypeOK, AssessmentRecords
  <2>2. Lifecycle!Authorize("it")
    BY <2>1 DEF Lifecycle!Authorize, Lifecycle!Admitting, Phase
  <2> QED
    BY <2>2 DEF Lifecycle!Next
<1>6. CASE RequestCancellation
  <2>1. /\ assessment.state \in {"CREATED", "RUNNING", "BLOCKED"}
        /\ assessment.pendingCancellation = 0
        /\ assessment'.state = assessment.state
        /\ assessment'.pendingCancellation # 0
    BY <1>6, AssessmentFields DEF RequestCancellation, TypeOK, AssessmentRecords
  <2>2. Lifecycle!AcceptCancellation("it")
    BY <2>1 DEF Lifecycle!AcceptCancellation, Lifecycle!Admitting, Phase
  <2> QED
    BY <2>2 DEF Lifecycle!Next
<1>7. CASE CompleteCancellation
  <2>1. /\ assessment.state \in {"CREATED", "RUNNING", "BLOCKED"}
        /\ assessment.pendingCancellation # 0
        /\ assessment'.state = "CANCELED"
        /\ assessment'.pendingCancellation # 0
    BY <1>7, AssessmentFields DEF CompleteCancellation, Terminal, States, TypeOK,
                                  AssessmentRecords
  <2>2. Lifecycle!Cancel("it")
    BY <2>1 DEF Lifecycle!Cancel, Phase
  <2> QED
    BY <2>2 DEF Lifecycle!Next
<1> QED
  BY <1>1, <1>2, <1>3, <1>4, <1>5, <1>6, <1>7 DEF ServiceOperation

\* Whatever role operations commit between the commands of the service, the Assessment
\* keeps the lifecycle that AssessmentService implements (startRoleAttempt to
\* failRoleAttempt of src/src/internal/persistence.ts).
THEOREM RolesKeepTheLifecycle == Spec => KeepsLifecycle
<1>1. TypeOK /\ [Next]_vars => [Lifecycle!Next]_(Lifecycle!lifecycle)
  <2>1. UNCHANGED vars => UNCHANGED Lifecycle!lifecycle
    BY DEF vars, Lifecycle!lifecycle, Phase
  <2> QED
    BY <2>1, RolesKeepLifecycle, CommandsKeepLifecycle DEF Next
<1> QED
  BY <1>1, TypeCorrect, PTL DEF Spec, KeepsLifecycle
=============================================================================
