------------------------- MODULE RiskDecisionWindow -------------------------
(***************************************************************************)
(* The risk decision window of one Assessment: src/src/internal/            *)
(* risk-decision.ts, the commits of src/src/internal/persistence.ts that    *)
(* open, decide and seal a window, and finalizeResolvedRiskDecision of      *)
(* src/src/index.ts.                                                        *)
(*                                                                          *)
(* A decision is admitted against the record at the revision its request    *)
(* names, and committed only at that revision, so that reading and          *)
(* committing it are one step here. A finalization reads the record,        *)
(* computes the outcome at an instant of its own and commits the seal       *)
(* later, in a step of its own.                                             *)
(*                                                                          *)
(* Time is a counter that Tick advances to MaxTime. Rationale and           *)
(* compensating controls are one value of Terms, whose number of controls   *)
(* is Controls.                                                             *)
(***************************************************************************)
EXTENDS Naturals, FiniteSets, Sequences

CONSTANTS
  Findings, Severity,     \* the Findings of the window, and "CRITICAL", "HIGH" or "LOW" of each
  Principals, Person,     \* principal ids, and the person behind one (ids differ by case alone)
  Operators, BreakGlass,  \* the principals that are host operators, and those with risk:break-glass
  Terms, Controls,        \* rationale with controls, and the number of controls
  CriticalControl,        \* whether the contract asks for security/critical-break-glass-v1
  Lifetime,               \* the longest acceptance of a severity
  Keys, Finalizers, MaxTime, None, Due

ASSUME RiskAssumption ==
  /\ Severity \in [Findings -> {"CRITICAL", "HIGH", "LOW"}]
  /\ Controls \in [Terms -> Nat]
  /\ Lifetime \in [{"CRITICAL", "HIGH", "LOW"} -> Nat \ {0}]
  /\ \E t \in Terms : Controls[t] >= 2
  /\ Keys # {}
  /\ None \notin {"SINGLE_AUTHORITY", "CRITICAL_DUAL_AUTHORITY", "OPEN", "RESOLVED"}
  /\ BreakGlass \subseteq Principals /\ Operators \subseteq Principals
  /\ CriticalControl \in BOOLEAN
  /\ MaxTime \in Nat

VARIABLES
  record,       \* the Assessment's record: state, revision, cancellation, window, decisions, seal
  now,
  receipts,     \* the accepted requests: one for each principal and key
  finalizing    \* each caller's finalization: None, Due, or the seal it has computed

riskVars == <<record, now, receipts, finalizing>>

\* What recordRiskDecisionRequestSchema lets through: a denial has no terms and no expiry, an
\* acceptance has both.
Requests ==
  LET asked(decision, terms, expiries) ==
        [finding : Findings, decision : {decision}, terms : terms, expires : expiries,
         principal : Principals, key : Keys]
  IN asked("DENY", {None}, {None})
       \cup asked("ACCEPT", {t \in Terms : Controls[t] > 0}, 1 .. MaxTime + 1)

\* What riskDecisionRecordV1Schema admits: a pending decision has one attestation, an accepted
\* critical one two by different principals, and no other has any.
RecordWellFormed(d) ==
  /\ d.decision = "DENY" => d.resolution = "DENIED" /\ d.mode = "SINGLE_AUTHORITY"
  /\ d.decision = "ACCEPT" =>
       d.expires # None /\ d.resolution # "DENIED"
  /\ d.mode = "SINGLE_AUTHORITY" => d.attested = <<>> /\ d.resolution # "PENDING_DUAL_AUTHORITY"
  /\ d.mode = "CRITICAL_DUAL_AUTHORITY" =>
       /\ d.decision = "ACCEPT" /\ d.maker \in Operators /\ d.attested[1] = d.maker
       /\ Len(d.attested) = (IF d.resolution = "PENDING_DUAL_AUTHORITY" THEN 1 ELSE 2)
       /\ Cardinality({d.attested[i] : i \in DOMAIN d.attested}) = Len(d.attested)

RiskInit ==
  /\ record = [state |-> "RUNNING", revision |-> 1, canceling |-> FALSE, window |-> None,
               coverage |-> "GAP", decisions |-> [f \in Findings |-> None], seal |-> None]
  /\ now = 0
  /\ receipts = {}
  /\ finalizing = [c \in Finalizers |-> None]

Decided(f) == record.decisions[f] # None
Pending(f) == Decided(f) /\ record.decisions[f].resolution = "PENDING_DUAL_AUTHORITY"
Qualified(p) == p \in Operators \cap BreakGlass
-----------------------------------------------------------------------------
\* The evaluation ends with Findings and the contract asks for a window: the record blocks.
OpenRiskDecisionWindow(coverage) ==
  /\ record.state = "RUNNING" /\ ~record.canceling /\ record.window = None
  /\ record' = [record EXCEPT !.state = "BLOCKED", !.window = "OPEN", !.coverage = coverage,
                              !.revision = @ + 1]
  /\ UNCHANGED <<now, receipts, finalizing>>

\* RiskDecisionModule.admit for a Finding without a decision: the mode it authorizes, or None.
Admission(q) ==
  LET severity == Severity[q.finding]
      timely == q.expires > now /\ q.expires - now =< Lifetime[severity]
  IN IF q.decision = "DENY" THEN "SINGLE_AUTHORITY"
     ELSE IF severity = "CRITICAL"
          THEN IF CriticalControl /\ Qualified(q.principal) /\ Controls[q.terms] >= 2 /\ timely
               THEN "CRITICAL_DUAL_AUTHORITY" ELSE None
          ELSE IF timely THEN "SINGLE_AUTHORITY" ELSE None

\* The mode recordRiskDecision passes on: admitted anew, or that of the decision there is.
AuthorizationMode(q) ==
  IF q.decision = "ACCEPT" /\ Severity[q.finding] = "CRITICAL" /\ ~Qualified(q.principal)
  THEN None
  ELSE IF Decided(q.finding) THEN record.decisions[q.finding].mode ELSE Admission(q)

\* The second attestation repeats the first, by another person, before the expiry.
BugLateAttestation(first, q) ==
  /\ q.decision = "ACCEPT"
  /\ Person[first.maker] # Person[q.principal]
  /\ first.terms = q.terms /\ first.expires = q.expires
Matches(first, q) ==
  /\ q.decision = "ACCEPT"
  /\ Person[first.maker] # Person[q.principal]
  /\ first.terms = q.terms /\ first.expires = q.expires
  /\ first.expires > now

\* Whether the store commits the decision q with that mode, at the revision q names.
Committable(q, mode) ==
  /\ record.state = "BLOCKED" /\ record.window = "OPEN" /\ ~record.canceling
  /\ mode # None
  /\ mode = "CRITICAL_DUAL_AUTHORITY" => q.principal \in Operators /\ CriticalControl
  /\ \/ ~Decided(q.finding)
     \/ /\ Pending(q.finding) /\ mode = "CRITICAL_DUAL_AUTHORITY"
        /\ Matches(record.decisions[q.finding], q)

Admits(q) == Committable(q, AuthorizationMode(q))

\* The decision that q makes, or completes.
Made(q, mode) ==
  IF Decided(q.finding)
  THEN [record.decisions[q.finding] EXCEPT !.resolution = "ACCEPTED",
                                           !.attested = Append(@, q.principal)]
  ELSE [decision |-> q.decision, terms |-> q.terms, expires |-> q.expires, mode |-> mode,
        resolution |-> IF q.decision = "DENY" THEN "DENIED"
                       ELSE IF mode = "SINGLE_AUTHORITY" THEN "ACCEPTED"
                       ELSE "PENDING_DUAL_AUTHORITY",
        maker |-> q.principal, recorded |-> now,
        attested |-> IF mode = "CRITICAL_DUAL_AUTHORITY" THEN <<q.principal>> ELSE <<>>]

Resolves(decisions) ==
  \A f \in Findings :
    decisions[f] # None /\ decisions[f].resolution # "PENDING_DUAL_AUTHORITY"

\* recordRiskDecision: the decision commits with its receipt, and its caller goes on to finalize.
RecordRiskDecision(c, q) ==
  /\ finalizing[c] = None
  /\ ~\E r \in receipts : r.principal = q.principal /\ r.key = q.key
  /\ Admits(q) /\ RecordWellFormed(Made(q, AuthorizationMode(q)))
  /\ LET decisions == [record.decisions EXCEPT ![q.finding] = Made(q, AuthorizationMode(q))]
     IN record' = [record EXCEPT !.decisions = decisions, !.revision = @ + 1,
                                 !.window = IF Resolves(decisions) THEN "RESOLVED" ELSE "OPEN"]
  /\ receipts' = receipts \cup {q}
  /\ finalizing' = [finalizing EXCEPT ![c] = Due]
  /\ UNCHANGED now

\* The same request again: its receipt comes back, and the caller tries to finalize again.
ReplayRiskDecision(c, q) ==
  /\ finalizing[c] = None
  /\ q \in receipts
  /\ record.window = "RESOLVED" /\ record.state = "BLOCKED"
  /\ finalizing' = [finalizing EXCEPT ![c] = Due]
  /\ UNCHANGED <<record, now, receipts>>

\* An acceptance that still holds at the instant of the finalization.
BugLiveWhenDecided(d, at) == d.decision = "ACCEPT" /\ d.expires > d.recorded
Live(d, at) == d.decision = "ACCEPT" /\ d.expires > at

\* finalizedOutcome: the verdict and the Findings that no longer block.
FinalizedOutcome(at) ==
  LET ds == record.decisions
      denied == \E f \in Findings : ds[f].decision = "DENY"
      expired == \E f \in Findings : ds[f].decision = "ACCEPT" /\ ~Live(ds[f], at)
  IN [verdict |-> IF denied \/ expired THEN "PROPOSED"
                  ELSE IF record.coverage = "COMPLETE" THEN "SATISFIED" ELSE "INDETERMINATE",
      accepted |-> {f \in Findings : Live(ds[f], at)}, at |-> at]

\* finalizeResolvedRiskDecision up to its publication: it does nothing unless the window resolved.
Finalize(c) ==
  /\ finalizing[c] = Due
  /\ finalizing' = [finalizing EXCEPT ![c] =
       IF record.state = "BLOCKED" /\ record.window = "RESOLVED"
       THEN [revision |-> record.revision, seal |-> FinalizedOutcome(now)] ELSE None]
  /\ UNCHANGED <<record, now, receipts>>

\* Evidence that cannot be read, a seal that is not ready, a publication that fails, a crash: the
\* window stays as it is.
FinalizationFails(c) ==
  /\ finalizing[c] # None
  /\ finalizing' = [finalizing EXCEPT ![c] = None]
  /\ UNCHANGED <<record, now, receipts>>

\* sealAssessment at the revision the finalization read; a conflict ends the finalization.
SealFinalized(c) ==
  /\ finalizing[c] \notin {None, Due}
  /\ record' =
       IF /\ record.state = "BLOCKED" /\ record.window = "RESOLVED" /\ ~record.canceling
          /\ record.revision = finalizing[c].revision
       THEN [record EXCEPT !.state = "SEALED", !.revision = @ + 1, !.seal = finalizing[c].seal]
       ELSE record
  /\ finalizing' = [finalizing EXCEPT ![c] = None]
  /\ UNCHANGED <<now, receipts>>

\* A cancellation is accepted, and completes later.
CancelWindow ==
  /\ record.state \in {"RUNNING", "BLOCKED"}
  /\ record' = IF record.canceling
               THEN [record EXCEPT !.state = "CANCELED", !.revision = @ + 1]
               ELSE [record EXCEPT !.canceling = TRUE, !.revision = @ + 1]
  /\ UNCHANGED <<now, receipts, finalizing>>

Tick == now < MaxTime /\ now' = now + 1 /\ UNCHANGED <<record, receipts, finalizing>>

RiskNext ==
  \/ \E coverage \in {"COMPLETE", "GAP"} : OpenRiskDecisionWindow(coverage)
  \/ \E c \in Finalizers, q \in Requests : RecordRiskDecision(c, q) \/ ReplayRiskDecision(c, q)
  \/ \E c \in Finalizers : Finalize(c) \/ FinalizationFails(c) \/ SealFinalized(c)
  \/ CancelWindow \/ Tick

RiskSpec == RiskInit /\ [][RiskNext]_riskVars
-----------------------------------------------------------------------------
\* projectAvailableAction: the decisions the snapshot offers a principal for a Finding.
BugOffersLapsed(p, f) ==
  IF record.state # "BLOCKED" \/ record.window # "OPEN" THEN {}
  ELSE IF ~Decided(f)
  THEN {"DENY"} \cup (IF Severity[f] # "CRITICAL" \/ (Qualified(p) /\ CriticalControl)
                      THEN {"ACCEPT"} ELSE {})
  ELSE IF /\ Pending(f) /\ Severity[f] = "CRITICAL" /\ Qualified(p) /\ CriticalControl
          /\ \A i \in DOMAIN record.decisions[f].attested :
               Person[record.decisions[f].attested[i]] # Person[p]
       THEN {"ACCEPT"} ELSE {}
Offered(p, f) ==
  IF record.state # "BLOCKED" \/ record.window # "OPEN" THEN {}
  ELSE IF ~Decided(f)
  THEN {"DENY"} \cup (IF Severity[f] # "CRITICAL" \/ (Qualified(p) /\ CriticalControl)
                      THEN {"ACCEPT"} ELSE {})
  ELSE IF /\ Pending(f) /\ Severity[f] = "CRITICAL" /\ Qualified(p) /\ CriticalControl
          /\ \A i \in DOMAIN record.decisions[f].attested :
               Person[record.decisions[f].attested[i]] # Person[p]
          /\ record.decisions[f].expires > now
       THEN {"ACCEPT"} ELSE {}

\* The snapshot offers a principal the decisions the store would commit for it now, and no other:
\* two pieces of code, projectAvailableAction and recordRiskDecision with admit, decide the same
\* question. (A cancellation that is accepted and not completed refuses what is still offered.)
OffersAreAdmitted ==
  ~record.canceling =>
    \A p \in Principals, f \in Findings :
      Offered(p, f) =
        {q.decision : q \in {r \in Requests : r.principal = p /\ r.finding = f /\ Admits(r)}}

\* A SATISFIED verdict stands on acceptances that hold at the instant of the seal, however late the
\* finalization came, were short enough when they were made, and, for a critical Finding, were
\* attested by two different persons with break-glass authority.
SatisfiedIsAccepted ==
  (record.seal # None /\ record.seal.verdict = "SATISFIED") =>
    \A f \in Findings :
      LET d == record.decisions[f]
      IN /\ d.resolution = "ACCEPTED" /\ d.expires > record.seal.at
         /\ d.expires - d.recorded =< Lifetime[Severity[f]]
         /\ Severity[f] = "CRITICAL" =>
              Cardinality({Person[d.attested[i]] : i \in DOMAIN d.attested}) = 2

\* A first attestation that expires before the second one is final: no later decision completes or
\* replaces it and the window never resolves, so that the Assessment can only be canceled
\* (SECURITY-REVIEW.md, F-06).
LapsedIsFinal ==
  [][\A f \in Findings :
       (Pending(f) /\ record.decisions[f].expires =< now)
         => record'.decisions[f] = record.decisions[f] /\ record'.window # "RESOLVED"]_riskVars
=============================================================================
