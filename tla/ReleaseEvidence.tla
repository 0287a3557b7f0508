--------------------------- MODULE ReleaseEvidence ---------------------------
(***************************************************************************)
(* The rules a release is decided by (src/evaluation.ts, src/              *)
(* release-proof.ts): the ledger of deterministic runs, the checks of the  *)
(* release constitution, the public scorecard, and the verification of the *)
(* proofs a manifest indexes.  They are functions of the evidence given.   *)
(*                                                                         *)
(* Time is the place in the ledger.  A count that must be zero is in the   *)
(* set counts when it is not, a measured threshold in below or unmeasured; *)
(* what the corpus and the comparison of the arms measured is a merit of   *)
(* the artifact, computed elsewhere.  A digest is what it digests.         *)
(***************************************************************************)
EXTENDS Naturals, Sequences, FiniteSets

CONSTANTS Absent,       \* "no value"
          Kinds,      \* the deterministic proofs that runs produce
          Declared    \* the proofs the draft of a release declares itself

Platforms == {"WINDOWS_PLATFORM", "LINUX_PLATFORM", "MACOS_PLATFORM"}
Deterministic == Platforms \cup
  {"ARTIFACT_IDENTITY", "CAPABILITY_CONFORMANCE", "WORKBENCH", "LIFECYCLE",
   "FAULT", "RACE", "MUTATION", "RESOURCE"}

ASSUME KindsAreDeterministic == Kinds \subseteq Deterministic /\ Declared \cap Deterministic = {}

SelfSecurityChecks == {"CRITICAL_HIGH_CLEAR", "BLOCKING_MEDIUM_CLEAR"}
CountChecks == SelfSecurityChecks \cup
  {"CODE_EXECUTION", "NETWORK_EGRESS", "TRACKING_MUTATION", "RISK_ACCEPTANCE",
   "FORGED_EVIDENCE", "CORRUPT_EVIDENCE", "HIDDEN_CRITICAL", "GROUND_TRUTH_LEAKAGE"}
EffectivenessChecks ==
  {"CRITICAL_HIGH_RECALL", "SEVERITY_WEIGHTED_RECALL", "PRECISION",
   "UNSAFE_SATISFACTION", "COVERAGE_HONESTY"}
UtilityChecks ==
  {"RUNTIME_YIELD", "COST_YIELD", "TIME_TO_FIRST", "HUMAN_TRIAGE", "REMEDIATION_SUCCESS",
   "REMEDIATION_DURATION", "REWORK", "APPROVAL_YIELD", "UNSAFE_APPROVAL"}
CheckIds == CountChecks \cup Platforms \cup EffectivenessChecks \cup UtilityChecks \cup
  {"PRE_REGISTERED", "CALIBRATED_BEFORE", "CONFORMANCE", "DETERMINISTIC_FAILURES",
   "EXACT_ARTIFACT", "PAIRED_EVIDENCE", "NON_INFERIOR"}

Merits ==
  [registered : BOOLEAN, calibrated : BOOLEAN, complete : BOOLEAN,
   conformance : {"PASSED", "FAILED", "INCOMPLETE"}, counts : SUBSET CountChecks,
   exact : BOOLEAN, bundled : BOOLEAN, matched : BOOLEAN, measured : BOOLEAN,
   planned : BOOLEAN, samePlan : BOOLEAN,
   inferiority : {"PASSED", "FAILED", "INCONCLUSIVE"},
   below : SUBSET (EffectivenessChecks \cup UtilityChecks),
   unmeasured : SUBSET (EffectivenessChecks \cup UtilityChecks)]

Pass(holds) == IF holds THEN "PASSED" ELSE "FAILED"
Worst(statuses) ==
  IF "FAILED" \in statuses THEN "FAILED"
  ELSE IF "INCONCLUSIVE" \in statuses THEN "INCONCLUSIVE" ELSE "PASSED"

-----------------------------------------------------------------------------
(* The ledger: a run is a qualification, of = 0, or the diagnostic rerun of *)
(* a qualification that failed.  A resolution maps a failed qualification   *)
(* to the one that replaces it.                                             *)

Run(k, artifact, status, of) ==
  [kind |-> k, artifact |-> artifact, status |-> status, of |-> of]

Failures(h, k) == {i \in DOMAIN h : h[i].kind = k /\ h[i].of = 0 /\ h[i].status = "FAILED"}

LegalRerun(h, i) ==
  h[i].of # 0 => /\ h[i].of \in Failures(h, h[i].kind)
                 /\ h[h[i].of].artifact = h[i].artifact
                 /\ h[i].of <= i

LegalResolution(h, o, r, candidate) ==
  /\ o \in Failures(h, h[o].kind)
  /\ h[r].of = 0 /\ h[r].status = "PASSED" /\ h[r].kind = h[o].kind
  /\ h[r].artifact # h[o].artifact
  /\ h[r].artifact = candidate
  /\ r >= o

CandidateRuns(h, k, candidate) ==
  {i \in DOMAIN h : h[i].kind = k /\ h[i].of = 0 /\ h[i].artifact = candidate}

\* The evidence is one the engine evaluates: it throws on any other.
LegalHistory(h, replaced, candidate) ==
  /\ \A i \in DOMAIN h : LegalRerun(h, i)
  /\ \A o \in DOMAIN replaced : LegalResolution(h, o, replaced[o], candidate)
  /\ \A k \in Kinds : Cardinality(CandidateRuns(h, k, candidate)) <= 1

\* As if a failure were flaky once its rerun passes.
BugRerunErases(h, replaced, k) ==
  {i \in Failures(h, k) \ DOMAIN replaced :
     ~\E j \in DOMAIN h : h[j].of = i /\ h[j].status = "PASSED"}

Unresolved(h, replaced, k) == Failures(h, k) \ DOMAIN replaced

HistoryStatus(h, replaced, candidate, k) ==
  IF Unresolved(h, replaced, k) # {} THEN "FAILED"
  ELSE IF \E i \in CandidateRuns(h, k, candidate) : h[i].status = "PASSED"
       THEN "PASSED" ELSE "INCONCLUSIVE"

HistoryDecision(e) ==
  Worst({HistoryStatus(e.history, e.replaced, e.artifact, k) : k \in Kinds})

-----------------------------------------------------------------------------
(* The release constitution, on evidence e: what the artifact merits, the   *)
(* ledger and what replaces its failures, and each platform's proof.       *)

CompleteOr(m, status) == IF m.complete THEN status ELSE "INCONCLUSIVE"

HardSafetyStatus(c, e) ==
  CASE c = "CONFORMANCE" ->
         IF e.merit.conformance = "FAILED" THEN "FAILED"
         ELSE CompleteOr(e.merit,
                IF e.merit.conformance = "PASSED" THEN "PASSED" ELSE "INCONCLUSIVE")
    [] c = "DETERMINISTIC_FAILURES" ->
         IF HistoryDecision(e) = "FAILED" THEN "FAILED"
         ELSE CompleteOr(e.merit, HistoryDecision(e))
    [] OTHER -> IF c \in e.merit.counts THEN "FAILED" ELSE CompleteOr(e.merit, "PASSED")

PlatformStatus(c, e) ==
  IF c \notin DOMAIN e.platforms \/ e.platforms[c] = Absent THEN "INCONCLUSIVE"
  ELSE IF e.platforms[c].artifact # e.artifact THEN "FAILED" ELSE e.platforms[c].status

PairedStatus(m) ==
  IF ~m.matched THEN "FAILED" ELSE IF m.measured THEN "PASSED" ELSE "INCONCLUSIVE"

NonInferiorityStatus(m) ==
  IF ~m.planned THEN "FAILED"
  ELSE IF m.inferiority = "INCONCLUSIVE" THEN "INCONCLUSIVE"
  ELSE Pass(m.samePlan /\ m.inferiority = "PASSED")

ThresholdStatus(c, m) ==
  IF c \in m.unmeasured THEN "INCONCLUSIVE" ELSE Pass(c \notin m.below)

CheckStatus(c, e) ==
  CASE c = "PRE_REGISTERED" -> Pass(e.merit.registered)
    [] c = "CALIBRATED_BEFORE" -> Pass(e.merit.calibrated)
    [] c \in CountChecks \cup {"CONFORMANCE", "DETERMINISTIC_FAILURES"} ->
         HardSafetyStatus(c, e)
    [] c = "EXACT_ARTIFACT" -> Pass(e.merit.exact)
    [] c \in Platforms -> PlatformStatus(c, e)
    [] c = "PAIRED_EVIDENCE" -> PairedStatus(e.merit)
    [] c = "NON_INFERIOR" -> NonInferiorityStatus(e.merit)
    [] OTHER -> ThresholdStatus(c, e.merit)

\* The platforms no run of this instance is about have passed.
Checked == CheckIds \ (Platforms \ Kinds)
Decision(e) ==
  [failed |-> {c \in Checked : CheckStatus(c, e) = "FAILED"},
   inconclusive |-> {c \in Checked : CheckStatus(c, e) = "INCONCLUSIVE"}]
Promotion(d) ==
  IF d.failed # {} THEN "BLOCKED" ELSE IF d.inconclusive # {} THEN "INCONCLUSIVE" ELSE "PROMOTE"

\* The public scorecard of a release: its decision, and what it is not a claim of.
Scorecard(e) ==
  [artifact |-> e.artifact, decision |-> Decision(e), stable |-> Promotion(Decision(e)) = "PROMOTE"]
Discloses(card) == card.stable <=> Promotion(card.decision) = "PROMOTE"

-----------------------------------------------------------------------------
(* The manifest: each proof must be of the artifact, agree with the checks  *)
(* it reports on, and come from the evidence that was evaluated.            *)

ReportsOn ==
  [ARTIFACT_IDENTITY |-> {"EXACT_ARTIFACT"}, CAPABILITY_CONFORMANCE |-> {"CONFORMANCE"},
   WINDOWS_PLATFORM |-> {"WINDOWS_PLATFORM"}, LINUX_PLATFORM |-> {"LINUX_PLATFORM"},
   MACOS_PLATFORM |-> {"MACOS_PLATFORM"}, EFFECTIVENESS |-> EffectivenessChecks,
   UTILITY |-> UtilityChecks, NON_INFERIORITY |-> {"NON_INFERIOR"},
   SELF_SECURITY |-> SelfSecurityChecks, GROUND_TRUTH_AIR_GAP |-> {"GROUND_TRUTH_LEAKAGE"},
   DETERMINISTIC_FAILURES |-> {"DETERMINISTIC_FAILURES"},
   SECURITY_SUPPORT_MATRIX |-> Platforms, RISK_ACCEPTANCES |-> {"RISK_ACCEPTANCE"},
   EVALUATION_RUN_BUNDLE |-> {"PAIRED_EVIDENCE"}, RELEASE_CONSTITUTION |-> CheckIds]

Expected(kind, d) ==
  IF kind \notin DOMAIN ReportsOn THEN Absent
  ELSE IF ReportsOn[kind] \cap d.failed # {} THEN "FAILED"
  ELSE IF ReportsOn[kind] \cap d.inconclusive # {} THEN "INCONCLUSIVE" ELSE "PASSED"

HasSource(kind) ==
  kind \in Platforms \cup
    {"CAPABILITY_CONFORMANCE", "SELF_SECURITY", "GROUND_TRUTH_AIR_GAP",
     "DETERMINISTIC_FAILURES", "RISK_ACCEPTANCES", "EVALUATION_RUN_BUNDLE",
     "RELEASE_CONSTITUTION"}

\* What a proof's evidence must be: the platform's own proof, the hard safety
\* evidence, the evidence set, or the constitution, of which there is one.
Source(kind, e) ==
  CASE kind \in Platforms -> e.platforms[kind]
    [] kind = "RELEASE_CONSTITUTION" -> <<"constitution">>
    [] kind = "EVALUATION_RUN_BUNDLE" -> <<e.artifact>>
    [] OTHER -> <<e.artifact, Len(e.history), e.replaced>>

Binds(proof, e) == proof.artifact = e.artifact
Aligns(kind, proof, e) == Expected(kind, Decision(e)) \in {Absent, proof.status}
Sourced(kind, proof, e) == HasSource(kind) => proof.source = Source(kind, e)

ProofStatus(kind, proof, e) ==
  IF proof = Absent THEN "INCONCLUSIVE"
  ELSE IF ~Binds(proof, e) \/ ~Aligns(kind, proof, e) \/ ~Sourced(kind, proof, e) THEN "FAILED"
  ELSE proof.status

ScorecardMatches(card, e) == card.artifact = e.artifact /\ card.decision = Decision(e)

Verification(e, card, proofs) ==
  LET statuses == {ProofStatus(kind, proofs[kind], e) : kind \in DOMAIN proofs}
  IN  IF \/ Promotion(Decision(e)) = "BLOCKED" \/ "FAILED" \in statuses
         \/ ~ScorecardMatches(card, e) \/ ~e.merit.bundled
      THEN "BLOCKED"
      ELSE IF Promotion(Decision(e)) = "INCONCLUSIVE" \/ "INCONCLUSIVE" \in statuses
      THEN "INCONCLUSIVE" ELSE "VERIFIED"

Qualification(e, card, proofs) ==
  IF Verification(e, card, proofs) = "VERIFIED" THEN Promotion(Decision(e))
  ELSE Verification(e, card, proofs)
=============================================================================
