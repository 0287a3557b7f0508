------------------------ MODULE DeterministicKernel ------------------------
(***************************************************************************)
(* From registered Analyzers to a verdict: src/src/internal/analyzer-       *)
(* registry.ts, the package's own Analyzers, candidate-validation.ts and    *)
(* deterministic-kernel.ts, as runAssessment of src/src/index.ts composes   *)
(* them.                                                                    *)
(*                                                                          *)
(* The frozen Subject is what the slices a policy reads say: how many there *)
(* are, whether all parse, how many violations they state. A contribution   *)
(* is what the kernel tells apart of one: how many of its candidates state  *)
(* a violation of the Subject exactly, with Evidence bound to it, and how   *)
(* many do not. Own stands for the package's Analyzer of the policy; what a *)
(* Host's Analyzer contributes is anything its schema and execute admit.    *)
(***************************************************************************)
EXTENDS Naturals, FiniteSets

CONSTANTS Hosts, Builds,   \* Analyzers that the Host registers, and builds of one version
          Qualifications,  \* what a Host attests of a build
          Own, OwnTerm,    \* the package's Analyzer, and its Qualification
          Assessments,        \* the Assessments asked for, with the Subjects that they freeze
          MaxClock, Missing

Reports == {"NPM_AUDIT", "GITLEAKS"}
Declarations == {"GITHUB_ACTIONS", "PNPM_LOCKFILE", "NPM_PUBLISH_SURFACE"}
Package == Reports \cup Declarations
GateBearing == Package \cup {"REFERENCE"}
Policies == GateBearing \cup {"NODE_LIFECYCLE", "DEFAULT"}

MaxSourceSlices == 256
MaxReportSlices == 127
MaxReportCandidates == 768
MaxWorkflowCandidates == 29
MaxSurfaceEntries == 40
MaxEvidence == 128
MaxRecords == 128
CoreRecords == 7
AdmissionRecords == 4     \* of a candidate: admission, contract, eligibility, outcome

ASSUME KernelAssumption ==
  /\ IsFiniteSet(Hosts) /\ Own \notin Hosts
  /\ \A q \in Qualifications \cup {OwnTerm} :
       q.from \in Nat /\ q.until \in Nat /\ q.from < q.until /\ q.inScope \in BOOLEAN
  /\ OwnTerm # Missing /\ OwnTerm.inScope   \* it names each mode and platform that Own is selected for
  /\ \A r \in Assessments :
       /\ r.policy \in Policies /\ {r.profiled, r.windowed, r.targeted, r.legible} \subseteq BOOLEAN
       /\ r.odd <= r.entries
       /\ {r.slices, r.entries, r.odd, r.beyond} \subseteq Nat
       /\ ~r.legible => r.slices > 0
       /\ r.beyond > 0 => r.policy \in Reports /\ r.slices > MaxReportSlices
       /\ r.odd > 0 => r.policy \in Reports
       /\ r.slices = 0 => r.entries = 0
       /\ r.policy = "PNPM_LOCKFILE" => r.entries <= 3   \* its rules exclude one another

VARIABLES request,    \* what is assessed
          registry,   \* closed, the registered build of an Analyzer, the terms of a build
          contract,   \* the frozen portfolio and its instant, or Missing
          stage, evaluated, clock

Composing == stage \in {"NEW", "PENDING", "BLOCKED"}   \* bound: the registry and the clock move no more

kernelVars == <<request, registry, contract, stage, evaluated, clock>>

EmptyRegistry ==
  [closed |-> FALSE, build |-> [h \in Hosts |-> Missing],
   terms |-> [hb \in Hosts \X Builds |-> Missing]]

KernelInit ==
  /\ request \in Assessments
  /\ registry = EmptyRegistry
  /\ contract = Missing /\ stage = "NEW" /\ evaluated = Missing /\ clock = 0

\* The registry: what startup composes, and what an Assessment freezes of it.

Register(h, b) ==
  /\ Composing /\ ~registry.closed /\ registry.build[h] = Missing
  /\ registry' = [registry EXCEPT !.build[h] = b]
  /\ UNCHANGED <<request, contract, stage, evaluated, clock>>

RegisterQualification(h, b, q) ==
  /\ Composing /\ ~registry.closed /\ registry.terms[<<h, b>>] = Missing
  /\ registry' = [registry EXCEPT !.terms[<<h, b>>] = q]
  /\ UNCHANGED <<request, contract, stage, evaluated, clock>>

\* The disposers that registration returned; they outlive its closing.
DisposeAnalyzer(h) ==
  /\ Composing /\ registry.build[h] # Missing
  /\ registry' = [registry EXCEPT !.build[h] = Missing]
  /\ UNCHANGED <<request, contract, stage, evaluated, clock>>

DisposeQualification(h, b) ==
  /\ Composing /\ registry.terms[<<h, b>>] # Missing
  /\ registry' = [registry EXCEPT !.terms[<<h, b>>] = Missing]
  /\ UNCHANGED <<request, contract, stage, evaluated, clock>>

\* A new Service instance, which the Host composes anew. What else a restart does to an
\* Assessment is in AssessmentService.
Recompose ==
  /\ Composing /\ registry' = EmptyRegistry
  /\ UNCHANGED <<request, contract, stage, evaluated, clock>>

EligibleAt(q, at) == q # Missing /\ q.from <= at /\ at < q.until /\ q.inScope

\* Of the package's Analyzers only the one of the workflows is for TARGETED Assessments.
OwnSelected(r) == r.policy \in Package /\ (r.targeted => r.policy = "GITHUB_ACTIONS")

OwnEntry(at) == [analyzer |-> Own, build |-> Own, terms |-> OwnTerm, eligible |-> EligibleAt(OwnTerm, at)]

Select(r, at) ==
  {[analyzer |-> h, build |-> registry.build[h], terms |-> registry.terms[<<h, registry.build[h]>>],
    eligible |-> EligibleAt(registry.terms[<<h, registry.build[h]>>], at)] :
     h \in {g \in Hosts : registry.build[g] # Missing}}
  \cup {e \in {OwnEntry(at)} : OwnSelected(r)}

\* startAssessment freezes the portfolio, which closes registration, and then the contract.
Freeze ==
  /\ stage = "NEW"
  /\ registry' = [registry EXCEPT !.closed = TRUE]
  /\ contract' = [portfolio |-> Select(request, clock), frozenAt |-> clock]
  /\ stage' = "PENDING"
  /\ UNCHANGED <<request, evaluated, clock>>

Registered(entry) == entry.analyzer \in Hosts => registry.build[entry.analyzer] = entry.build

\* What the Analyzers make of the Subject s.

AtMost(n, limit) == IF n < limit THEN n ELSE limit

Readable(s) == s.slices <= MaxSourceSlices

Contribution(disposition, exact, stray, evidence, clean) ==
  [disposition |-> disposition, claims |-> disposition = "COMPLETE", exact |-> exact,
   stray |-> stray, evidence |-> evidence, clean |-> clean, clashes |-> FALSE]

\* The normalizer of a report; the slices past its limit are left unread with a diagnostic only.
\* A Gitleaks report with too many entries is ill-formed and yields none of them.
ReportContribution(s) ==
  LET read == AtMost(s.slices, MaxReportSlices)
      fits == s.entries <= MaxReportCandidates
      kept == IF fits THEN s.entries ELSE IF s.policy = "GITLEAKS" THEN 0 ELSE MaxReportCandidates
      odd == AtMost(s.odd, kept)
      dropped == IF s.legible /\ (fits \/ s.policy # "GITLEAKS") THEN 0 ELSE 1
  IN  Contribution(IF s.slices = 0 THEN "UNSUPPORTED"
                   ELSE IF s.legible /\ fits THEN "COMPLETE" ELSE "INCOMPLETE",
                   kept - odd, odd, read - dropped,
                   s.slices \in 1 .. MaxReportSlices /\ s.legible /\ fits)

WorkflowContribution(s) ==
  LET whole == s.legible /\ s.entries <= MaxWorkflowCandidates
  IN  Contribution(IF whole THEN "COMPLETE" ELSE "INCOMPLETE",
                   AtMost(s.entries, MaxWorkflowCandidates), 0, 1, whole)

PnpmContribution(s) ==
  Contribution(IF s.legible THEN "COMPLETE" ELSE "INCOMPLETE", s.entries, 0, 1, s.legible)

PublishSurfaceContribution(s) ==
  Contribution(IF s.legible THEN "COMPLETE" ELSE "INCOMPLETE",
               IF s.legible THEN s.entries ELSE 0, 0, 1, s.legible)

OwnContribution(s) ==
  CASE s.policy \in Reports -> ReportContribution(s)
    [] s.policy = "GITHUB_ACTIONS" -> WorkflowContribution(s)
    [] s.policy = "PNPM_LOCKFILE" -> PnpmContribution(s)
    [] s.policy = "NPM_PUBLISH_SURFACE" -> PublishSurfaceContribution(s)

\* The Evidence of a publish surface does not hold more entries, and its Analyzer throws.
OwnThrows(s) ==
  OwnSelected(s) /\ s.policy = "NPM_PUBLISH_SURFACE" /\ s.legible /\ s.entries > MaxSurfaceEntries

\* The built-in Analyzer of the lifecycle policy, which is not in the registry.
ManifestContribution(s) ==
  Contribution(IF s.slices = 0 THEN "UNSUPPORTED" ELSE IF s.legible THEN "COMPLETE" ELSE "INCOMPLETE",
               s.entries, 0, 1, s.slices > 0 /\ s.legible)

\* What execute lets through of a Host's Analyzer: claims and candidates refer to Evidence of the
\* contribution, and candidates to slices of the Subject. It may claim what it likes of them, and
\* its Evidence may have the identity of another's.
HostContributions(s) ==
  {c \in [disposition : {"COMPLETE", "INCOMPLETE", "UNSUPPORTED"}, claims : BOOLEAN,
          exact : 0 .. 1, stray : 0 .. 1, evidence : 0 .. 1, clean : {TRUE}, clashes : BOOLEAN] :
     /\ c.claims \/ c.clashes \/ c.exact + c.stray > 0 => c.evidence > 0
     /\ c.exact + c.stray > 0 => s.slices > 0
     /\ c.exact > 0 => s.policy = "REFERENCE" /\ s.legible}

\* Validation of candidates, one analysis x of the portfolio at a time.

Proposed(x) == x.contribution.exact + x.contribution.stray

\* Only Own has Evidence of the report's schema under its identity.
ReportValidated(x) ==
  IF x.entry.eligible /\ x.entry.analyzer = Own THEN x.contribution.exact ELSE 0

\* The contribution is derived again from the Subject, and must be the same.
DeclarationValidated(s, x) ==
  IF x.entry.eligible /\ x.entry.analyzer = Own /\ x.contribution = OwnContribution(s)
  THEN x.contribution.exact ELSE 0

\* The reference control is in the Subject, violated or satisfied; a candidate that says it is
\* satisfied is rejected, which resolves it without a finding.
ReferenceResolved(s, x) == IF x.entry.eligible /\ s.legible THEN x.contribution.exact ELSE 0
ReferenceValidated(s, x) == IF s.entries > 0 THEN ReferenceResolved(s, x) ELSE 0

Validated(s, x) ==
  CASE s.policy \in Reports -> ReportValidated(x)
    [] s.policy \in Declarations -> DeclarationValidated(s, x)
    [] s.policy = "REFERENCE" -> ReferenceValidated(s, x)
    [] OTHER -> 0
LeftOpen(s, x) ==
  Proposed(x) - (IF s.policy = "REFERENCE" THEN ReferenceResolved(s, x) ELSE Validated(s, x))

\* Every entry of every report has its candidate, and every candidate its entry.
ReportVerified(s, x) ==
  /\ x.entry.analyzer = Own
  /\ x.contribution.disposition = "COMPLETE" /\ x.contribution.clean /\ x.contribution.claims
  /\ s.slices > 0 /\ x.contribution.evidence = s.slices
  /\ x.contribution.stray = 0 /\ x.contribution.exact = s.entries + s.beyond

DeclarationVerified(s, x) ==
  /\ x.entry.analyzer = Own /\ x.entry.eligible
  /\ x.contribution.disposition = "COMPLETE" /\ x.contribution.claims
  /\ x.contribution = OwnContribution(s)

CoverageVerified(s, x) ==
  /\ s.policy \in Reports => ReportVerified(s, x)
  /\ s.policy \in Declarations => DeclarationVerified(s, x)

\* The kernel. The digests of policy, coverage and trace, which it recomputes, are left out.

\* Mutant: eligibility is not asked for.
BugBindsAnyone(x) == x.contribution.disposition = "COMPLETE" /\ x.contribution.claims
StructurallyBound(x) ==
  /\ x.entry.eligible
  /\ x.contribution.disposition = "COMPLETE" /\ x.contribution.claims

\* A contribution that the package's verifiers reject stays inside, but for npm audit.
Publishes(s, x) ==
  s.policy \in Package \ {"NPM_AUDIT"} => StructurallyBound(x) /\ CoverageVerified(s, x)
EvidenceEligible(s, x) ==
  \/ s.policy = "REFERENCE" /\ Proposed(x) > 0 /\ StructurallyBound(x)
  \/ s.policy \in Package /\ StructurallyBound(x) /\ CoverageVerified(s, x)
EvidenceCollides(s, analyses) ==
  \E x, y \in analyses : /\ x # y /\ x.contribution.clashes /\ y.contribution.evidence > 0
                         /\ Publishes(s, x) /\ Publishes(s, y)
ExternalEvidence(s, x) ==
  (IF Publishes(s, x) THEN x.contribution.evidence + 1 ELSE 0) + 1 + AdmissionRecords * Proposed(x)

Evaluated(verdict, coverage, findings, evidence, eligible) ==
  [verdict |-> verdict, coverage |-> coverage, findings |-> findings, evidence |-> evidence,
   eligible |-> eligible]
Indeterminate(evidence, eligible) == Evaluated("INDETERMINATE", "GAP", 0, evidence, eligible)

\* The findings and the Evidence of an outcome, each told by its analysis and its place there.
FindingsOf(s, analyses) == UNION {{x} \X (1 .. Validated(s, x)) : x \in analyses}
EvidenceOf(s, analyses) == UNION {{x} \X (1 .. ExternalEvidence(s, x)) : x \in analyses}

ExternalOutcome(s, analyses) ==
  LET findings == Cardinality(FindingsOf(s, analyses))
      evidence == Cardinality(EvidenceOf(s, analyses))
      eligible == {x.entry : x \in {y \in analyses : EvidenceEligible(s, y)}}
      unresolved == \E x \in analyses : LeftOpen(s, x) > 0
      complete == /\ s.policy \in GateBearing /\ ~unresolved
                  /\ \E x \in analyses : /\ s.policy = "REFERENCE" => Proposed(x) > 0
                                         /\ StructurallyBound(x) /\ CoverageVerified(s, x)
  IN  IF findings > 0
      THEN Evaluated("FAILED", IF complete THEN "COMPLETE" ELSE "GAP", findings, evidence, eligible)
      ELSE IF complete THEN Evaluated("SATISFIED", "COMPLETE", 0, evidence, eligible)
      ELSE Indeterminate(evidence, eligible)

LifecycleOutcome(s) ==
  LET c == ManifestContribution(s)
      coverage == IF c.disposition = "COMPLETE" THEN "COMPLETE" ELSE "GAP"
  IN  IF c.disposition = "UNSUPPORTED" \/ (c.disposition = "INCOMPLETE" /\ c.exact = 0)
      THEN Indeterminate(2, {})
      ELSE Evaluated(IF c.exact > 0 THEN "FAILED" ELSE "SATISFIED", coverage, c.exact, 3, {Own})

Evaluation(s, analyses) ==
  CASE ~s.profiled -> Indeterminate(0, {})
    [] s.profiled /\ s.policy = "NODE_LIFECYCLE" -> LifecycleOutcome(s)
    [] OTHER -> IF analyses = {} THEN Indeterminate(0, {}) ELSE ExternalOutcome(s, analyses)

SealReady(o) ==
  /\ o.verdict = "INDETERMINATE" => o.coverage = "GAP" /\ o.findings = 0
  /\ o.verdict = "SATISFIED" => o.coverage = "COMPLETE" /\ o.findings = 0
  /\ o.verdict = "FAILED" => o.findings > 0

\* Evaluation of a PENDING Assessment, to its end or to the error that ends it.

HostEntries == {e \in contract.portfolio : e.analyzer \in Hosts}
Answers == [HostEntries -> HostContributions(request)]

Analysed(answers) ==
  {[entry |-> e, contribution |->
      IF e \in HostEntries THEN answers[e] ELSE OwnContribution(request)] : e \in contract.portfolio}

\* Slices are read for the Analyzers that there are.
Reads == request.policy = "NODE_LIFECYCLE" \/ contract.portfolio # {}

\* Evidence is published of an outcome, and then no more may go wrong before the window.
Concludes(answers) ==
  LET analyses == Analysed(answers)
  IN  /\ Reads => Readable(request)
      /\ ~OwnThrows(request)
      /\ \A e \in contract.portfolio : Registered(e)
      /\ ~(request.profiled /\ request.policy # "NODE_LIFECYCLE" /\ EvidenceCollides(request, analyses))
      /\ Evaluation(request, analyses).evidence <= MaxEvidence
Opens(o) == request.windowed /\ o.findings > 0
Seals(o) == SealReady(o) /\ CoreRecords + o.evidence <= MaxRecords

Conclude(at, o) ==
  /\ stage' = at /\ evaluated' = o
  /\ UNCHANGED <<request, registry, contract, clock>>

Seal ==
  /\ stage = "PENDING"
  /\ \E answers \in Answers :
       LET o == Evaluation(request, Analysed(answers))
       IN  Concludes(answers) /\ ~Opens(o) /\ Seals(o) /\ Conclude("SEALED", o)
OpenWindow ==
  /\ stage = "PENDING"
  /\ \E answers \in Answers :
       LET o == Evaluation(request, Analysed(answers))
       IN  Concludes(answers) /\ Opens(o) /\ Conclude("WINDOW", o)
Block ==
  /\ stage = "PENDING"
  /\ \E answers \in Answers :
       LET o == Evaluation(request, Analysed(answers))
       IN  ~(Concludes(answers) /\ (Opens(o) \/ Seals(o))) /\ Conclude("BLOCKED", Missing)

\* A Host's Analyzer that throws, or contributes what execute refuses.
AnalyzerFails ==
  /\ stage = "PENDING" /\ HostEntries # {}
  /\ stage' = "BLOCKED"
  /\ UNCHANGED <<request, registry, contract, evaluated, clock>>

ResumeEvaluation ==
  /\ stage = "BLOCKED" /\ stage' = "PENDING"
  /\ UNCHANGED <<request, registry, contract, evaluated, clock>>

ClockTicks ==
  /\ Composing /\ clock < MaxClock /\ clock' = clock + 1
  /\ UNCHANGED <<request, registry, contract, stage, evaluated>>

KernelNext ==
  \/ \E h \in Hosts, b \in Builds :
       \/ Register(h, b)
       \/ DisposeQualification(h, b)
       \/ \E q \in Qualifications : RegisterQualification(h, b, q)
  \/ \E h \in Hosts : DisposeAnalyzer(h)
  \/ Recompose
  \/ Freeze
  \/ Seal
  \/ OpenWindow
  \/ Block
  \/ AnalyzerFails
  \/ ResumeEvaluation
  \/ ClockTicks

KernelSpec == KernelInit /\ [][KernelNext]_kernelVars

\* The Subject states no violation, and all of it that the policy reads was read.
Clean(s) ==
  /\ s.profiled /\ s.policy # "DEFAULT" /\ s.legible
  /\ s.entries + s.beyond = 0
  /\ s.slices > 0 \/ s.policy \in Declarations

\* Whatever the Host's Analyzers contribute, a sealed verdict is that of the frozen Subject:
\* SATISFIED only if it states no violation, FAILED only if it states one, and coverage is
\* complete only by an Analyzer whose Qualification held for the frozen build at the instant of
\* the freeze, as the published eligibility decisions say.
SealedIsEarned ==
  stage = "SEALED" =>
    /\ evaluated.verdict = "SATISFIED" => Clean(request)
    /\ evaluated.verdict = "FAILED" => request.entries + request.beyond > 0
    /\ evaluated.coverage = "COMPLETE" /\ request.policy # "NODE_LIFECYCLE" =>
         \E e \in evaluated.eligible : /\ e \in contract.portfolio /\ e.terms # Missing /\ e.terms.inScope
                                      /\ contract.frozenAt \in e.terms.from .. e.terms.until - 1

\* By itself an Analyzer that bounds its candidates is never in the way of a verdict, and it gives
\* the one that the Subject deserves.
Decidable ==
  /\ HostEntries = {} /\ Readable(request)
  /\ \/ request.policy = "NODE_LIFECYCLE"
     \/ request.policy \in {"GITHUB_ACTIONS", "PNPM_LOCKFILE"} /\ OwnSelected(request)
  /\ contract.frozenAt \in OwnTerm.from .. OwnTerm.until - 1
AloneDecides ==
  contract # Missing /\ Decidable =>
    /\ stage # "BLOCKED"
    /\ stage = "SEALED" /\ Clean(request) => evaluated.verdict = "SATISFIED"
    /\ stage = "SEALED" /\ request.profiled /\ request.entries > 0 => evaluated.verdict = "FAILED"

\* Verdicts follow the Subject (src/src/internal/deterministic-kernel.ts and candidate-
\* validation.ts), and the limits of the Analyzers those of publication and seal (the comment on
\* MAX_CANDIDATES in src/src/internal/github-actions-supply-chain-analyzer.ts).
VerdictIsEarned == SealedIsEarned /\ AloneDecides
=============================================================================
