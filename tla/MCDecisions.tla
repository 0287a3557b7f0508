---------------------------- MODULE MCDecisions ----------------------------
(* What is decided on evidence, for TLC: a behaviour takes one part, the    *)
(* risk decision window of an Assessment, the validation of its role        *)
(* candidates, its evaluation, or a release; the parts share no state.      *)
EXTENDS RiskDecisionWindow, RoleValidation, DeterministicKernel, ReleasePipeline, TLC

CONSTANTS crit, high, alice, aliceCaps, bob, plane, strong, weak, k1, k2, a1, a2, release,
          host, build1, build2
VARIABLE part

MCSeverity == (crit :> "CRITICAL") @@ (high :> "HIGH")
MCPerson == (alice :> 1) @@ (aliceCaps :> 1) @@ (bob :> 2) @@ (plane :> 3)
MCControls == (strong :> 2) @@ (weak :> 1)
MCLifetime == [CRITICAL |-> 1, HIGH |-> 2, LOW |-> 2]

MCApplies == [k \in Contracts |-> TRUE]
MCQualifiedAt == (k1 :> 0) @@ (k2 :> 1)
MCValidUntil == (k1 :> 2) @@ (k2 :> 3)
MCMinLineages == (k1 :> 1) @@ (k2 :> 2)
MCConditions == [k \in Contracts |->
  [CLAIM_VALIDATION |-> {"claim"}, CLAIM_REJECTION |-> {"counter"},
   NEGATIVE_CONTROL |-> IF k = k1 THEN {"control"} ELSE {}]]
MCProof(id, purpose, condition, lineage, independence) ==
  [id |-> id, purpose |-> purpose, condition |-> condition, lineage |-> lineage,
   result |-> "PROVED", eligibility |-> "ELIGIBLE", independence |-> independence]
MCProofs ==
  {MCProof(1, "CLAIM_VALIDATION", "claim", 1, "INDEPENDENT"),
   MCProof(2, "CLAIM_VALIDATION", "claim", 2, "INDEPENDENT"),
   MCProof(3, "CLAIM_REJECTION", "counter", 3, "INDEPENDENT"),
   MCProof(4, "CLAIM_REJECTION", "counter", 0, "NOT_INDEPENDENT"),
   MCProof(5, "NEGATIVE_CONTROL", "control", 1, "INDEPENDENT")}

\* Each with one defect of its own.
MCMerit ==
  {Good} \cup
  {[Good EXCEPT ![f] = FALSE] :
     f \in {"registered", "calibrated", "complete", "exact", "bundled", "matched", "measured",
            "planned", "samePlan"}} \cup
  {[Good EXCEPT !.conformance = "INCOMPLETE"], [Good EXCEPT !.counts = {"NETWORK_EGRESS"}],
   [Good EXCEPT !.inferiority = "INCONCLUSIVE"], [Good EXCEPT !.below = {"PRECISION"}],
   [Good EXCEPT !.unmeasured = {"REWORK"}]}

Frozen(p, slices, legible, entries) ==
  [policy |-> p, slices |-> slices, legible |-> legible, entries |-> entries, odd |-> 0,
   beyond |-> 0, windowed |-> FALSE, profiled |-> TRUE, targeted |-> FALSE]
\* The sizes at which a contribution stops to be whole, and publication or the seal to hold it.
MCAssessments ==
  {Frozen(p, 1, TRUE, n) : p \in Policies, n \in 0 .. 1}
  \cup {Frozen(p, 1, FALSE, 0) : p \in {"GITLEAKS", "GITHUB_ACTIONS", "NPM_PUBLISH_SURFACE"}}
  \cup {Frozen(p, 0, TRUE, 0) : p \in {"NPM_AUDIT", "NODE_LIFECYCLE", "PNPM_LOCKFILE"}}
  \cup {[Frozen(p, 1, TRUE, n) EXCEPT !.windowed = w] :
          p \in {"GITHUB_ACTIONS", "GITLEAKS"}, n \in 29 .. 30, w \in BOOLEAN}
  \cup {[Frozen("NPM_AUDIT", 1, TRUE, 1) EXCEPT !.odd = 1],
        [Frozen("GITLEAKS", 128, TRUE, 0) EXCEPT !.beyond = 1],
        Frozen("REFERENCE", 257, TRUE, 1), Frozen("PNPM_LOCKFILE", 2, FALSE, 1),
        [Frozen("PNPM_LOCKFILE", 1, TRUE, 1) EXCEPT !.targeted = TRUE],
        Frozen("NPM_PUBLISH_SURFACE", 1, TRUE, 30), Frozen("NPM_PUBLISH_SURFACE", 1, TRUE, 41),
        [Frozen("REFERENCE", 1, TRUE, 1) EXCEPT !.profiled = FALSE]}
MCOwnTerm == [from |-> 0, until |-> 1, inScope |-> TRUE]
MCTerms == {MCOwnTerm, [from |-> 0, until |-> 2, inScope |-> FALSE]}

Releases == {"MERIT", "TREE", "REPLACED", "RERUN"}
Effort == [MERIT |-> 3, TREE |-> 5, REPLACED |-> 5, RERUN |-> 4]
\* Per part, what else may happen to a release: the candidate is defective, the tree and the
\* files change, one of two runs fails and is replaced, or the first of three runs fails and
\* the second is of the same artifact.
Started(runs, tested) == Len(runs) + Cardinality({k \in Kinds : tested[k] # Absent})
MCRelease ==
  /\ ReleaseNext
  /\ effort' <= Effort[part]
  /\ part # "TREE" => /\ ~dirty'
                      /\ \A f \in Outputs : file[f] # Absent => file'[f] # Absent
                      /\ \A k \in Kinds : records[k] # Absent => records'[k] # Absent
  /\ part \in {"MERIT", "TREE"} =>
       /\ packed' = packed
       /\ \A i \in DOMAIN ledger' : ledger'[i].status # "FAILED"
       /\ Len(ledger') <= Cardinality(Kinds)
  /\ part = "REPLACED" => Started(ledger', testing') <= 2
  /\ part = "RERUN" =>
       /\ \A i \in DOMAIN ledger' : (i = 1) <=> (ledger'[i].status = "FAILED")
       /\ \A i \in DOMAIN ledger' : (i = 2) <=> (ledger'[i].of = 1)
       /\ effort' > 0 => Started(ledger', testing') > 1

MCInit ==
  /\ part \in {"RISK", "VALIDATION", "KERNEL"} \cup Releases
  /\ RiskInit /\ ValidationInit /\ KernelInit /\ ReleaseInit /\ packed = 1
  /\ part # "KERNEL" => request = Frozen("DEFAULT", 1, TRUE, 0)
  /\ \A a \in Artifacts : (part = "MERIT" /\ a = 1) \/ merit[a] = Good
MCNext ==
  \/ part = "RISK" /\ RiskNext /\ UNCHANGED <<part, validationVars, kernelVars, releaseVars>>
  \/ part = "VALIDATION" /\ ValidationNext /\ UNCHANGED <<part, riskVars, kernelVars, releaseVars>>
  \/ part = "KERNEL" /\ KernelNext /\ UNCHANGED <<part, riskVars, validationVars, releaseVars>>
  \/ part \in Releases /\ MCRelease /\ UNCHANGED <<part, riskVars, validationVars, kernelVars>>
MCSpec == MCInit /\ [][MCNext]_<<part, riskVars, validationVars, kernelVars, releaseVars>>

Symmetry == Permutations({a1, a2})
=============================================================================
