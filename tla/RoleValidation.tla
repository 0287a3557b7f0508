--------------------------- MODULE RoleValidation ---------------------------
(***************************************************************************)
(* Validation of admitted role candidates: src/src/internal/role-candidate- *)
(* validation.ts and its commits in src/src/internal/persistence.ts.        *)
(*                                                                          *)
(* A validation attempt first freezes its contract, chosen from the         *)
(* qualified contracts its caller offers, and commits the resolution; in a  *)
(* later transaction it derives an outcome from proofs observed since then. *)
(* Ids and digests are model values; a proof that names another candidate,  *)
(* admission, contract, policy, producer lineage or validator, or Evidence  *)
(* that is not durable, is refused before anything commits and is left out. *)
(* The proofs of one outcome are observed at one instant.                   *)
(***************************************************************************)
EXTENDS Naturals, FiniteSets

CONSTANTS
  Attempts, Candidates,
  Contracts,         \* the qualified contracts there are
  Applies,           \* whether a contract's selectors match the candidate's context
  QualifiedAt, ValidUntil, MinLineages,
  Conditions,        \* the conditions a contract takes for a purpose
  ProofIds, Lineage, ProducerLineage, Proofs,
  MaxInstant, MaxValidations, Unset

Purposes == {"CLAIM_VALIDATION", "CLAIM_REJECTION", "NEGATIVE_CONTROL"}

\* The contract schema: one lineage at least, and conditions of different purposes differ.
ContractWellFormed(k) ==
  /\ MinLineages[k] \in Nat \ {0}
  /\ DOMAIN Conditions[k] = Purposes
  /\ Cardinality(Conditions[k]["CLAIM_VALIDATION"]) = 1
  /\ \A u, v \in Purposes : u # v => Conditions[k][u] \cap Conditions[k][v] = {}

\* The qualification schema: it begins before it ends.
QualificationWellFormed(k) ==
  QualifiedAt[k] \in Nat /\ ValidUntil[k] \in Nat /\ QualifiedAt[k] < ValidUntil[k]

\* The decisions made of a proof by others, after it was observed.
Eligibility == {"ELIGIBLE", "INELIGIBLE"}
Independence(lineage) ==
  {"NOT_INDEPENDENT", "UNRESOLVED"} \cup (IF lineage = ProducerLineage THEN {} ELSE {"INDEPENDENT"})

\* The proof schema, without the bindings and times.
ProofWellFormed(p) ==
  /\ DOMAIN p = {"id", "purpose", "condition", "lineage", "result", "eligibility", "independence"}
  /\ p.id \in ProofIds /\ p.purpose \in Purposes /\ p.lineage \in Lineage
  /\ p.result \in {"PROVED", "NOT_PROVED", "INCONCLUSIVE"}
  /\ p.eligibility \in Eligibility /\ p.independence \in Independence(p.lineage)

ASSUME ValidationAssumption ==
  /\ Applies \in [Contracts -> BOOLEAN]
  /\ \A k \in Contracts : ContractWellFormed(k) /\ QualificationWellFormed(k)
  /\ \A p \in Proofs : ProofWellFormed(p)
  /\ \A p, q \in Proofs : p.id = q.id => p = q
  /\ IsFiniteSet(Lineage)

VARIABLES
  assessment,    \* state, revision and accepted cancellation of the Assessment
  instant,
  resolutions,   \* each attempt's frozen contract, or Unset
  outcomes       \* each attempt's outcome, or Unset

validationVars == <<assessment, instant, resolutions, outcomes>>

ValidationInit ==
  /\ assessment = [state |-> "RUNNING", revision |-> 1, canceling |-> FALSE]
  /\ instant = 0
  /\ resolutions = [a \in Attempts |-> Unset]
  /\ outcomes = [a \in Attempts |-> Unset]

\* The Assessment's subject is fixed once it runs, so that only its state can refuse a commit.
Committing == assessment.state = "RUNNING" /\ ~assessment.canceling
AdvanceRevision == assessment' = [assessment EXCEPT !.revision = @ + 1]
-----------------------------------------------------------------------------
\* The contracts whose selectors match and whose qualification covers the instant at.
Applicable(offered, at) ==
  {k \in offered : Applies[k] /\ QualifiedAt[k] =< at /\ at < ValidUntil[k]}

\* resolveRoleCandidateValidationContractV1: exactly one applicable contract resolves.
Resolved(offered, at) ==
  LET fit == Applicable(offered, at)
  IN IF Cardinality(fit) = 1
     THEN [contract |-> CHOOSE k \in fit : TRUE, reason |-> "NONE"]
     ELSE [contract |-> Unset,
           reason |-> IF fit = {} THEN "NO_QUALIFIED_CONTRACT" ELSE "AMBIGUOUS_QUALIFIED_CONTRACT"]

\* validateResolutionCore: what a resolution must satisfy to be written and read back.
ResolutionConsistent(r, offered, at) ==
  LET fit == Applicable(offered, at)
  IN /\ (r.contract = Unset) <=> (Cardinality(fit) # 1)
     /\ r.contract = Unset <=> r.reason # "NONE"
     /\ r.contract # Unset => r.contract \in fit
     /\ r.reason = "NO_QUALIFIED_CONTRACT" => fit = {}

\* resolveRoleCandidateValidationContract. A repeated attempt gets its resolution back, or a
\* conflict, and commits nothing.
ResolveContract(a, candidate, offered) ==
  /\ resolutions[a] = Unset /\ Committing
  /\ ResolutionConsistent(Resolved(offered, instant), offered, instant)
  /\ AdvanceRevision
  /\ resolutions' = [resolutions EXCEPT ![a] =
       [candidate |-> candidate, resolution |-> Resolved(offered, instant),
        resolvedAt |-> instant, revision |-> assessment'.revision]]
  /\ UNCHANGED <<instant, outcomes>>

\* proofCompatibleWithContract: the condition is one the contract takes for that purpose.
Compatible(p, k) == p.condition \in Conditions[k][p.purpose]

\* An eligible proof was observed while its contract was qualified and fits it; every proof was
\* observed after the contract was frozen and before the outcome.
Admissible(proofs, at, frozen) ==
  LET k == frozen.resolution.contract
  IN IF k = Unset THEN proofs = {}
     ELSE /\ proofs # {} => frozen.resolvedAt =< at /\ at =< instant
          /\ \A p \in proofs : p.eligibility = "ELIGIBLE" =>
               /\ QualifiedAt[k] =< at /\ at < ValidUntil[k]
               /\ Compatible(p, k)

\* Counter-evidence that is outnumbered by claim proofs is dropped.
BugMajority(proofs, k) ==
  LET fit(purpose) == {p \in proofs : /\ p.purpose = purpose /\ p.result = "PROVED"
                                      /\ p.eligibility = "ELIGIBLE" /\ p.independence = "INDEPENDENT"
                                      /\ Compatible(p, k)}
  IN fit("CLAIM_VALIDATION") \cup fit("NEGATIVE_CONTROL")
       \cup (IF Cardinality(fit("CLAIM_VALIDATION")) > Cardinality(fit("CLAIM_REJECTION"))
             THEN {} ELSE fit("CLAIM_REJECTION"))
Qualifying(proofs, k) ==
  {p \in proofs :
     /\ p.result = "PROVED" /\ p.eligibility = "ELIGIBLE" /\ p.independence = "INDEPENDENT"
     /\ Compatible(p, k)}

Lineages(proofs, purpose) == {p.lineage : p \in {q \in proofs : q.purpose = purpose}}

\* The gap of a control is reported only where nothing else is missing.
BugSilentGap(k, proofs) ==
  LET good == Qualifying(proofs, k)
      claims == Cardinality(Lineages(good, "CLAIM_VALIDATION"))
      rejections == Cardinality(Lineages(good, "CLAIM_REJECTION"))
      conflict == claims > 0 /\ rejections > 0
      controls == \A c \in Conditions[k]["NEGATIVE_CONTROL"] :
                    \E p \in good : p.purpose = "NEGATIVE_CONTROL" /\ p.condition = c
      state == IF ~conflict /\ controls /\ claims >= MinLineages[k] THEN "VALIDATED"
               ELSE IF ~conflict /\ controls /\ rejections >= MinLineages[k] THEN "REJECTED"
               ELSE "UNRESOLVED"
  IN [state |-> state, qualifying |-> good, lineages |-> {p.lineage : p \in good},
      gaps |-> IF state # "UNRESOLVED" THEN {}
               ELSE IF conflict THEN {"CONFLICTING_ELIGIBLE_PROOF"}
               ELSE IF claims < MinLineages[k] THEN {"ELIGIBLE_CLAIM_PROOF_MISSING"} ELSE {}]

\* The outcome under a resolved contract: proof on both sides settles nothing (ADR 0175), and
\* otherwise a side wins with every control and enough distinct lineages.
Derived(k, proofs) ==
  LET good == Qualifying(proofs, k)
      claims == Cardinality(Lineages(good, "CLAIM_VALIDATION"))
      rejections == Cardinality(Lineages(good, "CLAIM_REJECTION"))
      conflict == claims > 0 /\ rejections > 0
      controls == \A c \in Conditions[k]["NEGATIVE_CONTROL"] :
                    \E p \in good : p.purpose = "NEGATIVE_CONTROL" /\ p.condition = c
      state == IF ~conflict /\ controls /\ claims >= MinLineages[k] THEN "VALIDATED"
               ELSE IF ~conflict /\ controls /\ rejections >= MinLineages[k] THEN "REJECTED"
               ELSE "UNRESOLVED"
      gap == [CONFLICTING_ELIGIBLE_PROOF |-> conflict,
              REQUIRED_NEGATIVE_CONTROL_MISSING |-> ~controls,
              ELIGIBLE_CLAIM_PROOF_MISSING |-> claims < MinLineages[k],
              ELIGIBLE_COUNTER_EVIDENCE_MISSING |-> rejections < MinLineages[k],
              INDEPENDENT_VALIDATION_LINEAGE_MISSING |->
                \E p \in proofs : /\ p.result = "PROVED" /\ p.eligibility = "ELIGIBLE"
                                   /\ p.independence # "INDEPENDENT"]
  IN [state |-> state, qualifying |-> good, lineages |-> {p.lineage : p \in good},
      gaps |-> IF state = "UNRESOLVED" THEN {g \in DOMAIN gap : gap[g]} ELSE {}]

\* createRoleCandidateValidationOutcomeV1.
Outcome(resolution, proofs) ==
  IF resolution.contract = Unset
  THEN [state |-> "UNRESOLVED", qualifying |-> {}, lineages |-> {},
        gaps |-> {IF resolution.reason = "AMBIGUOUS_QUALIFIED_CONTRACT"
                  THEN "VALIDATION_CONTRACT_AMBIGUOUS" ELSE "VALIDATION_CONTRACT_UNAVAILABLE"}]
  ELSE Derived(resolution.contract, proofs)

\* validateOutcomeCore: what an outcome must satisfy to be written, and to be read back.  Its
\* lists are sets here, so that none repeats a member or is out of order.
Consistent(o, proofs) ==
  LET side(purpose) == \E p \in o.qualifying : p.purpose = purpose
      conflict == side("CLAIM_VALIDATION") /\ side("CLAIM_REJECTION")
  IN /\ o.qualifying \subseteq proofs
     /\ o.lineages = {p.lineage : p \in o.qualifying}
     /\ (o.state = "UNRESOLVED") <=> (o.gaps # {})
     /\ o.state = "VALIDATED" => side("CLAIM_VALIDATION")
     /\ o.state = "REJECTED" => side("CLAIM_REJECTION")
     /\ conflict <=> ("CONFLICTING_ELIGIBLE_PROOF" \in o.gaps)
     /\ conflict => o.state = "UNRESOLVED"

\* recordRoleCandidateValidationOutcome.
RecordOutcome(a, candidate, proofs, at) ==
  /\ resolutions[a] # Unset /\ outcomes[a] = Unset /\ Committing
  /\ resolutions[a].candidate = candidate
  /\ Admissible(proofs, at, resolutions[a])
  /\ LET o == Outcome(resolutions[a].resolution, proofs)
     IN /\ Consistent(o, proofs)
        /\ AdvanceRevision
        /\ outcomes' = [outcomes EXCEPT ![a] =
             [derived |-> o, proofs |-> proofs, revision |-> assessment'.revision]]
  /\ UNCHANGED <<instant, resolutions>>

\* Anything else that commits on the Assessment: it ends the run or accepts a cancellation.
OtherCommit ==
  /\ assessment.state = "RUNNING"
  /\ assessment' \in {[assessment EXCEPT !.canceling = TRUE, !.revision = @ + 1],
                      [assessment EXCEPT !.state = "ENDED", !.revision = @ + 1]}
  /\ assessment.revision < MaxValidations
  /\ UNCHANGED <<instant, resolutions, outcomes>>

Elapse ==
  /\ instant < MaxInstant /\ instant' = instant + 1
  /\ UNCHANGED <<assessment, resolutions, outcomes>>

ValidationNext ==
  \/ \E a \in Attempts, c \in Candidates, offered \in SUBSET Contracts : ResolveContract(a, c, offered)
  \/ \E a \in Attempts, c \in Candidates, proofs \in SUBSET Proofs, at \in 0 .. MaxInstant :
       RecordOutcome(a, c, proofs, at)
  \/ OtherCommit \/ Elapse

ValidationSpec == ValidationInit /\ [][ValidationNext]_validationVars
-----------------------------------------------------------------------------
\* Under one contract more proof never turns a decision into its opposite, and never settles a
\* disagreement: between any two attempts at one candidate, and whatever their order
\* (docs/adr/0175: neither agreement count nor execution order settles a claim).
MoreProofNeverFlips ==
  \A a, b \in Attempts :
    (/\ outcomes[a] # Unset /\ outcomes[b] # Unset
     /\ resolutions[a].candidate = resolutions[b].candidate
     /\ resolutions[a].resolution.contract = resolutions[b].resolution.contract
     /\ outcomes[a].proofs \subseteq outcomes[b].proofs)
      => LET few == outcomes[a].derived
             more == outcomes[b].derived
         IN /\ {few.state, more.state} # {"VALIDATED", "REJECTED"}
            /\ "CONFLICTING_ELIGIBLE_PROOF" \in few.gaps => more.state = "UNRESOLVED"

\* Whatever proofs arrive for a frozen contract, the outcome derived from them passes the check
\* made before it is written and each time it is read: no attempt is left without an outcome for
\* an inconsistency of its own, and no recorded outcome makes later reads fail.
EveryProofSetDecides ==
  \A a \in Attempts : (resolutions[a] # Unset /\ outcomes[a] = Unset) =>
    \A proofs \in SUBSET Proofs :
      Admissible(proofs, instant, resolutions[a]) =>
        Consistent(Outcome(resolutions[a].resolution, proofs), proofs)
=============================================================================
