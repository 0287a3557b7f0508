--------------------------- MODULE DecisionProofs ---------------------------
(***************************************************************************)
(* Proofs about what is decided on evidence: the validation of role         *)
(* candidates (RoleValidation), the risk decision window                    *)
(* (RiskDecisionWindow) and the verdict of an evaluation                    *)
(* (DeterministicKernel).  The three share no state.                        *)
(***************************************************************************)
EXTENDS RiskDecisionWindow, RoleValidation, DeterministicKernel, FiniteSetTheorems, TLAPS

-----------------------------------------------------------------------------
(* Validation: what an outcome says of its proofs.                          *)

\* The independent lineages of a set of proofs are counted in the naturals, and there is one
\* if and only if the set has a proof of the purpose.
LEMMA LineagesCount ==
    ASSUME NEW proofs \in SUBSET Proofs, NEW purpose
    PROVE  LET n == Cardinality(Lineages(proofs, purpose))
           IN  /\ n \in Nat
               /\ n > 0 <=> \E p \in proofs : p.purpose = purpose
<1> DEFINE lineages == Lineages(proofs, purpose)
<1>1. lineages \in SUBSET Lineage
  BY ValidationAssumption DEF Lineages, ProofWellFormed
<1>2. IsFiniteSet(lineages) /\ Cardinality(lineages) \in Nat
  BY <1>1, FS_Subset, FS_CardinalityType, ValidationAssumption
<1>3. Cardinality(lineages) = 0 <=> lineages = {}
  BY <1>2, FS_EmptySet
<1>4. lineages = {} <=> ~\E p \in proofs : p.purpose = purpose
  BY DEF Lineages
<1> QED
  BY <1>2, <1>3, <1>4

\* Proofs qualify one by one: more proofs, more that qualify.
LEMMA QualifyingGrows ==
    ASSUME NEW few \in SUBSET Proofs, NEW more \in SUBSET Proofs, few \subseteq more, NEW k
    PROVE  /\ Qualifying(few, k) \subseteq Qualifying(more, k)
           /\ Qualifying(few, k) \in SUBSET Proofs /\ Qualifying(more, k) \in SUBSET Proofs
  BY DEF Qualifying

\* The sides of an outcome, and whether they disagree.
Claims(k, proofs) == Cardinality(Lineages(Qualifying(proofs, k), "CLAIM_VALIDATION"))
Rejections(k, proofs) == Cardinality(Lineages(Qualifying(proofs, k), "CLAIM_REJECTION"))
Disagree(k, proofs) == Claims(k, proofs) > 0 /\ Rejections(k, proofs) > 0
Controlled(k, proofs) ==
  \A c \in Conditions[k]["NEGATIVE_CONTROL"] :
    \E p \in Qualifying(proofs, k) : p.purpose = "NEGATIVE_CONTROL" /\ p.condition = c

\* The derivation of an outcome, read off its sides.
LEMMA DerivedSides ==
    ASSUME NEW k \in Contracts, NEW proofs \in SUBSET Proofs
    PROVE  LET o == Derived(k, proofs)
           IN  /\ o.qualifying = Qualifying(proofs, k)
               /\ o.lineages = {p.lineage : p \in o.qualifying}
               /\ o.state \in {"VALIDATED", "REJECTED", "UNRESOLVED"}
               /\ o.state = "VALIDATED" =>
                    ~Disagree(k, proofs) /\ Claims(k, proofs) >= MinLineages[k]
               /\ o.state = "REJECTED" =>
                    ~Disagree(k, proofs) /\ Rejections(k, proofs) >= MinLineages[k]
               /\ o.state # "UNRESOLVED" => o.gaps = {}
               /\ o.state = "UNRESOLVED" => o.gaps # {}
               /\ "CONFLICTING_ELIGIBLE_PROOF" \in o.gaps <=> Disagree(k, proofs)
<1> DEFINE conflict == Disagree(k, proofs)
           controls == Controlled(k, proofs)
           claims == Claims(k, proofs)
           rejections == Rejections(k, proofs)
           state == IF ~conflict /\ controls /\ claims >= MinLineages[k] THEN "VALIDATED"
                    ELSE IF ~conflict /\ controls /\ rejections >= MinLineages[k] THEN "REJECTED"
                    ELSE "UNRESOLVED"
           gap == [CONFLICTING_ELIGIBLE_PROOF |-> conflict,
                   REQUIRED_NEGATIVE_CONTROL_MISSING |-> ~controls,
                   ELIGIBLE_CLAIM_PROOF_MISSING |-> claims < MinLineages[k],
                   ELIGIBLE_COUNTER_EVIDENCE_MISSING |-> rejections < MinLineages[k],
                   INDEPENDENT_VALIDATION_LINEAGE_MISSING |->
                     \E p \in proofs : /\ p.result = "PROVED" /\ p.eligibility = "ELIGIBLE"
                                        /\ p.independence # "INDEPENDENT"]
           gaps == IF state = "UNRESOLVED" THEN {g \in DOMAIN gap : gap[g]} ELSE {}
<1>1. Derived(k, proofs) =
        [state |-> state, qualifying |-> Qualifying(proofs, k),
         lineages |-> {p.lineage : p \in Qualifying(proofs, k)}, gaps |-> gaps]
  BY Zenon DEF Derived, Disagree, Controlled, Claims, Rejections
<1>2. /\ Derived(k, proofs).state = state
      /\ Derived(k, proofs).qualifying = Qualifying(proofs, k)
      /\ Derived(k, proofs).lineages = {p.lineage : p \in Qualifying(proofs, k)}
      /\ Derived(k, proofs).gaps = gaps
  BY <1>1
<1>3. claims \in Nat /\ rejections \in Nat /\ MinLineages[k] \in Nat
  BY LineagesCount, QualifyingGrows, ValidationAssumption DEF Claims, Rejections, ContractWellFormed
<1>4. /\ "CONFLICTING_ELIGIBLE_PROOF" \in {g \in DOMAIN gap : gap[g]} <=> conflict
      /\ "REQUIRED_NEGATIVE_CONTROL_MISSING" \in {g \in DOMAIN gap : gap[g]} <=> ~controls
      /\ "ELIGIBLE_CLAIM_PROOF_MISSING" \in {g \in DOMAIN gap : gap[g]} <=> claims < MinLineages[k]
  OBVIOUS
<1> HIDE DEF conflict, controls, claims, rejections, gap
<1>5. state = "UNRESOLVED" => conflict \/ ~controls \/ claims < MinLineages[k]
  BY <1>3
<1>6. conflict => state = "UNRESOLVED"
  OBVIOUS
<1> QED
  BY <1>2, <1>3, <1>4, <1>5, <1>6 DEF conflict, claims, rejections

\* Whatever proofs there are, the outcome passes the check that it is written and read under.
LEMMA OutcomesAreConsistent ==
    ASSUME NEW r, r.contract \in Contracts \cup {Unset}, NEW proofs \in SUBSET Proofs
    PROVE  Consistent(Outcome(r, proofs), proofs)
<1>1. CASE r.contract = Unset
  BY <1>1 DEF Consistent, Outcome
<1>2. CASE r.contract # Unset
  <2> DEFINE k == r.contract
             o == Derived(k, proofs)
             good == Qualifying(proofs, k)
  <2>1. k \in Contracts /\ Outcome(r, proofs) = o
    BY <1>2 DEF Outcome
  <2>2. good \in SUBSET Proofs /\ MinLineages[k] \in Nat \ {0}
    BY <2>1, QualifyingGrows, ValidationAssumption DEF ContractWellFormed
  <2>3. /\ Claims(k, proofs) \in Nat
        /\ Claims(k, proofs) > 0 <=> \E p \in good : p.purpose = "CLAIM_VALIDATION"
        /\ Rejections(k, proofs) \in Nat
        /\ Rejections(k, proofs) > 0 <=> \E p \in good : p.purpose = "CLAIM_REJECTION"
    BY <2>2, LineagesCount DEF Claims, Rejections
  <2>4. /\ o.qualifying = good /\ o.lineages = {p.lineage : p \in good}
        /\ o.state \in {"VALIDATED", "REJECTED", "UNRESOLVED"}
        /\ o.state = "VALIDATED" => ~Disagree(k, proofs) /\ Claims(k, proofs) >= MinLineages[k]
        /\ o.state = "REJECTED" => ~Disagree(k, proofs) /\ Rejections(k, proofs) >= MinLineages[k]
        /\ o.state # "UNRESOLVED" <=> o.gaps = {}
        /\ "CONFLICTING_ELIGIBLE_PROOF" \in o.gaps <=> Disagree(k, proofs)
    BY <2>1, DerivedSides
  <2>5. good \subseteq proofs
    BY DEF Qualifying
  <2> HIDE DEF o, good, k
  <2>6. Consistent(o, proofs)
    BY <2>2, <2>3, <2>4, <2>5 DEF Consistent, Disagree
  <2> QED
    BY <2>1, <2>6
<1> QED
  BY <1>1, <1>2

\* More proof under one contract keeps a disagreement and cannot turn a decision around.
LEMMA MoreProofKeepsSides ==
    ASSUME NEW r, NEW s, s.contract = r.contract, r.contract \in Contracts \cup {Unset},
           NEW few \in SUBSET Proofs, NEW more \in SUBSET Proofs, few \subseteq more
    PROVE  /\ {Outcome(r, few).state, Outcome(s, more).state} # {"VALIDATED", "REJECTED"}
           /\ "CONFLICTING_ELIGIBLE_PROOF" \in Outcome(r, few).gaps =>
                Outcome(s, more).state = "UNRESOLVED"
<1>1. CASE r.contract = Unset
  BY <1>1 DEF Outcome
<1>2. CASE r.contract # Unset
  <2> DEFINE k == r.contract
             o1 == Derived(k, few)
             o2 == Derived(k, more)
  <2>1. k \in Contracts /\ Outcome(r, few) = o1 /\ Outcome(s, more) = o2
    BY <1>2 DEF Outcome
  <2>2. /\ Qualifying(few, k) \subseteq Qualifying(more, k)
        /\ Qualifying(few, k) \in SUBSET Proofs /\ Qualifying(more, k) \in SUBSET Proofs
        /\ MinLineages[k] \in Nat \ {0}
    BY <2>1, QualifyingGrows, ValidationAssumption DEF ContractWellFormed
  <2>3. /\ Claims(k, few) \in Nat /\ Claims(k, more) \in Nat
        /\ Rejections(k, few) \in Nat /\ Rejections(k, more) \in Nat
    BY <2>2, LineagesCount DEF Claims, Rejections
  <2>4. Claims(k, few) > 0 => Claims(k, more) > 0
    BY <2>2, LineagesCount DEF Claims
  <2>5. Rejections(k, few) > 0 => Rejections(k, more) > 0
    BY <2>2, LineagesCount DEF Rejections
  <2>6. \A proofs \in {few, more} :
          LET o == Derived(k, proofs)
          IN  /\ o.state \in {"VALIDATED", "REJECTED", "UNRESOLVED"}
              /\ o.state = "VALIDATED" =>
                   ~Disagree(k, proofs) /\ Claims(k, proofs) >= MinLineages[k]
              /\ o.state = "REJECTED" =>
                   ~Disagree(k, proofs) /\ Rejections(k, proofs) >= MinLineages[k]
              /\ "CONFLICTING_ELIGIBLE_PROOF" \in o.gaps <=> Disagree(k, proofs)
    BY <2>1, DerivedSides
  <2> HIDE DEF k
  <2>7. ~(o1.state = "VALIDATED" /\ o2.state = "REJECTED")
    BY <2>2, <2>3, <2>4, <2>6 DEF Disagree
  <2>8. ~(o1.state = "REJECTED" /\ o2.state = "VALIDATED")
    BY <2>2, <2>3, <2>5, <2>6 DEF Disagree
  <2>9. "CONFLICTING_ELIGIBLE_PROOF" \in o1.gaps => o2.state = "UNRESOLVED"
    BY <2>4, <2>5, <2>6 DEF Disagree
  <2>10. {o1.state, o2.state} # {"VALIDATED", "REJECTED"}
    BY <2>7, <2>8
  <2> QED
    BY <2>1, <2>9, <2>10
<1> QED
  BY <1>1, <1>2

-----------------------------------------------------------------------------
(* Validation: what is written down of an attempt stays what was derived.   *)

\* A frozen contract is one there is, and an outcome is that of its own frozen contract.
FrozenContract(a) ==
  resolutions[a] # Unset => resolutions[a].resolution.contract \in Contracts \cup {Unset}
OwnOutcome(a) ==
  outcomes[a] # Unset =>
    /\ resolutions[a] # Unset
    /\ outcomes[a].proofs \in SUBSET Proofs
    /\ outcomes[a].derived = Outcome(resolutions[a].resolution, outcomes[a].proofs)
ValidationInv ==
  /\ resolutions = [a \in Attempts |-> resolutions[a]]
  /\ outcomes = [a \in Attempts |-> outcomes[a]]
  /\ \A a \in Attempts : FrozenContract(a) /\ OwnOutcome(a)

LEMMA ValidationInductive ==
    ASSUME ValidationInv, [ValidationNext]_validationVars
    PROVE  ValidationInv'
<1>1. ASSUME NEW a \in Attempts, NEW c \in Candidates, NEW offered \in SUBSET Contracts,
             ResolveContract(a, c, offered)
      PROVE  ValidationInv'
  <2> DEFINE r == Resolved(offered, instant)
             new == [candidate |-> c, resolution |-> r, resolvedAt |-> instant,
                     revision |-> assessment'.revision]
  <2>1. /\ resolutions' = [resolutions EXCEPT ![a] = new]
        /\ resolutions[a] = Unset /\ outcomes' = outcomes
    BY <1>1 DEF ResolveContract
  <2>2. r.contract \in Contracts \cup {Unset}
    BY <1>1 DEF ResolveContract, ResolutionConsistent, Applicable
  <2>3. new.resolution = r
    OBVIOUS
  <2> HIDE DEF new, r
  <2>4. resolutions' = [b \in Attempts |-> resolutions'[b]] /\ resolutions'[a] = new
    BY <2>1 DEF ValidationInv
  <2>5. \A b \in Attempts : b # a => resolutions'[b] = resolutions[b]
    BY <2>1 DEF ValidationInv
  <2>6. FrozenContract(a)' /\ OwnOutcome(a)'
    BY <2>1, <2>2, <2>3, <2>4 DEF ValidationInv, FrozenContract, OwnOutcome
  <2>7. \A b \in Attempts : b # a => FrozenContract(b)' /\ OwnOutcome(b)'
    BY <2>1, <2>5 DEF ValidationInv, FrozenContract, OwnOutcome
  <2> QED
    BY <2>1, <2>4, <2>6, <2>7 DEF ValidationInv
<1>2. ASSUME NEW a \in Attempts, NEW c \in Candidates, NEW proofs \in SUBSET Proofs, NEW at,
             RecordOutcome(a, c, proofs, at)
      PROVE  ValidationInv'
  <2> DEFINE o == Outcome(resolutions[a].resolution, proofs)
             new == [derived |-> o, proofs |-> proofs, revision |-> assessment'.revision]
  <2>1. /\ outcomes' = [outcomes EXCEPT ![a] = new]
        /\ resolutions[a] # Unset /\ resolutions' = resolutions
    BY <1>2 DEF RecordOutcome
  <2>2. new.derived = o /\ new.proofs = proofs
    OBVIOUS
  <2> HIDE DEF new
  <2>3. outcomes' = [b \in Attempts |-> outcomes'[b]] /\ outcomes'[a] = new
    BY <2>1 DEF ValidationInv
  <2>4. \A b \in Attempts : b # a => outcomes'[b] = outcomes[b]
    BY <2>1 DEF ValidationInv
  <2>5. \A b \in Attempts : FrozenContract(b)'
    BY <2>1 DEF ValidationInv, FrozenContract
  <2>6. OwnOutcome(a)'
    BY <2>1, <2>2, <2>3 DEF OwnOutcome
  <2>7. \A b \in Attempts : b # a => OwnOutcome(b)'
    BY <2>1, <2>4 DEF ValidationInv, OwnOutcome
  <2> QED
    BY <2>1, <2>3, <2>5, <2>6, <2>7 DEF ValidationInv
<1>3. CASE OtherCommit \/ Elapse \/ UNCHANGED validationVars
  BY <1>3 DEF OtherCommit, Elapse, validationVars, ValidationInv, FrozenContract, OwnOutcome
<1> QED
  BY <1>1, <1>2, <1>3 DEF ValidationNext

LEMMA ValidationInvariant == ValidationSpec => []ValidationInv
<1>1. ValidationInit => ValidationInv
  BY DEF ValidationInit, ValidationInv, FrozenContract, OwnOutcome
<1> QED
  BY <1>1, ValidationInductive, PTL DEF ValidationSpec

\* Under one contract more proof never turns VALIDATED into REJECTED or back, and never settles
\* a disagreement, whatever contracts and proofs there are (role-candidate-validation.ts,
\* docs/adr/0175).
THEOREM ValidationNeverFlips == ValidationSpec => []MoreProofNeverFlips
<1>1. ValidationInv => MoreProofNeverFlips
  <2> SUFFICES ASSUME ValidationInv, NEW a \in Attempts, NEW b \in Attempts,
                      outcomes[a] # Unset, outcomes[b] # Unset,
                      resolutions[a].resolution.contract = resolutions[b].resolution.contract,
                      outcomes[a].proofs \subseteq outcomes[b].proofs
               PROVE  LET few == outcomes[a].derived
                          more == outcomes[b].derived
                      IN /\ {few.state, more.state} # {"VALIDATED", "REJECTED"}
                         /\ "CONFLICTING_ELIGIBLE_PROOF" \in few.gaps => more.state = "UNRESOLVED"
    BY DEF MoreProofNeverFlips
  <2> DEFINE r == resolutions[a].resolution
             s == resolutions[b].resolution
  <2>1. s.contract = r.contract /\ r.contract \in Contracts \cup {Unset}
    BY DEF ValidationInv, FrozenContract, OwnOutcome
  <2>2. /\ outcomes[a].derived = Outcome(r, outcomes[a].proofs)
        /\ outcomes[b].derived = Outcome(s, outcomes[b].proofs)
        /\ outcomes[a].proofs \in SUBSET Proofs /\ outcomes[b].proofs \in SUBSET Proofs
    BY DEF ValidationInv, OwnOutcome
  <2> HIDE DEF r, s
  <2> QED
    BY <2>1, <2>2, MoreProofKeepsSides
<1> QED
  BY <1>1, ValidationInvariant, PTL

\* Whatever proofs arrive for a frozen contract, the outcome derived from them passes the check
\* it is written and read under (createRoleCandidateValidationOutcomeV1 and validateOutcomeCore
\* agree).
THEOREM ValidationAlwaysDecides == ValidationSpec => []EveryProofSetDecides
<1>1. ValidationInv => EveryProofSetDecides
  BY OutcomesAreConsistent DEF ValidationInv, FrozenContract, EveryProofSetDecides
<1> QED
  BY <1>1, ValidationInvariant, PTL

-----------------------------------------------------------------------------
(* The risk decision window: its decisions, its seal, its finalizations.    *)

\* What a decision that there is says, whoever made it and whenever.
DecisionSound(f, d) ==
  /\ {"resolution", "attested"} \subseteq DOMAIN d
  /\ d.decision \in {"DENY", "ACCEPT"} /\ d.maker \in Principals
  /\ d.resolution \in {"DENIED", "PENDING_DUAL_AUTHORITY", "ACCEPTED"}
  /\ d.resolution = "DENIED" <=> d.decision = "DENY"
  /\ d.decision = "ACCEPT" =>
       /\ d.terms \in Terms /\ Controls[d.terms] > 0
       /\ d.expires \in 1 .. MaxTime + 1 /\ d.recorded \in Nat
       /\ d.expires - d.recorded =< Lifetime[Severity[f]]
  /\ d.resolution = "PENDING_DUAL_AUTHORITY" =>
       /\ Severity[f] = "CRITICAL" /\ d.mode = "CRITICAL_DUAL_AUTHORITY"
       /\ d.attested \in Seq(Principals) /\ Len(d.attested) = 1 /\ d.attested[1] = d.maker
  /\ d.resolution = "ACCEPTED" /\ Severity[f] = "CRITICAL" =>
       DOMAIN d.attested = {1, 2} /\ Person[d.attested[1]] # Person[d.attested[2]]

\* What a seal says of the decisions it was computed from.
SealSound(seal, decisions) ==
  /\ Resolves(decisions)
  /\ seal.verdict = "SATISFIED" =>
       \A f \in Findings : decisions[f].decision = "ACCEPT" /\ decisions[f].expires > seal.at

RecordShape ==
  /\ record = [state |-> record.state, revision |-> record.revision,
               canceling |-> record.canceling, window |-> record.window,
               coverage |-> record.coverage, decisions |-> record.decisions,
               seal |-> record.seal]
  /\ record.revision \in Nat
  /\ record.decisions = [f \in Findings |-> record.decisions[f]]
  /\ now \in 0 .. MaxTime
  /\ finalizing = [c \in Finalizers |-> finalizing[c]]
DecisionsSound == \A f \in Findings : Decided(f) => DecisionSound(f, record.decisions[f])
WindowSound == record.window = "RESOLVED" => Resolves(record.decisions)
SealedSound ==
  record.seal # None => record.state = "SEALED" /\ SealSound(record.seal, record.decisions)
\* A finalization whose revision is still the record's has computed its seal from the decisions
\* that are there; any other will not be committed.
FinalizationsSound ==
  \A c \in Finalizers : finalizing[c] \notin {None, Due} =>
    /\ finalizing[c].revision \in Nat /\ finalizing[c].revision =< record.revision
    /\ finalizing[c].revision = record.revision =>
         SealSound(finalizing[c].seal, record.decisions)
RiskInv ==
  RecordShape /\ DecisionsSound /\ WindowSound /\ SealedSound /\ FinalizationsSound

LEMMA RequestParts ==
    ASSUME NEW q \in Requests
    PROVE  /\ q.finding \in Findings /\ q.principal \in Principals
           /\ q.decision \in {"DENY", "ACCEPT"}
           /\ q.decision = "ACCEPT" => /\ q.terms \in Terms /\ Controls[q.terms] > 0
                                       /\ q.expires \in 1 .. MaxTime + 1
<1> DEFINE deny == [finding : Findings, decision : {"DENY"}, terms : {None}, expires : {None},
                    principal : Principals, key : Keys]
           accept == [finding : Findings, decision : {"ACCEPT"},
                      terms : {t \in Terms : Controls[t] > 0}, expires : 1 .. MaxTime + 1,
                      principal : Principals, key : Keys]
<1>1. q \in deny \/ q \in accept
  BY DEF Requests
<1>2. CASE q \in deny
  BY <1>2
<1>3. CASE q \in accept
  BY <1>3
<1> QED
  BY <1>1, <1>2, <1>3

LEMMA AcceptRequests ==
    ASSUME NEW f \in Findings, NEW p \in Principals, NEW k \in Keys,
           NEW t \in Terms, Controls[t] > 0, NEW e \in 1 .. MaxTime + 1
    PROVE  [finding |-> f, decision |-> "ACCEPT", terms |-> t, expires |-> e,
            principal |-> p, key |-> k] \in Requests
  BY DEF Requests

LEMMA DenyRequests ==
    ASSUME NEW f \in Findings, NEW p \in Principals, NEW k \in Keys
    PROVE  [finding |-> f, decision |-> "DENY", terms |-> None, expires |-> None,
            principal |-> p, key |-> k] \in Requests
  BY DEF Requests

\* Whatever the store commits is a sound decision.
LEMMA AdmittedIsSound ==
    ASSUME RiskInv, NEW q \in Requests, Admits(q)
    PROVE  DecisionSound(q.finding, Made(q, AuthorizationMode(q)))
<1> DEFINE f == q.finding
           d == record.decisions[f]
           mode == AuthorizationMode(q)
<1>1. /\ f \in Findings /\ q.principal \in Principals
      /\ q.decision \in {"DENY", "ACCEPT"}
      /\ q.decision = "ACCEPT" => /\ q.terms \in Terms /\ Controls[q.terms] > 0
                                  /\ q.expires \in 1 .. MaxTime + 1
  BY RequestParts
<1>2. CASE Decided(f)
  <2> DEFINE r == [d EXCEPT !.resolution = "ACCEPTED", !.attested = Append(@, q.principal)]
  <2>1. Pending(f) /\ Matches(d, q)
    BY <1>2 DEF Admits, Committable
  <2>2. DecisionSound(f, d) /\ d.resolution = "PENDING_DUAL_AUTHORITY"
    BY <1>1, <1>2, <2>1 DEF RiskInv, DecisionsSound, Pending
  <2>3. d.attested \in Seq(Principals) /\ Len(d.attested) = 1 /\ d.attested[1] = d.maker
    BY <2>2 DEF DecisionSound
  <2>4. /\ DOMAIN Append(d.attested, q.principal) = {1, 2}
        /\ Append(d.attested, q.principal)[1] = d.maker
        /\ Append(d.attested, q.principal)[2] = q.principal
    BY <1>1, <2>3
  <2>6. Made(q, mode) = r
    BY <1>2 DEF Made
  <2>7. Person[d.maker] # Person[q.principal]
    BY <2>1 DEF Matches
  <2>8. /\ {"resolution", "attested"} \subseteq DOMAIN r
        /\ r.decision = d.decision /\ r.terms = d.terms /\ r.expires = d.expires
        /\ r.resolution = "ACCEPTED" /\ r.recorded = d.recorded /\ r.maker = d.maker
        /\ r.attested = Append(d.attested, q.principal)
    BY <2>2 DEF DecisionSound
  <2> HIDE DEF r
  <2>9. DecisionSound(f, r)
    BY <1>1, <2>2, <2>3, <2>4, <2>7, <2>8 DEF DecisionSound
  <2> QED
    BY <2>6, <2>9
<1>3. CASE ~Decided(f)
  <2> DEFINE resolution == IF q.decision = "DENY" THEN "DENIED"
                           ELSE IF mode = "SINGLE_AUTHORITY" THEN "ACCEPTED"
                           ELSE "PENDING_DUAL_AUTHORITY"
             attested == IF mode = "CRITICAL_DUAL_AUTHORITY" THEN <<q.principal>> ELSE <<>>
             r == [decision |-> q.decision, terms |-> q.terms, expires |-> q.expires,
                   mode |-> mode, resolution |-> resolution,
                   maker |-> q.principal, recorded |-> now, attested |-> attested]
  <2>1. Made(q, mode) = r
    BY <1>3 DEF Made
  <2>2. mode = Admission(q) /\ mode # None
    BY <1>3 DEF Admits, Committable, AuthorizationMode
  <2>3. q.decision = "DENY" => mode = "SINGLE_AUTHORITY"
    BY <2>2 DEF Admission
  <2>4. q.decision = "ACCEPT" =>
          /\ q.expires - now =< Lifetime[Severity[f]]
          /\ mode = IF Severity[f] = "CRITICAL" THEN "CRITICAL_DUAL_AUTHORITY"
                    ELSE "SINGLE_AUTHORITY"
    BY <2>2 DEF Admission
  <2>5. now \in Nat
    BY DEF RiskInv, RecordShape
  <2>6. /\ {"resolution", "attested"} \subseteq DOMAIN r
        /\ r.decision = q.decision /\ r.terms = q.terms /\ r.expires = q.expires
        /\ r.resolution = resolution /\ r.recorded = now /\ r.maker = q.principal
        /\ r.mode = mode /\ r.attested = attested
        /\ mode = "CRITICAL_DUAL_AUTHORITY" =>
             r.attested \in Seq(Principals) /\ Len(r.attested) = 1 /\ r.attested[1] = q.principal
    BY <1>1
  <2> HIDE DEF r, mode
  <2>7. DecisionSound(f, r)
    BY <1>1, <2>3, <2>4, <2>5, <2>6 DEF DecisionSound
  <2> QED
    BY <2>1, <2>7 DEF mode
<1> QED
  BY <1>2, <1>3

\* Every action but the decision leaves the decisions and, but for the seal, what was sealed.
LEMMA RiskInductive ==
    ASSUME RiskInv, [RiskNext]_riskVars
    PROVE  RiskInv'
<1> USE DEF RiskInv
<1>1. ASSUME NEW coverage, OpenRiskDecisionWindow(coverage)
      PROVE  RiskInv'
  <2>1. /\ record' = [state |-> "BLOCKED", revision |-> record.revision + 1,
                      canceling |-> record.canceling, window |-> "OPEN", coverage |-> coverage,
                      decisions |-> record.decisions, seal |-> record.seal]
        /\ record.state = "RUNNING" /\ UNCHANGED <<now, receipts, finalizing>>
    BY <1>1 DEF OpenRiskDecisionWindow, RecordShape
  <2>2. RecordShape' /\ DecisionsSound' /\ WindowSound'
    BY <2>1 DEF RecordShape, DecisionsSound, WindowSound, Decided
  <2>3. SealedSound' /\ FinalizationsSound'
    BY <2>1 DEF RecordShape, SealedSound, FinalizationsSound
  <2> QED
    BY <2>2, <2>3
<1>2. ASSUME NEW c \in Finalizers, NEW q \in Requests, RecordRiskDecision(c, q)
      PROVE  RiskInv'
  <2> DEFINE made == Made(q, AuthorizationMode(q))
             decisions == [record.decisions EXCEPT ![q.finding] = made]
             window == IF Resolves(decisions) THEN "RESOLVED" ELSE "OPEN"
  <2>1. /\ record' = [record EXCEPT !.decisions = decisions, !.revision = @ + 1,
                                    !.window = window]
        /\ record.state = "BLOCKED" /\ Admits(q)
        /\ finalizing' = [finalizing EXCEPT ![c] = Due] /\ now' = now
    BY <1>2 DEF RecordRiskDecision, Admits, Committable
  <2>2. DecisionSound(q.finding, made) /\ q.finding \in Findings
    BY <2>1, AdmittedIsSound, RequestParts
  <2> HIDE DEF made
  <2>3. /\ decisions = [f \in Findings |-> decisions[f]]
        /\ \A f \in Findings : decisions[f] = IF f = q.finding THEN made ELSE record.decisions[f]
    BY DEF RecordShape
  <2> HIDE DEF decisions
  <2>4. record' = [state |-> record.state, revision |-> record.revision + 1,
                   canceling |-> record.canceling, window |-> window,
                   coverage |-> record.coverage, decisions |-> decisions, seal |-> record.seal]
    BY <2>1 DEF RecordShape
  <2>5. finalizing' = [x \in Finalizers |-> IF x = c THEN Due ELSE finalizing[x]]
    BY <2>1 DEF RecordShape
  <2> HIDE DEF window
  <2>6. RecordShape'
    <3>1. /\ record'.revision = record.revision + 1 /\ record'.decisions = decisions
          /\ record' = [state |-> record'.state, revision |-> record'.revision,
                        canceling |-> record'.canceling, window |-> record'.window,
                        coverage |-> record'.coverage, decisions |-> record'.decisions,
                        seal |-> record'.seal]
      BY <2>4
    <3>2. finalizing' = [x \in Finalizers |-> finalizing'[x]]
      BY <2>5
    <3> QED
      BY <2>1, <2>3, <3>1, <3>2 DEF RecordShape
  <2>7. DecisionsSound'
    BY <2>2, <2>3, <2>4 DEF DecisionsSound, Decided
  <2>8. WindowSound' /\ SealedSound'
    BY <2>1, <2>4 DEF WindowSound, SealedSound, window
  <2>9. FinalizationsSound'
    BY <2>4, <2>5 DEF FinalizationsSound, RecordShape
  <2> QED
    BY <2>6, <2>7, <2>8, <2>9
<1>3. ASSUME NEW c \in Finalizers, NEW q \in Requests, ReplayRiskDecision(c, q)
      PROVE  RiskInv'
  <2>1. /\ UNCHANGED <<record, now>>
        /\ finalizing' = [x \in Finalizers |-> IF x = c THEN Due ELSE finalizing[x]]
    BY <1>3 DEF ReplayRiskDecision, RecordShape
  <2> QED
    BY <2>1 DEF RecordShape, DecisionsSound, WindowSound, SealedSound, FinalizationsSound, Decided
<1>4. ASSUME NEW c \in Finalizers, Finalize(c)
      PROVE  RiskInv'
  <2> DEFINE taken == [revision |-> record.revision, seal |-> FinalizedOutcome(now)]
             new == IF record.state = "BLOCKED" /\ record.window = "RESOLVED"
                    THEN taken ELSE None
  <2>1. /\ UNCHANGED <<record, now>>
        /\ finalizing' = [x \in Finalizers |-> IF x = c THEN new ELSE finalizing[x]]
    BY <1>4 DEF Finalize, RecordShape
  <2>2. taken.revision = record.revision /\ taken.seal = FinalizedOutcome(now)
    OBVIOUS
  <2>3. record.window = "RESOLVED" => SealSound(FinalizedOutcome(now), record.decisions)
    <3> SUFFICES ASSUME record.window = "RESOLVED"
                 PROVE  SealSound(FinalizedOutcome(now), record.decisions)
      OBVIOUS
    <3>1. Resolves(record.decisions)
      BY DEF WindowSound
    <3>2. \A f \in Findings : record.decisions[f].decision \in {"DENY", "ACCEPT"}
      BY <3>1 DEF Resolves, DecisionsSound, DecisionSound, Decided
    <3>3. /\ FinalizedOutcome(now).verdict = "SATISFIED" =>
               \A f \in Findings : /\ record.decisions[f].decision # "DENY"
                                   /\ record.decisions[f].decision = "ACCEPT" =>
                                        record.decisions[f].expires > now
          /\ FinalizedOutcome(now).at = now
      BY DEF FinalizedOutcome, Live
    <3> QED
      BY <3>1, <3>2, <3>3 DEF SealSound
  <2> HIDE DEF taken
  <2>4. FinalizationsSound'
    BY <2>1, <2>2, <2>3 DEF FinalizationsSound, RecordShape
  <2> QED
    BY <2>1, <2>4 DEF RecordShape, DecisionsSound, WindowSound, SealedSound, Decided
<1>5. ASSUME NEW c \in Finalizers, FinalizationFails(c)
      PROVE  RiskInv'
  <2>1. /\ UNCHANGED <<record, now>>
        /\ finalizing' = [x \in Finalizers |-> IF x = c THEN None ELSE finalizing[x]]
    BY <1>5 DEF FinalizationFails, RecordShape
  <2> QED
    BY <2>1 DEF RecordShape, DecisionsSound, WindowSound, SealedSound, FinalizationsSound, Decided
<1>6. ASSUME NEW c \in Finalizers, SealFinalized(c)
      PROVE  RiskInv'
  <2> DEFINE commits == /\ record.state = "BLOCKED" /\ record.window = "RESOLVED"
                        /\ ~record.canceling /\ record.revision = finalizing[c].revision
  <2>1. /\ finalizing' = [x \in Finalizers |-> IF x = c THEN None ELSE finalizing[x]]
        /\ finalizing[c] \notin {None, Due} /\ now' = now
    BY <1>6 DEF SealFinalized, RecordShape
  <2>2. CASE commits
    <3>1. record' = [state |-> "SEALED", revision |-> record.revision + 1,
                     canceling |-> record.canceling, window |-> record.window,
                     coverage |-> record.coverage, decisions |-> record.decisions,
                     seal |-> finalizing[c].seal]
      BY <1>6, <2>2 DEF SealFinalized, RecordShape
    <3>2. SealSound(finalizing[c].seal, record.decisions)
      BY <2>1, <2>2 DEF FinalizationsSound
    <3>3. RecordShape'
      BY <2>1, <3>1 DEF RecordShape
    <3>4. DecisionsSound' /\ WindowSound' /\ SealedSound'
      BY <3>1, <3>2 DEF DecisionsSound, WindowSound, SealedSound, Decided
    <3>5. FinalizationsSound'
      BY <2>1, <3>1 DEF FinalizationsSound, RecordShape
    <3> QED
      BY <3>3, <3>4, <3>5
  <2>3. CASE ~commits
    <3>1. record' = record
      BY <1>6, <2>3 DEF SealFinalized
    <3> QED
      BY <2>1, <3>1
         DEF RecordShape, DecisionsSound, WindowSound, SealedSound, FinalizationsSound, Decided
  <2> QED
    BY <2>2, <2>3
<1>7. CASE CancelWindow
  <2>1. \E state, canceling :
          record' = [state |-> state, revision |-> record.revision + 1,
                     canceling |-> canceling, window |-> record.window,
                     coverage |-> record.coverage, decisions |-> record.decisions,
                     seal |-> record.seal]
    <3>1. CASE record.canceling
      <4>1. record' = [state |-> "CANCELED", revision |-> record.revision + 1,
                       canceling |-> record.canceling, window |-> record.window,
                       coverage |-> record.coverage, decisions |-> record.decisions,
                       seal |-> record.seal]
        BY <1>7, <3>1 DEF CancelWindow, RecordShape
      <4> QED
        BY <4>1
    <3>2. CASE ~record.canceling
      <4>1. record' = [state |-> record.state, revision |-> record.revision + 1,
                       canceling |-> TRUE, window |-> record.window,
                       coverage |-> record.coverage, decisions |-> record.decisions,
                       seal |-> record.seal]
        BY <1>7, <3>2 DEF CancelWindow, RecordShape
      <4> QED
        BY <4>1
    <3> QED
      BY <3>1, <3>2
  <2>2. record.state # "SEALED" /\ UNCHANGED <<now, finalizing>>
    BY <1>7 DEF CancelWindow
  <2>3. /\ record'.revision = record.revision + 1 /\ record'.window = record.window
        /\ record'.decisions = record.decisions /\ record'.seal = record.seal
        /\ record' = [state |-> record'.state, revision |-> record'.revision,
                      canceling |-> record'.canceling, window |-> record'.window,
                      coverage |-> record'.coverage, decisions |-> record'.decisions,
                      seal |-> record'.seal]
    BY <2>1
  <2>4. RecordShape'
    BY <2>2, <2>3 DEF RecordShape
  <2>5. DecisionsSound' /\ WindowSound' /\ SealedSound'
    BY <2>2, <2>3 DEF DecisionsSound, WindowSound, SealedSound, Decided
  <2>6. FinalizationsSound'
    BY <2>2, <2>3 DEF FinalizationsSound, RecordShape
  <2> QED
    BY <2>4, <2>5, <2>6
<1>8. CASE Tick \/ UNCHANGED riskVars
  <2>1. UNCHANGED <<record, finalizing>> /\ now' \in 0 .. MaxTime
    BY <1>8, RiskAssumption DEF Tick, riskVars, RecordShape
  <2> QED
    BY <2>1 DEF RecordShape, DecisionsSound, WindowSound, SealedSound, FinalizationsSound, Decided
<1> QED
  BY <1>1, <1>2, <1>3, <1>4, <1>5, <1>6, <1>7, <1>8 DEF RiskNext

LEMMA RiskInvariant == RiskSpec => []RiskInv
<1>1. RiskInit => RiskInv
  <2> SUFFICES ASSUME RiskInit PROVE RiskInv
    OBVIOUS
  <2> USE DEF RiskInit
  <2>1. RecordShape
    BY RiskAssumption DEF RecordShape
  <2>2. DecisionsSound /\ WindowSound /\ SealedSound /\ FinalizationsSound
    <3>1. \A f \in Findings : record.decisions[f] = None
      OBVIOUS
    <3>2. \A c \in Finalizers : finalizing[c] = None
      OBVIOUS
    <3>3. record.window = None /\ record.seal = None
      OBVIOUS
    <3> QED
      BY <3>1, <3>2, <3>3, RiskAssumption
         DEF DecisionsSound, WindowSound, SealedSound, FinalizationsSound, Decided
  <2> QED
    BY <2>1, <2>2 DEF RiskInv
<1> QED
  BY <1>1, RiskInductive, PTL DEF RiskSpec

\* A set of two persons.
LEMMA TwoPersons ==
    ASSUME NEW d, DOMAIN d.attested = {1, 2}, Person[d.attested[1]] # Person[d.attested[2]]
    PROVE  Cardinality({Person[d.attested[i]] : i \in DOMAIN d.attested}) = 2
<1> DEFINE a == Person[d.attested[1]]
           b == Person[d.attested[2]]
<1>1. {Person[d.attested[i]] : i \in DOMAIN d.attested} = {a} \cup {b}
  OBVIOUS
<1> HIDE DEF a, b
<1>2. IsFiniteSet({a}) /\ Cardinality({a}) = 1
  BY FS_Singleton
<1>3. b \notin {a}
  BY DEF a, b
<1>4. Cardinality({a} \cup {b}) = Cardinality({a}) + 1
  BY <1>2, <1>3, FS_AddElement
<1> QED
  BY <1>1, <1>2, <1>4

\* A SATISFIED seal stands on acceptances that hold at its instant, were short enough when they
\* were made and, for a critical Finding, were attested by two persons, although the finalization
\* that computed it ran while others decided, canceled and finalized (finalizeResolvedRiskDecision
\* of src/src/index.ts, admit of risk-decision.ts).
THEOREM SatisfactionIsAccepted == RiskSpec => []SatisfiedIsAccepted
<1>1. RiskInv => SatisfiedIsAccepted
  <2> SUFFICES ASSUME RiskInv, record.seal # None, record.seal.verdict = "SATISFIED",
                      NEW f \in Findings
               PROVE  LET d == record.decisions[f]
                      IN /\ d.resolution = "ACCEPTED" /\ d.expires > record.seal.at
                         /\ d.expires - d.recorded =< Lifetime[Severity[f]]
                         /\ Severity[f] = "CRITICAL" =>
                              Cardinality({Person[d.attested[i]] : i \in DOMAIN d.attested}) = 2
    BY DEF SatisfiedIsAccepted
  <2> DEFINE d == record.decisions[f]
  <2>1. /\ d # None /\ d.resolution # "PENDING_DUAL_AUTHORITY"
        /\ d.decision = "ACCEPT" /\ d.expires > record.seal.at
    BY DEF RiskInv, SealedSound, SealSound, Resolves
  <2>2. DecisionSound(f, d)
    BY <2>1 DEF RiskInv, DecisionsSound, Decided
  <2> HIDE DEF d
  <2>3. d.resolution = "ACCEPTED" /\ d.expires - d.recorded =< Lifetime[Severity[f]]
    BY <2>1, <2>2 DEF DecisionSound
  <2>4. Severity[f] = "CRITICAL" =>
          Cardinality({Person[d.attested[i]] : i \in DOMAIN d.attested}) = 2
    BY <2>2, <2>3, TwoPersons DEF DecisionSound
  <2> QED
    BY <2>1, <2>3, <2>4 DEF d
<1> QED
  BY <1>1, RiskInvariant, PTL

\* A first attestation that has expired is final: no later request completes or replaces it, and
\* the window never resolves (recordRiskDecision of persistence.ts and admit of risk-decision.ts;
\* SECURITY-REVIEW.md, F-06).
THEOREM LapseIsFinal == RiskSpec => LapsedIsFinal
<1> DEFINE Kept == \A f \in Findings :
             (Pending(f) /\ record.decisions[f].expires =< now)
               => record'.decisions[f] = record.decisions[f] /\ record'.window # "RESOLVED"
<1>1. RiskInv /\ [RiskNext]_riskVars => [Kept]_riskVars
  <2> SUFFICES ASSUME RiskInv, RiskNext, NEW f \in Findings, Pending(f),
                      record.decisions[f].expires =< now
               PROVE  record'.decisions[f] = record.decisions[f] /\ record'.window # "RESOLVED"
    OBVIOUS
  <2>1. record.window # "RESOLVED"
    BY DEF RiskInv, WindowSound, Resolves, Pending, Decided
  <2>2. ASSUME NEW c \in Finalizers, NEW q \in Requests, RecordRiskDecision(c, q)
        PROVE  record'.decisions[f] = record.decisions[f] /\ record'.window # "RESOLVED"
    <3> DEFINE made == Made(q, AuthorizationMode(q))
               decisions == [record.decisions EXCEPT ![q.finding] = made]
               window == IF Resolves(decisions) THEN "RESOLVED" ELSE "OPEN"
    <3>1. /\ record' = [record EXCEPT !.decisions = decisions, !.revision = @ + 1,
                                      !.window = window]
          /\ Admits(q)
      BY <2>2 DEF RecordRiskDecision
    <3>2. record.decisions[f].expires \in Nat /\ now \in Nat
      BY DEF RiskInv, RecordShape, DecisionsSound, DecisionSound, Pending
    <3>3. q.finding # f
      BY <3>1, <3>2 DEF Admits, Committable, Matches, Pending
    <3> HIDE DEF made
    <3>4. decisions[f] = record.decisions[f]
      BY <3>3 DEF RiskInv, RecordShape
    <3> HIDE DEF decisions
    <3>5. ~Resolves(decisions)
      BY <3>4 DEF Resolves, Pending
    <3>6. record'.decisions = decisions /\ record'.window = window
      BY <3>1 DEF RiskInv, RecordShape
    <3> QED
      BY <3>4, <3>5, <3>6
  <2>3. ASSUME NEW coverage, OpenRiskDecisionWindow(coverage)
        PROVE  record'.decisions = record.decisions /\ record'.window # "RESOLVED"
    BY <2>3 DEF OpenRiskDecisionWindow, RiskInv, RecordShape
  <2>4. ASSUME NEW c \in Finalizers,
               Finalize(c) \/ FinalizationFails(c) \/ SealFinalized(c)
                 \/ \E q \in Requests : ReplayRiskDecision(c, q)
        PROVE  record'.decisions = record.decisions /\ record'.window = record.window
    BY <2>4 DEF Finalize, FinalizationFails, SealFinalized, ReplayRiskDecision, RiskInv, RecordShape
  <2>5. CASE CancelWindow \/ Tick
    <3>1. record'.decisions = record.decisions /\ record'.window = record.window
      BY <2>5 DEF CancelWindow, Tick, RiskInv, RecordShape
    <3> QED
      BY <3>1, <2>1
  <2> QED
    BY <2>1, <2>2, <2>3, <2>4, <2>5 DEF RiskNext
<1> QED
  BY <1>1, RiskInvariant, PTL DEF RiskSpec, LapsedIsFinal

\* The two pieces of code that decide what a principal may decide agree: projectAvailableAction
\* offers it exactly the decisions that recordRiskDecision with admit would commit for it now.
THEOREM OffersStayAdmitted == RiskSpec => []OffersAreAdmitted
<1>1. ASSUME RiskInv, ~record.canceling, NEW p \in Principals, NEW f \in Findings
      PROVE  Offered(p, f) =
               {q.decision : q \in {r \in Requests : r.principal = p /\ r.finding = f /\ Admits(r)}}
  <2> DEFINE d == record.decisions[f]
             admitted == {q.decision : q \in {r \in Requests :
                            r.principal = p /\ r.finding = f /\ Admits(r)}}
             open == record.state = "BLOCKED" /\ record.window = "OPEN"
  <2>1. now \in 0 .. MaxTime /\ MaxTime \in Nat /\ Severity[f] \in {"CRITICAL", "HIGH", "LOW"}
    BY <1>1, RiskAssumption DEF RiskInv, RecordShape
  <2>2. PICK k \in Keys : TRUE
    BY RiskAssumption
  <2>3. CASE ~open
    BY <2>3 DEF Offered, Admits, Committable
  <2>4. CASE open /\ ~Decided(f)
    <3>1. ASSUME NEW r \in Requests, r.principal = p, r.finding = f, Admits(r)
          PROVE  r.decision \in Offered(p, f)
      BY <2>4, <3>1, RequestParts
         DEF Offered, Admits, Committable, AuthorizationMode, Admission
    <3>2. "DENY" \in admitted
      <4> DEFINE r == [finding |-> f, decision |-> "DENY", terms |-> None, expires |-> None,
                       principal |-> p, key |-> k]
      <4>1. r \in Requests
        BY DenyRequests
      <4>2. r.finding = f /\ r.principal = p /\ r.decision = "DENY"
        OBVIOUS
      <4> HIDE DEF r
      <4>3. AuthorizationMode(r) = "SINGLE_AUTHORITY"
        BY <2>4, <4>2 DEF AuthorizationMode, Admission
      <4>4. Admits(r)
        BY <1>1, <2>4, <4>2, <4>3, RiskAssumption DEF Admits, Committable
      <4> QED
        BY <4>1, <4>2, <4>4
    <3>3. ASSUME Severity[f] # "CRITICAL" \/ (Qualified(p) /\ CriticalControl)
          PROVE  "ACCEPT" \in admitted
      <4>1. PICK t \in Terms : Controls[t] >= 2
        BY RiskAssumption
      <4>2. Controls[t] \in Nat /\ Controls[t] > 0
        BY <4>1, RiskAssumption
      <4> DEFINE r == [finding |-> f, decision |-> "ACCEPT", terms |-> t, expires |-> now + 1,
                       principal |-> p, key |-> k]
      <4>3. r \in Requests
        BY <2>1, <4>2, AcceptRequests
      <4>4. /\ r.finding = f /\ r.principal = p /\ r.decision = "ACCEPT"
            /\ r.terms = t /\ r.expires = now + 1
        OBVIOUS
      <4> HIDE DEF r
      <4>5. r.expires > now /\ r.expires - now =< Lifetime[Severity[f]]
        BY <2>1, <4>4, RiskAssumption
      <4>6. AuthorizationMode(r) = IF Severity[f] = "CRITICAL" THEN "CRITICAL_DUAL_AUTHORITY"
                                   ELSE "SINGLE_AUTHORITY"
        BY <2>4, <3>3, <4>1, <4>4, <4>5 DEF AuthorizationMode, Admission
      <4>7. Admits(r)
        BY <1>1, <2>4, <3>3, <4>4, <4>6, RiskAssumption DEF Admits, Committable, Qualified
      <4> QED
        BY <4>3, <4>4, <4>7
    <3>4. Offered(p, f) = {"DENY"} \cup
            (IF Severity[f] # "CRITICAL" \/ (Qualified(p) /\ CriticalControl)
             THEN {"ACCEPT"} ELSE {})
      BY <2>4 DEF Offered
    <3> QED
      BY <3>1, <3>2, <3>3, <3>4
  <2>5. CASE open /\ Decided(f)
    <3>1. DecisionSound(f, d)
      BY <1>1, <2>5 DEF RiskInv, DecisionsSound
    <3>2. Pending(f) =>
            /\ Severity[f] = "CRITICAL" /\ d.mode = "CRITICAL_DUAL_AUTHORITY"
            /\ d.terms \in Terms /\ Controls[d.terms] > 0 /\ d.expires \in 1 .. MaxTime + 1
            /\ DOMAIN d.attested = {1} /\ d.attested[1] = d.maker
      BY <3>1 DEF Pending, DecisionSound
    <3>3. ASSUME NEW r \in Requests, r.principal = p, r.finding = f, Admits(r)
          PROVE  r.decision \in Offered(p, f)
      <4>1. /\ Pending(f) /\ r.decision = "ACCEPT" /\ CriticalControl /\ d.expires > now
            /\ Person[d.maker] # Person[p]
        BY <2>5, <3>3 DEF Admits, Committable, Matches
      <4>2. Qualified(p)
        BY <3>2, <3>3, <4>1 DEF Admits, Committable, AuthorizationMode
      <4>3. \A i \in DOMAIN d.attested : Person[d.attested[i]] # Person[p]
        BY <3>2, <4>1
      <4> QED
        BY <2>5, <3>2, <4>1, <4>2, <4>3 DEF Offered
    <3>4. ASSUME Offered(p, f) # {}
          PROVE  "ACCEPT" \in admitted
      <4>1. /\ Pending(f) /\ Qualified(p) /\ CriticalControl /\ d.expires > now
            /\ \A i \in DOMAIN d.attested : Person[d.attested[i]] # Person[p]
        BY <2>5, <3>4 DEF Offered
      <4> DEFINE r == [finding |-> f, decision |-> "ACCEPT", terms |-> d.terms,
                       expires |-> d.expires, principal |-> p, key |-> k]
      <4>2. r \in Requests
        BY <3>2, <4>1, AcceptRequests
      <4>3. /\ r.finding = f /\ r.principal = p /\ r.decision = "ACCEPT"
            /\ r.terms = d.terms /\ r.expires = d.expires
        OBVIOUS
      <4> HIDE DEF r
      <4>4. AuthorizationMode(r) = "CRITICAL_DUAL_AUTHORITY"
        BY <2>5, <3>2, <4>1, <4>3 DEF AuthorizationMode
      <4>5. Matches(d, r)
        BY <3>2, <4>1, <4>3 DEF Matches
      <4>6. Admits(r)
        BY <1>1, <2>5, <4>1, <4>3, <4>4, <4>5, RiskAssumption DEF Admits, Committable, Qualified
      <4> QED
        BY <4>2, <4>3, <4>6
    <3>5. Offered(p, f) \subseteq {"ACCEPT"}
      BY <2>5 DEF Offered
    <3> QED
      BY <3>3, <3>4, <3>5
  <2> QED
    BY <2>3, <2>4, <2>5
<1>2. RiskInv => OffersAreAdmitted
  BY <1>1 DEF OffersAreAdmitted
<1> QED
  BY <1>2, RiskInvariant, PTL

-----------------------------------------------------------------------------
(* The kernel: an evaluation and the Subject that it is of.                  *)

\* What the policies need of an Assessment asked for, one fact at a time.
LEMMA AssessmentFacts ==
    ASSUME NEW s \in Assessments
    PROVE  /\ s.policy \in Policies
           /\ s.profiled \in BOOLEAN /\ s.legible \in BOOLEAN /\ s.targeted \in BOOLEAN
           /\ s.slices \in Nat /\ s.entries \in Nat /\ s.odd \in Nat /\ s.beyond \in Nat
           /\ s.odd <= s.entries
           /\ ~s.legible => s.slices > 0
           /\ s.beyond > 0 => s.policy \in Reports
           /\ s.slices = 0 => s.entries = 0
           /\ s.policy = "PNPM_LOCKFILE" => s.entries <= 3
  BY KernelAssumption

\* A contribution of the package, by the policy of its Analyzer.
LEMMA OwnIsOfItsPolicy ==
    ASSUME NEW s
    PROVE  /\ s.policy \in Reports => OwnContribution(s) = ReportContribution(s)
           /\ s.policy = "GITHUB_ACTIONS" => OwnContribution(s) = WorkflowContribution(s)
           /\ s.policy = "PNPM_LOCKFILE" => OwnContribution(s) = PnpmContribution(s)
           /\ s.policy = "NPM_PUBLISH_SURFACE" => OwnContribution(s) = PublishSurfaceContribution(s)
  BY DEF OwnContribution, Reports

\* The normalizer of a report states no more violations than the Subject has, and claims to be
\* complete only of reports that it could read.
LEMMA ReportsAreBounded ==
    ASSUME NEW s \in Assessments, s.policy \in Reports
    PROVE  LET c == ReportContribution(s)
           IN  /\ c.exact \in Nat /\ c.stray \in Nat /\ c.evidence \in Nat
               /\ c.exact <= s.entries
               /\ c.disposition = "COMPLETE" => s.legible
<1> DEFINE read == AtMost(s.slices, MaxReportSlices)
           fits == s.entries <= MaxReportCandidates
           kept == IF fits THEN s.entries
                   ELSE IF s.policy = "GITLEAKS" THEN 0 ELSE MaxReportCandidates
           odd == AtMost(s.odd, kept)
           dropped == IF s.legible /\ (fits \/ s.policy # "GITLEAKS") THEN 0 ELSE 1
           c == ReportContribution(s)
<1>1. /\ c.exact = kept - odd /\ c.stray = odd /\ c.evidence = read - dropped
      /\ c.disposition = IF s.slices = 0 THEN "UNSUPPORTED"
                         ELSE IF s.legible /\ fits THEN "COMPLETE" ELSE "INCOMPLETE"
  BY DEF ReportContribution, Contribution
<1>2. kept \in Nat /\ kept <= s.entries
  BY AssessmentFacts DEF MaxReportCandidates
<1>3. odd \in Nat /\ odd <= kept
  BY <1>2, AssessmentFacts DEF AtMost
<1>4. read \in Nat /\ dropped \in 0 .. 1
  BY AssessmentFacts DEF AtMost, MaxReportSlices
<1>5. dropped = 1 => read > 0
  BY AssessmentFacts DEF AtMost, MaxReportSlices, MaxReportCandidates
<1> HIDE DEF read, kept, odd, dropped, fits, c
<1>6. c.exact \in Nat /\ c.exact <= s.entries
  BY <1>1, <1>2, <1>3, AssessmentFacts
<1>7. c.stray \in Nat
  BY <1>1, <1>3
<1>8. c.evidence \in Nat
  BY <1>1, <1>4, <1>5
<1>9. c.disposition = "COMPLETE" => s.legible
  BY <1>1
<1> QED
  BY <1>6, <1>7, <1>8, <1>9 DEF c

\* An Analyzer of declarations states each violation that it counts exactly, all of them when it
\* is complete; those of workflows and of lockfiles bound how many they state.
LEMMA DeclarationsAreExact ==
    ASSUME NEW s \in Assessments, s.policy \in Declarations
    PROVE  LET c == OwnContribution(s)
           IN  /\ c.exact \in Nat /\ c.stray = 0 /\ c.evidence = 1
               /\ c.exact <= s.entries
               /\ c.claims <=> c.disposition = "COMPLETE"
               /\ c.disposition = "COMPLETE" => s.legible /\ c.exact = s.entries
               /\ s.policy # "NPM_PUBLISH_SURFACE" =>
                    /\ c.exact <= MaxWorkflowCandidates
                    /\ s.entries > 0 => c.exact > 0
                    /\ s.legible /\ s.entries = 0 => c.disposition = "COMPLETE"
<1> DEFINE c == OwnContribution(s)
<1>1. CASE s.policy = "GITHUB_ACTIONS"
  <2>1. c = WorkflowContribution(s)
    BY <1>1, OwnIsOfItsPolicy
  <2>2. /\ c.exact = AtMost(s.entries, MaxWorkflowCandidates)
        /\ c.stray = 0 /\ c.evidence = 1
        /\ c.disposition = IF s.legible /\ s.entries <= MaxWorkflowCandidates
                           THEN "COMPLETE" ELSE "INCOMPLETE"
        /\ c.claims = (c.disposition = "COMPLETE")
    BY <2>1 DEF WorkflowContribution, Contribution
  <2>3. c.exact \in Nat /\ c.exact <= s.entries /\ c.exact <= MaxWorkflowCandidates
    BY <2>2, AssessmentFacts DEF AtMost, MaxWorkflowCandidates
  <2>4. c.disposition = "COMPLETE" => s.legible /\ c.exact = s.entries
    BY <2>2, AssessmentFacts DEF AtMost, MaxWorkflowCandidates
  <2>5. s.entries > 0 => c.exact > 0
    BY <2>2, AssessmentFacts DEF AtMost, MaxWorkflowCandidates
  <2>6. s.legible /\ s.entries = 0 => c.disposition = "COMPLETE"
    BY <2>2, AssessmentFacts DEF MaxWorkflowCandidates
  <2> QED
    BY <1>1, <2>2, <2>3, <2>4, <2>5, <2>6
<1>2. CASE s.policy = "PNPM_LOCKFILE"
  <2>1. c = PnpmContribution(s)
    BY <1>2, OwnIsOfItsPolicy
  <2>2. /\ c.exact = s.entries /\ c.stray = 0 /\ c.evidence = 1
        /\ c.disposition = IF s.legible THEN "COMPLETE" ELSE "INCOMPLETE"
        /\ c.claims = (c.disposition = "COMPLETE")
    BY <2>1 DEF PnpmContribution, Contribution
  <2> QED
    BY <1>2, <2>2, AssessmentFacts DEF MaxWorkflowCandidates
<1>3. CASE s.policy = "NPM_PUBLISH_SURFACE"
  <2>1. c = PublishSurfaceContribution(s)
    BY <1>3, OwnIsOfItsPolicy
  <2>2. /\ c.exact = IF s.legible THEN s.entries ELSE 0
        /\ c.stray = 0 /\ c.evidence = 1
        /\ c.disposition = IF s.legible THEN "COMPLETE" ELSE "INCOMPLETE"
        /\ c.claims = (c.disposition = "COMPLETE")
    BY <2>1 DEF PublishSurfaceContribution, Contribution
  <2> QED
    BY <1>3, <2>2, AssessmentFacts
<1> QED
  BY <1>1, <1>2, <1>3 DEF Declarations

\* An analysis of the Subject s in a portfolio frozen at an instant.
AnalysisOf(s, at, x) ==
  /\ x.entry.terms \in Qualifications \cup {OwnTerm, Missing}
  /\ x.entry.eligible = EligibleAt(x.entry.terms, at)
  /\ \/ x.entry.analyzer \in Hosts /\ x.contribution \in HostContributions(s)
     \/ x.entry.analyzer = Own /\ OwnSelected(s) /\ x.contribution = OwnContribution(s)

\* The numbers of an analysis; a violation is stated exactly only of a Subject that has it,
\* but for the reference control, which a candidate may also say to be satisfied.
LEMMA AnalysesCount ==
    ASSUME NEW s \in Assessments, NEW at \in Nat, NEW x, AnalysisOf(s, at, x)
    PROVE  /\ x.contribution.exact \in Nat /\ x.contribution.stray \in Nat
           /\ x.contribution.evidence \in Nat
           /\ x.entry.analyzer = Own => /\ s.policy \in Package
                                        /\ x.contribution = OwnContribution(s)
                                        /\ x.contribution.exact <= s.entries
           /\ x.entry.eligible \in BOOLEAN
<1>1. x.entry.eligible \in BOOLEAN
  BY KernelAssumption DEF AnalysisOf, EligibleAt
<1>2. CASE x.entry.analyzer \in Hosts /\ x.contribution \in HostContributions(s)
  <2>1. /\ x.contribution.exact \in 0 .. 1 /\ x.contribution.stray \in 0 .. 1
        /\ x.contribution.evidence \in 0 .. 1
    BY <1>2 DEF HostContributions
  <2> QED
    BY <1>1, <1>2, <2>1, KernelAssumption
<1>3. CASE x.entry.analyzer = Own /\ OwnSelected(s) /\ x.contribution = OwnContribution(s)
  <2>1. s.policy \in Reports \/ s.policy \in Declarations
    BY <1>3 DEF OwnSelected, Package
  <2>2. CASE s.policy \in Reports
    BY <1>1, <1>3, <2>2, OwnIsOfItsPolicy, ReportsAreBounded DEF OwnSelected
  <2>3. CASE s.policy \in Declarations
    BY <1>1, <1>3, <2>3, DeclarationsAreExact DEF OwnSelected
  <2> QED
    BY <2>1, <2>2, <2>3
<1> QED
  BY <1>2, <1>3 DEF AnalysisOf

\* Findings are counted one by one: there is one if and only if some analysis has a candidate
\* that was validated.
LEMMA FindingsCounted ==
    ASSUME NEW s, NEW A, IsFiniteSet(A), \A x \in A : Validated(s, x) \in Nat
    PROVE  LET n == Cardinality(FindingsOf(s, A))
           IN  /\ n \in Nat
               /\ n > 0 <=> \E x \in A : Validated(s, x) > 0
<1> DEFINE of(x) == {x} \X (1 .. Validated(s, x))
           parts == {of(x) : x \in A}
           f == [x \in A |-> of(x)]
<1>1. f \in Surjection(A, parts)
  BY DEF Surjection
<1>2. IsFiniteSet(parts)
  BY <1>1, FS_Surjection
<1>3. \A x \in A : IsFiniteSet(of(x))
  <2> SUFFICES ASSUME NEW x \in A PROVE IsFiniteSet(of(x))
    OBVIOUS
  <2>1. Validated(s, x) \in Int
    OBVIOUS
  <2>2. IsFiniteSet(1 .. Validated(s, x))
    BY <2>1, FS_Interval
  <2>3. IsFiniteSet({x})
    BY FS_Singleton
  <2> QED
    BY <2>2, <2>3, FS_Product
<1>4. \A p \in parts : IsFiniteSet(p)
  BY <1>3
<1>5. IsFiniteSet(UNION parts)
  BY <1>2, <1>4, FS_UNION
<1>6. FindingsOf(s, A) = UNION parts
  BY DEF FindingsOf
<1>7. Cardinality(UNION parts) \in Nat /\ (Cardinality(UNION parts) = 0 <=> UNION parts = {})
  BY <1>5, FS_CardinalityType, FS_EmptySet
<1>8. UNION parts = {} <=> ~\E x \in A : Validated(s, x) > 0
  <2>1. ASSUME NEW x \in A, Validated(s, x) > 0
        PROVE  UNION parts # {}
    <3>1. <<x, 1>> \in of(x)
      BY <2>1
    <3> QED
      BY <3>1
  <2>2. ASSUME UNION parts # {}
        PROVE  \E x \in A : Validated(s, x) > 0
    <3>1. PICK x \in A : of(x) # {}
      BY <2>2
    <3>2. 1 .. Validated(s, x) # {}
      BY <3>1
    <3> QED
      BY <3>2
  <2> QED
    BY <2>1, <2>2
<1> HIDE DEF parts, f
<1> QED
  BY <1>6, <1>7, <1>8

\* Validation, by the policy.
LEMMA ValidatedByPolicy ==
    ASSUME NEW s, NEW x
    PROVE  /\ s.policy \in Reports => Validated(s, x) = ReportValidated(x)
           /\ s.policy \in Declarations => Validated(s, x) = DeclarationValidated(s, x)
           /\ s.policy = "REFERENCE" => Validated(s, x) = ReferenceValidated(s, x)
           /\ s.policy \notin GateBearing => Validated(s, x) = 0
  BY DEF Validated, Reports, Declarations, GateBearing, Package

\* A finding is a violation of the Subject.
LEMMA FindingsAreViolations ==
    ASSUME NEW s \in Assessments, NEW at \in Nat, NEW x, AnalysisOf(s, at, x)
    PROVE  /\ Validated(s, x) \in Nat
           /\ Validated(s, x) > 0 => s.entries > 0
<1> USE AnalysesCount, AssessmentFacts
<1>1. CASE s.policy \in Reports
  BY <1>1, ValidatedByPolicy DEF ReportValidated
<1>2. CASE s.policy \in Declarations
  BY <1>2, ValidatedByPolicy DEF DeclarationValidated
<1>3. CASE s.policy = "REFERENCE"
  BY <1>3, ValidatedByPolicy DEF ReferenceValidated, ReferenceResolved
<1>4. CASE s.policy \notin GateBearing
  BY <1>4, ValidatedByPolicy
<1> QED
  BY <1>1, <1>2, <1>3, <1>4 DEF GateBearing, Package

\* What completes coverage, of an analysis that no candidate is left open of and that has no
\* finding: the Subject was read, and states no violation.
LEMMA CompletionIsClean ==
    ASSUME NEW s \in Assessments, NEW at \in Nat, NEW x, AnalysisOf(s, at, x),
           s.policy \in GateBearing, s.policy = "REFERENCE" => Proposed(x) > 0,
           StructurallyBound(x), CoverageVerified(s, x),
           ~(LeftOpen(s, x) > 0), ~(Validated(s, x) > 0)
    PROVE  /\ s.legible /\ s.entries = 0 /\ s.beyond = 0
           /\ s.slices > 0 \/ s.policy \in Declarations
<1> DEFINE c == x.contribution
<1>1. c.exact \in Nat /\ c.stray \in Nat
  BY AnalysesCount
<1>2. x.entry.eligible /\ c.disposition = "COMPLETE" /\ c.claims
  BY DEF StructurallyBound
<1>3. CASE s.policy \in Reports
  <2>1. ReportVerified(s, x)
    BY <1>3 DEF CoverageVerified
  <2>2. x.entry.analyzer = Own /\ s.slices > 0 /\ c.exact = s.entries + s.beyond
    BY <2>1 DEF ReportVerified
  <2>3. Validated(s, x) = c.exact
    BY <1>2, <1>3, <2>2, ValidatedByPolicy DEF ReportValidated
  <2>4. s.entries = 0 /\ s.beyond = 0
    BY <1>1, <2>2, <2>3, AssessmentFacts
  <2>5. c = ReportContribution(s)
    BY <1>3, <2>2, AnalysesCount, OwnIsOfItsPolicy
  <2>6. s.legible
    BY <1>2, <1>3, <2>5, ReportsAreBounded
  <2> QED
    BY <2>2, <2>4, <2>6
<1>4. CASE s.policy \in Declarations
  <2>1. DeclarationVerified(s, x)
    BY <1>4 DEF CoverageVerified
  <2>2. x.entry.analyzer = Own /\ c = OwnContribution(s)
    BY <2>1 DEF DeclarationVerified
  <2>3. Validated(s, x) = c.exact
    BY <1>2, <1>4, <2>2, ValidatedByPolicy DEF DeclarationValidated
  <2>4. s.legible /\ c.exact = s.entries
    BY <1>2, <1>4, <2>2, DeclarationsAreExact
  <2>5. s.policy \notin Reports
    BY <1>4 DEF Reports, Declarations
  <2> QED
    BY <1>4, <2>3, <2>4, <2>5, AssessmentFacts
<1>5. CASE s.policy = "REFERENCE"
  <2>1. s.policy \notin Package
    BY <1>5 DEF Package, Reports, Declarations
  <2>2. c \in HostContributions(s)
    BY <2>1 DEF AnalysisOf, OwnSelected
  <2>3. /\ c.exact + c.stray > 0 => s.slices > 0
        /\ c.exact > 0 => s.legible
    BY <2>2 DEF HostContributions
  <2>4. Proposed(x) = c.exact + c.stray
    BY DEF Proposed
  <2>5. ReferenceResolved(s, x) = IF s.legible THEN c.exact ELSE 0
    BY <1>2 DEF ReferenceResolved
  <2>6. LeftOpen(s, x) = (c.exact + c.stray) - ReferenceResolved(s, x)
    BY <1>5, <2>4 DEF LeftOpen
  <2>7. s.legible /\ c.exact > 0 /\ s.slices > 0
    BY <1>1, <1>5, <2>3, <2>4, <2>5, <2>6
  <2>8. Validated(s, x) = IF s.entries > 0 THEN c.exact ELSE 0
    BY <1>5, <2>5, <2>7, ValidatedByPolicy DEF ReferenceValidated
  <2>9. s.policy \notin Reports
    BY <1>5 DEF Reports
  <2> QED
    BY <2>7, <2>8, <2>9, AssessmentFacts
<1> QED
  BY <1>3, <1>4, <1>5 DEF GateBearing, Package

\* The outcome of a portfolio: SATISFIED of a clean Subject, FAILED of one with a violation,
\* complete by an eligible Analyzer, and ready to be sealed.
LEMMA OutcomesAreEarned ==
    ASSUME NEW s \in Assessments, NEW at \in Nat, NEW A, IsFiniteSet(A),
           \A x \in A : AnalysisOf(s, at, x)
    PROVE  LET o == ExternalOutcome(s, A)
           IN  /\ o.verdict = "SATISFIED" =>
                    /\ s.policy \in GateBearing
                    /\ s.legible /\ s.entries = 0 /\ s.beyond = 0
                    /\ s.slices > 0 \/ s.policy \in Declarations
               /\ o.verdict = "FAILED" => s.entries > 0
               /\ o.coverage = "COMPLETE" =>
                    \E x \in A : x.entry \in o.eligible /\ x.entry.eligible
               /\ SealReady(o)
<1> DEFINE findings == Cardinality(FindingsOf(s, A))
           evidence == Cardinality(EvidenceOf(s, A))
           eligible == {x.entry : x \in {y \in A : EvidenceEligible(s, y)}}
           unresolved == \E x \in A : LeftOpen(s, x) > 0
           covered == \E x \in A : /\ s.policy = "REFERENCE" => Proposed(x) > 0
                                   /\ StructurallyBound(x) /\ CoverageVerified(s, x)
           complete == s.policy \in GateBearing /\ ~unresolved /\ covered
           o == ExternalOutcome(s, A)
<1>1. o = IF findings > 0
          THEN Evaluated("FAILED", IF complete THEN "COMPLETE" ELSE "GAP", findings, evidence, eligible)
          ELSE IF complete THEN Evaluated("SATISFIED", "COMPLETE", 0, evidence, eligible)
          ELSE Indeterminate(evidence, eligible)
  BY DEF ExternalOutcome
<1>2. /\ findings \in Nat
      /\ findings > 0 <=> \E x \in A : Validated(s, x) > 0
  BY FindingsCounted, FindingsAreViolations
<1>3. complete =>
        /\ s.policy \in GateBearing
        /\ \E x \in A : /\ x.entry \in eligible /\ x.entry.eligible
                        /\ s.policy = "REFERENCE" => Proposed(x) > 0
                        /\ StructurallyBound(x) /\ CoverageVerified(s, x)
                        /\ ~(LeftOpen(s, x) > 0)
  <2> SUFFICES ASSUME complete
               PROVE  \E x \in A : /\ x.entry \in eligible /\ x.entry.eligible
                                   /\ s.policy = "REFERENCE" => Proposed(x) > 0
                                   /\ StructurallyBound(x) /\ CoverageVerified(s, x)
                                   /\ ~(LeftOpen(s, x) > 0)
    OBVIOUS
  <2>1. PICK x \in A : /\ s.policy = "REFERENCE" => Proposed(x) > 0
                       /\ StructurallyBound(x) /\ CoverageVerified(s, x)
    OBVIOUS
  <2>2. EvidenceEligible(s, x)
    BY <2>1 DEF EvidenceEligible, GateBearing
  <2>3. x.entry.eligible
    BY <2>1 DEF StructurallyBound
  <2> QED
    BY <2>1, <2>2, <2>3
<1> HIDE DEF complete, eligible, evidence, findings, o
<1>4. CASE findings > 0
  <2>1. o = Evaluated("FAILED", IF complete THEN "COMPLETE" ELSE "GAP", findings, evidence, eligible)
    BY <1>1, <1>4
  <2>2. /\ o.verdict = "FAILED" /\ o.findings = findings /\ o.eligible = eligible
        /\ o.coverage = "COMPLETE" => complete
    BY <2>1 DEF Evaluated
  <2>3. s.entries > 0
    BY <1>2, <1>4, FindingsAreViolations
  <2>4. SealReady(o)
    BY <1>4, <2>2 DEF SealReady
  <2> QED
    BY <1>3, <2>2, <2>3, <2>4 DEF o
<1>5. CASE ~(findings > 0) /\ complete
  <2>1. o = Evaluated("SATISFIED", "COMPLETE", 0, evidence, eligible)
    BY <1>1, <1>5
  <2>2. /\ o.verdict = "SATISFIED" /\ o.findings = 0 /\ o.eligible = eligible
        /\ o.coverage = "COMPLETE"
    BY <2>1 DEF Evaluated
  <2>3. PICK x \in A : /\ x.entry \in eligible /\ x.entry.eligible
                       /\ s.policy = "REFERENCE" => Proposed(x) > 0
                       /\ StructurallyBound(x) /\ CoverageVerified(s, x)
                       /\ ~(LeftOpen(s, x) > 0)
    BY <1>3, <1>5
  <2>4. /\ s.legible /\ s.entries = 0 /\ s.beyond = 0
        /\ s.slices > 0 \/ s.policy \in Declarations
    BY <1>2, <1>3, <1>5, <2>3, CompletionIsClean
  <2>5. SealReady(o)
    BY <2>2 DEF SealReady
  <2> QED
    BY <1>3, <1>5, <2>2, <2>3, <2>4, <2>5 DEF o
<1>6. CASE ~(findings > 0) /\ ~complete
  <2>1. o = Indeterminate(evidence, eligible)
    BY <1>1, <1>6
  <2>2. o.verdict = "INDETERMINATE" /\ o.coverage = "GAP" /\ o.findings = 0
    BY <2>1 DEF Indeterminate, Evaluated
  <2>3. SealReady(o)
    BY <2>2 DEF SealReady
  <2> QED
    BY <2>2, <2>3 DEF o
<1> QED
  BY <1>4, <1>5, <1>6

\* The outcome of the lifecycle policy, whose Analyzer is not in the portfolio.
LEMMA LifecycleIsEarned ==
    ASSUME NEW s \in Assessments, s.policy = "NODE_LIFECYCLE"
    PROVE  LET o == LifecycleOutcome(s)
           IN  /\ o.verdict = "SATISFIED" <=> s.slices > 0 /\ s.legible /\ s.entries = 0
               /\ o.verdict = "FAILED" <=> s.entries > 0
               /\ o.evidence \in 2 .. 3
               /\ SealReady(o)
<1> DEFINE c == ManifestContribution(s)
           coverage == IF c.disposition = "COMPLETE" THEN "COMPLETE" ELSE "GAP"
           o == LifecycleOutcome(s)
<1>1. /\ c.disposition = IF s.slices = 0 THEN "UNSUPPORTED"
                         ELSE IF s.legible THEN "COMPLETE" ELSE "INCOMPLETE"
      /\ c.exact = s.entries
  BY DEF ManifestContribution, Contribution
<1>2. o = IF c.disposition = "UNSUPPORTED" \/ (c.disposition = "INCOMPLETE" /\ c.exact = 0)
          THEN Indeterminate(2, {})
          ELSE Evaluated(IF c.exact > 0 THEN "FAILED" ELSE "SATISFIED", coverage, c.exact, 3, {Own})
  BY DEF LifecycleOutcome
<1>3. s.slices \in Nat /\ s.entries \in Nat /\ (s.slices = 0 => s.entries = 0) /\ s.legible \in BOOLEAN
  BY AssessmentFacts
<1> HIDE DEF c, o
<1>4. CASE c.disposition = "UNSUPPORTED" \/ (c.disposition = "INCOMPLETE" /\ c.exact = 0)
  <2>1. o.verdict = "INDETERMINATE" /\ o.coverage = "GAP" /\ o.findings = 0 /\ o.evidence = 2
    BY <1>2, <1>4 DEF Indeterminate, Evaluated
  <2>2. s.entries = 0 /\ ~(s.slices > 0 /\ s.legible)
    BY <1>1, <1>3, <1>4
  <2> QED
    BY <2>1, <2>2 DEF SealReady, o
<1>5. CASE ~(c.disposition = "UNSUPPORTED" \/ (c.disposition = "INCOMPLETE" /\ c.exact = 0))
  <2>1. /\ o.verdict = IF c.exact > 0 THEN "FAILED" ELSE "SATISFIED"
        /\ o.coverage = coverage /\ o.findings = c.exact /\ o.evidence = 3
    BY <1>2, <1>5 DEF Evaluated
  <2>2. s.slices > 0
    BY <1>1, <1>3, <1>5
  <2>3. ~(c.exact > 0) => s.legible /\ s.entries = 0 /\ coverage = "COMPLETE"
    BY <1>1, <1>3, <1>5
  <2> HIDE DEF coverage
  <2>4. SealReady(o)
    BY <1>1, <1>3, <2>1, <2>3 DEF SealReady
  <2>5. o.verdict = "SATISFIED" <=> s.slices > 0 /\ s.legible /\ s.entries = 0
    BY <1>1, <1>3, <2>1, <2>2, <2>3
  <2>6. o.verdict = "FAILED" <=> s.entries > 0
    BY <1>1, <1>3, <2>1
  <2> QED
    BY <2>1, <2>4, <2>5, <2>6 DEF o
<1> QED
  BY <1>4, <1>5

\* An evaluation, by what is assessed.
LEMMA EvaluationByPolicy ==
    ASSUME NEW s \in Assessments, NEW A
    PROVE  /\ ~s.profiled => Evaluation(s, A) = Indeterminate(0, {})
           /\ s.profiled /\ s.policy = "NODE_LIFECYCLE" => Evaluation(s, A) = LifecycleOutcome(s)
           /\ s.profiled /\ s.policy # "NODE_LIFECYCLE" =>
                Evaluation(s, A) = IF A = {} THEN Indeterminate(0, {}) ELSE ExternalOutcome(s, A)
  BY AssessmentFacts DEF Evaluation

\* The verdict of an evaluation is that of the Subject, whoever analysed it.
LEMMA EvaluationsAreEarned ==
    ASSUME NEW s \in Assessments, NEW at \in Nat, NEW A, IsFiniteSet(A),
           \A x \in A : AnalysisOf(s, at, x)
    PROVE  LET o == Evaluation(s, A)
           IN  /\ o.verdict = "SATISFIED" => Clean(s)
               /\ o.verdict = "FAILED" => s.entries > 0
               /\ o.coverage = "COMPLETE" /\ s.policy # "NODE_LIFECYCLE" =>
                    \E x \in A : x.entry \in o.eligible /\ x.entry.eligible
               /\ SealReady(o)
<1> DEFINE o == Evaluation(s, A)
<1>1. CASE o = Indeterminate(0, {})
  <2>1. o.verdict = "INDETERMINATE" /\ o.coverage = "GAP" /\ o.findings = 0
    BY <1>1 DEF Indeterminate, Evaluated
  <2> QED
    BY <2>1 DEF SealReady
<1>2. CASE s.profiled /\ s.policy = "NODE_LIFECYCLE"
  <2>1. o = LifecycleOutcome(s)
    BY <1>2, EvaluationByPolicy
  <2>2. s.beyond = 0
    BY <1>2, AssessmentFacts DEF Reports
  <2>3. o.verdict = "SATISFIED" => Clean(s)
    BY <1>2, <2>1, <2>2, LifecycleIsEarned, AssessmentFacts DEF Clean
  <2> QED
    BY <1>2, <2>1, <2>3, LifecycleIsEarned
<1>3. CASE s.profiled /\ s.policy # "NODE_LIFECYCLE" /\ A # {}
  <2>1. o = ExternalOutcome(s, A)
    BY <1>3, EvaluationByPolicy
  <2>2. o.verdict = "SATISFIED" => Clean(s)
    <3>1. "DEFAULT" \notin GateBearing
      BY DEF GateBearing, Package, Reports, Declarations
    <3> QED
      BY <1>3, <2>1, <3>1, OutcomesAreEarned, AssessmentFacts DEF Clean
  <2> QED
    BY <2>1, <2>2, OutcomesAreEarned
<1> QED
  BY <1>1, <1>2, <1>3, EvaluationByPolicy, AssessmentFacts

\* One analysis is counted by itself.
LEMMA AloneIsCounted ==
    ASSUME NEW s, NEW x, Validated(s, x) \in Nat, ExternalEvidence(s, x) \in Nat
    PROVE  /\ Cardinality(FindingsOf(s, {x})) = Validated(s, x)
           /\ Cardinality(EvidenceOf(s, {x})) = ExternalEvidence(s, x)
<1>1. \A n \in Nat : Cardinality({x} \X (1 .. n)) = n
  <2> SUFFICES ASSUME NEW n \in Nat
               PROVE  Cardinality({x} \X (1 .. n)) = n
    OBVIOUS
  <2>1. IsFiniteSet({x}) /\ Cardinality({x}) = 1
    BY FS_Singleton
  <2>2. 1 \in Int /\ n \in Int
    OBVIOUS
  <2>3. IsFiniteSet(1 .. n) /\ Cardinality(1 .. n) = IF 1 > n THEN 0 ELSE n - 1 + 1
    BY <2>2, FS_Interval
  <2>4. Cardinality({x} \X (1 .. n)) = Cardinality({x}) * Cardinality(1 .. n)
    BY <2>1, <2>3, FS_Product
  <2> QED
    BY <2>1, <2>3, <2>4
<1>2. FindingsOf(s, {x}) = {x} \X (1 .. Validated(s, x))
  BY DEF FindingsOf
<1>3. EvidenceOf(s, {x}) = {x} \X (1 .. ExternalEvidence(s, x))
  BY DEF EvidenceOf
<1> QED
  BY <1>1, <1>2, <1>3

\* Alone, the Analyzer of the workflows or of the lockfile stays within what a publication and a
\* seal hold, and its outcome is the one that the Subject deserves.
LEMMA AloneIsEarned ==
    ASSUME NEW s \in Assessments, s.policy \in {"GITHUB_ACTIONS", "PNPM_LOCKFILE"},
           NEW at \in Nat, NEW x, AnalysisOf(s, at, x), x.entry.analyzer = Own
    PROVE  LET o == ExternalOutcome(s, {x})
           IN  /\ o.evidence \in Nat /\ o.evidence <= MaxEvidence
               /\ CoreRecords + o.evidence <= MaxRecords
               /\ x.entry.eligible /\ Clean(s) => o.verdict = "SATISFIED"
               /\ x.entry.eligible /\ s.entries > 0 => o.verdict = "FAILED"
<1> DEFINE c == x.contribution
           findings == Cardinality(FindingsOf(s, {x}))
           evidence == Cardinality(EvidenceOf(s, {x}))
           o == ExternalOutcome(s, {x})
<1>1. s.policy \in Declarations /\ s.policy # "NPM_PUBLISH_SURFACE" /\ s.policy # "REFERENCE"
      /\ s.policy \in GateBearing /\ s.policy \notin Reports
  BY DEF Declarations, GateBearing, Package, Reports
<1>2. c = OwnContribution(s)
  BY AnalysesCount
<1>3. /\ c.exact \in Nat /\ c.stray = 0 /\ c.evidence = 1
      /\ c.exact <= MaxWorkflowCandidates /\ c.exact <= s.entries
      /\ s.entries > 0 => c.exact > 0
  BY <1>1, <1>2, DeclarationsAreExact
<1>4. Proposed(x) = c.exact
  BY <1>3 DEF Proposed
<1>5. ExternalEvidence(s, x) \in Nat /\ ExternalEvidence(s, x) <= 3 + 4 * c.exact
  <2>1. \/ ExternalEvidence(s, x) = 2 + 1 + 4 * c.exact
        \/ ExternalEvidence(s, x) = 0 + 1 + 4 * c.exact
    BY <1>3, <1>4 DEF ExternalEvidence, AdmissionRecords
  <2> QED
    BY <1>3, <2>1
<1>6. Validated(s, x) = IF x.entry.eligible THEN c.exact ELSE 0
  BY <1>1, <1>2, ValidatedByPolicy DEF DeclarationValidated
<1>7. findings = Validated(s, x) /\ evidence = ExternalEvidence(s, x)
  BY <1>3, <1>5, <1>6, AloneIsCounted
<1>8. o.evidence = evidence
  BY DEF ExternalOutcome, Evaluated, Indeterminate
<1>9. evidence \in Nat /\ evidence <= MaxEvidence /\ CoreRecords + evidence <= MaxRecords
  BY <1>3, <1>5, <1>7 DEF MaxWorkflowCandidates, MaxEvidence, CoreRecords, MaxRecords
<1>10. ASSUME x.entry.eligible, Clean(s)
       PROVE  o.verdict = "SATISFIED"
  <2>1. s.legible /\ s.entries = 0
    BY <1>10, AssessmentFacts DEF Clean
  <2>2. c.exact = 0 /\ c.disposition = "COMPLETE" /\ c.claims
    BY <1>1, <1>2, <1>3, <2>1, DeclarationsAreExact
  <2>3. StructurallyBound(x) /\ CoverageVerified(s, x)
    BY <1>1, <1>2, <1>10, <2>2 DEF StructurallyBound, CoverageVerified, DeclarationVerified
  <2>4. ~(LeftOpen(s, x) > 0)
    BY <1>1, <1>4, <1>6, <1>10, <2>2 DEF LeftOpen
  <2>5. ~(findings > 0)
    BY <1>6, <1>7, <2>2
  <2>6. \E y \in {x} : /\ s.policy = "REFERENCE" => Proposed(y) > 0
                       /\ StructurallyBound(y) /\ CoverageVerified(s, y)
    BY <1>1, <2>3
  <2>7. ~\E y \in {x} : LeftOpen(s, y) > 0
    BY <2>4
  <2>8. \E set, n : o = Evaluated("SATISFIED", "COMPLETE", 0, n, set)
    BY <1>1, <2>5, <2>6, <2>7 DEF ExternalOutcome
  <2> QED
    BY <2>8 DEF Evaluated
<1>11. ASSUME x.entry.eligible, s.entries > 0
       PROVE  o.verdict = "FAILED"
  <2>1. findings > 0
    BY <1>3, <1>6, <1>7, <1>11
  <2>2. \E coverage, n, set : o = Evaluated("FAILED", coverage, findings, n, set)
    BY <2>1 DEF ExternalOutcome
  <2> QED
    BY <2>2 DEF Evaluated
<1> QED
  BY <1>8, <1>9, <1>10, <1>11

-----------------------------------------------------------------------------
(* The kernel: its invariant.                                                *)

\* An entry of the portfolio that select derives for an Assessment.
ChosenFor(r, at, e) ==
  /\ e.analyzer \in Hosts \/ (OwnSelected(r) /\ e = OwnEntry(at))
  /\ e.terms \in Qualifications \cup {OwnTerm, Missing}
  /\ e.eligible = EligibleAt(e.terms, at)

KernelTypeOK ==
  /\ request \in Assessments
  /\ registry \in [closed : BOOLEAN, build : [Hosts -> Builds \cup {Missing}],
                   terms : [Hosts \X Builds -> Qualifications \cup {Missing}]]
  /\ stage \in {"NEW", "PENDING", "BLOCKED", "WINDOW", "SEALED"}
  /\ stage = "NEW" => contract = Missing
  /\ clock \in Nat

ContractIsFrozen ==
  stage # "NEW" =>
    /\ contract.frozenAt \in Nat
    /\ IsFiniteSet(contract.portfolio)
    /\ \A e \in contract.portfolio : ChosenFor(request, contract.frozenAt, e)
    /\ OwnSelected(request) => OwnEntry(contract.frozenAt) \in contract.portfolio

KernelInv == KernelTypeOK /\ ContractIsFrozen /\ VerdictIsEarned

\* What the registry selects.
LEMMA SelectionIsChosen ==
    ASSUME KernelTypeOK
    PROVE  /\ IsFiniteSet(Select(request, clock))
           /\ \A e \in Select(request, clock) : ChosenFor(request, clock, e)
           /\ OwnSelected(request) => OwnEntry(clock) \in Select(request, clock)
<1> DEFINE hosts == {g \in Hosts : registry.build[g] # Missing}
           entry(h) == [analyzer |-> h, build |-> registry.build[h],
                        terms |-> registry.terms[<<h, registry.build[h]>>],
                        eligible |-> EligibleAt(registry.terms[<<h, registry.build[h]>>], clock)]
           ofHosts == {entry(h) : h \in hosts}
           own == {e \in {OwnEntry(clock)} : OwnSelected(request)}
           f == [h \in hosts |-> entry(h)]
<1>1. Select(request, clock) = ofHosts \cup own
  BY DEF Select
<1>2. IsFiniteSet(hosts)
  BY KernelAssumption, FS_Subset
<1>3. f \in Surjection(hosts, ofHosts)
  BY DEF Surjection
<1>4. IsFiniteSet(ofHosts)
  BY <1>2, <1>3, FS_Surjection
<1>5. IsFiniteSet(own)
  BY FS_Singleton, FS_Subset
<1>6. IsFiniteSet(ofHosts \cup own)
  BY <1>4, <1>5, FS_Union
<1>7. ASSUME NEW h \in hosts
      PROVE  ChosenFor(request, clock, entry(h))
  <2>1. registry.build[h] \in Builds
    BY <1>7 DEF KernelTypeOK
  <2>2. registry.terms[<<h, registry.build[h]>>] \in Qualifications \cup {Missing}
    BY <1>7, <2>1 DEF KernelTypeOK
  <2> QED
    BY <1>7, <2>2 DEF ChosenFor
<1>8. OwnSelected(request) => ChosenFor(request, clock, OwnEntry(clock))
  BY DEF ChosenFor, OwnEntry
<1> HIDE DEF f
<1>9. \A e \in ofHosts \cup own : ChosenFor(request, clock, e)
  BY <1>7, <1>8
<1> QED
  BY <1>1, <1>6, <1>9

\* What the Analyzers make of a frozen contract.
LEMMA AnalysesAreOfTheContract ==
    ASSUME KernelInv, stage # "NEW", NEW answers \in Answers
    PROVE  /\ IsFiniteSet(Analysed(answers))
           /\ \A x \in Analysed(answers) : /\ AnalysisOf(request, contract.frozenAt, x)
                                           /\ x.entry \in contract.portfolio
<1> DEFINE analysis(e) == [entry |-> e, contribution |->
             IF e \in HostEntries THEN answers[e] ELSE OwnContribution(request)]
           f == [e \in contract.portfolio |-> analysis(e)]
<1>1. Analysed(answers) = {analysis(e) : e \in contract.portfolio}
  BY DEF Analysed
<1>2. f \in Surjection(contract.portfolio, Analysed(answers))
  BY <1>1 DEF Surjection
<1>3. IsFiniteSet(Analysed(answers))
  BY <1>2, FS_Surjection DEF KernelInv, ContractIsFrozen
<1>4. ASSUME NEW e \in contract.portfolio
      PROVE  AnalysisOf(request, contract.frozenAt, analysis(e))
  <2>1. ChosenFor(request, contract.frozenAt, e)
    BY <1>4 DEF KernelInv, ContractIsFrozen
  <2>2. CASE e \in HostEntries
    <3>1. answers[e] \in HostContributions(request)
      BY <2>2 DEF Answers
    <3>2. analysis(e).entry = e /\ analysis(e).contribution = answers[e]
      BY <2>2
    <3> HIDE DEF analysis
    <3> QED
      BY <2>1, <2>2, <3>1, <3>2 DEF AnalysisOf, ChosenFor, HostEntries
  <2>3. CASE e \notin HostEntries
    <3>1. e.analyzer \notin Hosts
      BY <2>3 DEF HostEntries
    <3>2. OwnSelected(request) /\ e.analyzer = Own
      BY <2>1, <3>1 DEF ChosenFor, OwnEntry
    <3>3. analysis(e).entry = e /\ analysis(e).contribution = OwnContribution(request)
      BY <2>3
    <3> HIDE DEF analysis
    <3> QED
      BY <2>1, <3>2, <3>3 DEF AnalysisOf, ChosenFor
  <2> QED
    BY <2>2, <2>3
<1>5. ASSUME NEW x \in Analysed(answers)
      PROVE  AnalysisOf(request, contract.frozenAt, x) /\ x.entry \in contract.portfolio
  <2>1. PICK e \in contract.portfolio : x = analysis(e)
    BY <1>1
  <2> QED
    BY <1>4, <2>1
<1> QED
  BY <1>3, <1>5

\* An evaluation of an Assessment that the package decides by itself.
LEMMA AloneIsConcluded ==
    ASSUME KernelInv, stage # "NEW", Decidable, NEW answers \in Answers
    PROVE  LET o == Evaluation(request, Analysed(answers))
           IN  /\ Concludes(answers) /\ Seals(o)
               /\ Clean(request) => o.verdict = "SATISFIED"
               /\ request.profiled /\ request.entries > 0 => o.verdict = "FAILED"
<1> DEFINE A == Analysed(answers)
           o == Evaluation(request, A)
<1>1. request \in Assessments /\ contract.frozenAt \in Nat
  BY DEF KernelInv, KernelTypeOK, ContractIsFrozen
<1>2. /\ IsFiniteSet(A)
      /\ \A x \in A : AnalysisOf(request, contract.frozenAt, x) /\ x.entry \in contract.portfolio
  BY AnalysesAreOfTheContract
<1>3. \A e \in contract.portfolio : e.analyzer \notin Hosts
  BY DEF Decidable, HostEntries
<1>4. SealReady(o)
  BY <1>1, <1>2, EvaluationsAreEarned
<1>5. /\ o.evidence \in Nat /\ o.evidence <= MaxEvidence
      /\ CoreRecords + o.evidence <= MaxRecords
      /\ Clean(request) => o.verdict = "SATISFIED"
      /\ request.profiled /\ request.entries > 0 => o.verdict = "FAILED"
      /\ ~(request.profiled /\ request.policy # "NODE_LIFECYCLE" /\ EvidenceCollides(request, A))
  <2>1. CASE ~request.profiled
    <3>1. o.evidence = 0
      BY <1>1, <2>1, EvaluationByPolicy DEF Indeterminate, Evaluated
    <3> QED
      BY <2>1, <3>1 DEF MaxEvidence, CoreRecords, MaxRecords, Clean
  <2>2. CASE request.profiled /\ request.policy = "NODE_LIFECYCLE"
    <3>1. o = LifecycleOutcome(request)
      BY <1>1, <2>2, EvaluationByPolicy
    <3>2. Clean(request) => request.slices > 0 /\ request.legible /\ request.entries = 0
      BY <1>1, <2>2, AssessmentFacts DEF Clean, Declarations
    <3> QED
      BY <1>1, <2>2, <3>1, <3>2, LifecycleIsEarned DEF MaxEvidence, CoreRecords, MaxRecords
  <2>3. CASE request.profiled /\ request.policy # "NODE_LIFECYCLE"
    <3>1. request.policy \in {"GITHUB_ACTIONS", "PNPM_LOCKFILE"} /\ OwnSelected(request)
      BY <2>3 DEF Decidable
    <3> DEFINE e == OwnEntry(contract.frozenAt)
               x == [entry |-> e, contribution |-> OwnContribution(request)]
    <3>2. contract.portfolio = {e}
      BY <1>3, <3>1 DEF KernelInv, ContractIsFrozen, ChosenFor
    <3>3. e \notin HostEntries
      BY DEF Decidable
    <3>4. A = {x}
      BY <3>2, <3>3 DEF Analysed
    <3>5. AnalysisOf(request, contract.frozenAt, x) /\ x.entry.analyzer = Own
      BY <1>2, <3>4 DEF OwnEntry
    <3>6. x.entry.eligible
      BY KernelAssumption DEF OwnEntry, EligibleAt, Decidable
    <3>7. o = ExternalOutcome(request, {x})
      BY <1>1, <2>3, <3>4, EvaluationByPolicy
    <3>8. ~EvidenceCollides(request, A)
      BY <3>4 DEF EvidenceCollides
    <3> HIDE DEF x, e
    <3> QED
      BY <1>1, <3>1, <3>5, <3>6, <3>7, <3>8, AloneIsEarned
  <2> QED
    BY <1>1, <2>1, <2>2, <2>3, AssessmentFacts
<1>6. \A e \in contract.portfolio : Registered(e)
  BY <1>3 DEF Registered
<1>7. Readable(request) /\ ~OwnThrows(request)
  BY DEF Decidable, OwnThrows
<1>8. Concludes(answers)
  BY <1>5, <1>6, <1>7 DEF Concludes
<1>9. Seals(o)
  BY <1>4, <1>5 DEF Seals
<1> QED
  BY <1>5, <1>8, <1>9

\* What is sealed is earned, whatever the Host's Analyzers answered.
LEMMA SealsAreEarned ==
    ASSUME KernelInv, stage = "PENDING", Seal
    PROVE  VerdictIsEarned'
<1>1. PICK answers \in Answers :
        Conclude("SEALED", Evaluation(request, Analysed(answers)))
  BY DEF Seal
<1> DEFINE o == Evaluation(request, Analysed(answers))
<1>2. /\ stage' = "SEALED" /\ evaluated' = o
      /\ request' = request /\ contract' = contract
  BY <1>1 DEF Conclude
<1>3. request \in Assessments /\ contract.frozenAt \in Nat
  BY DEF KernelInv, KernelTypeOK, ContractIsFrozen
<1>4. /\ IsFiniteSet(Analysed(answers))
      /\ \A x \in Analysed(answers) :
           AnalysisOf(request, contract.frozenAt, x) /\ x.entry \in contract.portfolio
  BY AnalysesAreOfTheContract
<1>5. /\ o.verdict = "SATISFIED" => Clean(request)
      /\ o.verdict = "FAILED" => request.entries > 0
      /\ o.coverage = "COMPLETE" /\ request.policy # "NODE_LIFECYCLE" =>
           \E x \in Analysed(answers) : x.entry \in o.eligible /\ x.entry.eligible
  BY <1>3, <1>4, EvaluationsAreEarned
<1>6. Decidable =>
        /\ Clean(request) => o.verdict = "SATISFIED"
        /\ request.profiled /\ request.entries > 0 => o.verdict = "FAILED"
  BY AloneIsConcluded
<1> HIDE DEF o
<1>7. SealedIsEarned'
  <2>1. evaluated'.verdict = "SATISFIED" => Clean(request)'
    BY <1>2, <1>5 DEF Clean
  <2>2. evaluated'.verdict = "FAILED" => request'.entries + request'.beyond > 0
    BY <1>2, <1>3, <1>5, AssessmentFacts
  <2>3. ASSUME o.coverage = "COMPLETE", request.policy # "NODE_LIFECYCLE"
        PROVE  \E e \in o.eligible :
                 /\ e \in contract.portfolio /\ e.terms # Missing /\ e.terms.inScope
                 /\ contract.frozenAt \in e.terms.from .. e.terms.until - 1
    <3>1. PICK x \in Analysed(answers) : x.entry \in o.eligible /\ x.entry.eligible
      BY <1>5, <2>3
    <3>2. EligibleAt(x.entry.terms, contract.frozenAt)
      BY <1>4, <3>1 DEF AnalysisOf
    <3>3. x.entry.terms # Missing /\ x.entry.terms \in Qualifications \cup {OwnTerm}
      BY <1>4, <3>2 DEF AnalysisOf, EligibleAt
    <3>4. contract.frozenAt \in x.entry.terms.from .. x.entry.terms.until - 1
      BY <1>3, <3>2, <3>3, KernelAssumption DEF EligibleAt
    <3> QED
      BY <1>4, <3>1, <3>2, <3>3, <3>4 DEF EligibleAt
  <2> QED
    BY <1>2, <2>1, <2>2, <2>3 DEF SealedIsEarned
<1>8. Decidable' = Decidable
  BY <1>2 DEF Decidable, HostEntries
<1>9. AloneDecides'
  BY <1>2, <1>6, <1>8 DEF AloneDecides, Clean
<1> QED
  BY <1>7, <1>9 DEF VerdictIsEarned

\* A step keeps the invariant.
LEMMA KernelStep ==
    ASSUME KernelInv, [KernelNext]_kernelVars
    PROVE  KernelInv'
<1> USE DEF KernelInv
<1>1. ASSUME UNCHANGED <<request, contract, stage, evaluated>>
      PROVE  ContractIsFrozen' /\ VerdictIsEarned'
  BY <1>1 DEF ContractIsFrozen, ChosenFor, VerdictIsEarned, SealedIsEarned, AloneDecides,
              Decidable, HostEntries
<1>2. ASSUME NEW h \in Hosts, NEW b \in Builds, Register(h, b)
      PROVE  KernelInv'
  <2>1. KernelTypeOK'
    BY <1>2 DEF Register, KernelTypeOK
  <2> QED
    BY <1>1, <1>2, <2>1 DEF Register
<1>3. ASSUME NEW h \in Hosts, NEW b \in Builds, DisposeQualification(h, b)
      PROVE  KernelInv'
  <2>1. KernelTypeOK'
    BY <1>3 DEF DisposeQualification, KernelTypeOK
  <2> QED
    BY <1>1, <1>3, <2>1 DEF DisposeQualification
<1>4. ASSUME NEW h \in Hosts, NEW b \in Builds, NEW q \in Qualifications,
             RegisterQualification(h, b, q)
      PROVE  KernelInv'
  <2>1. KernelTypeOK'
    BY <1>4 DEF RegisterQualification, KernelTypeOK
  <2> QED
    BY <1>1, <1>4, <2>1 DEF RegisterQualification
<1>5. ASSUME NEW h \in Hosts, DisposeAnalyzer(h)
      PROVE  KernelInv'
  <2>1. KernelTypeOK'
    BY <1>5 DEF DisposeAnalyzer, KernelTypeOK
  <2> QED
    BY <1>1, <1>5, <2>1 DEF DisposeAnalyzer
<1>6. CASE Recompose
  <2>1. KernelTypeOK'
    BY <1>6 DEF Recompose, EmptyRegistry, KernelTypeOK
  <2> QED
    BY <1>1, <1>6, <2>1 DEF Recompose
<1>7. CASE Freeze
  <2>1. KernelTypeOK'
    BY <1>7 DEF Freeze, KernelTypeOK
  <2>2. /\ contract'.portfolio = Select(request, clock) /\ contract'.frozenAt = clock
        /\ request' = request /\ stage' = "PENDING"
    BY <1>7 DEF Freeze
  <2>3. ContractIsFrozen'
    BY <2>1, <2>2, SelectionIsChosen DEF ContractIsFrozen, KernelTypeOK
  <2>4. VerdictIsEarned'
    BY <2>2 DEF VerdictIsEarned, SealedIsEarned, AloneDecides
  <2> QED
    BY <2>1, <2>3, <2>4
<1>8. ASSUME stage # "NEW", UNCHANGED <<request, registry, contract, clock>>,
             stage' \in {"PENDING", "BLOCKED", "WINDOW", "SEALED"}
      PROVE  KernelTypeOK' /\ ContractIsFrozen'
  <2>1. KernelTypeOK'
    BY <1>8 DEF KernelTypeOK
  <2>2. ContractIsFrozen'
    BY <1>8 DEF ContractIsFrozen
  <2> QED
    BY <2>1, <2>2
<1>9. CASE Seal
  <2>1. VerdictIsEarned'
    BY <1>9, SealsAreEarned DEF Seal
  <2> QED
    BY <1>8, <1>9, <2>1 DEF Seal, Conclude
<1>10. CASE OpenWindow
  <2>1. VerdictIsEarned'
    BY <1>10 DEF OpenWindow, Conclude, VerdictIsEarned, SealedIsEarned, AloneDecides
  <2> QED
    BY <1>8, <1>10, <2>1 DEF OpenWindow, Conclude
<1>11. CASE Block
  <2>1. PICK answers \in Answers :
          LET o == Evaluation(request, Analysed(answers))
          IN  ~(Concludes(answers) /\ (Opens(o) \/ Seals(o))) /\ Conclude("BLOCKED", Missing)
    BY <1>11 DEF Block
  <2>2. ~Decidable
    BY <1>11, <2>1, AloneIsConcluded DEF Block
  <2>3. stage' = "BLOCKED" /\ request' = request /\ contract' = contract
    BY <2>1 DEF Conclude
  <2>4. ~Decidable'
    BY <2>2, <2>3 DEF Decidable, HostEntries
  <2>5. VerdictIsEarned'
    BY <2>3, <2>4 DEF VerdictIsEarned, SealedIsEarned, AloneDecides
  <2> QED
    BY <1>8, <1>11, <2>5 DEF Block, Conclude
<1>12. CASE AnalyzerFails
  <2>1. ~Decidable'
    BY <1>12 DEF AnalyzerFails, Decidable, HostEntries
  <2>2. VerdictIsEarned'
    BY <1>12, <2>1 DEF AnalyzerFails, VerdictIsEarned, SealedIsEarned, AloneDecides
  <2> QED
    BY <1>8, <1>12, <2>2 DEF AnalyzerFails
<1>13. CASE ResumeEvaluation
  <2>1. VerdictIsEarned'
    BY <1>13 DEF ResumeEvaluation, VerdictIsEarned, SealedIsEarned, AloneDecides
  <2> QED
    BY <1>8, <1>13, <2>1 DEF ResumeEvaluation
<1>14. CASE ClockTicks
  <2>1. KernelTypeOK'
    BY <1>14 DEF ClockTicks, KernelTypeOK
  <2> QED
    BY <1>1, <1>14, <2>1 DEF ClockTicks
<1>15. CASE UNCHANGED kernelVars
  <2>1. KernelTypeOK'
    BY <1>15 DEF kernelVars, KernelTypeOK
  <2> QED
    BY <1>1, <1>15, <2>1 DEF kernelVars
<1> QED
  BY <1>2, <1>3, <1>4, <1>5, <1>6, <1>7, <1>9, <1>10, <1>11, <1>12, <1>13, <1>14, <1>15
     DEF KernelNext

LEMMA KernelInvariant == KernelSpec => []KernelInv
<1>1. KernelInit => KernelInv
  BY DEF KernelInit, KernelInv, KernelTypeOK, EmptyRegistry, ContractIsFrozen, VerdictIsEarned,
         SealedIsEarned, AloneDecides
<1>2. KernelInv /\ [KernelNext]_kernelVars => KernelInv'
  BY KernelStep
<1> QED
  BY <1>1, <1>2, PTL DEF KernelSpec

\* Verdicts follow the frozen Subject, whatever Analyzers a Host registers and whatever they
\* contribute, and an Assessment that the package decides by itself is never blocked
\* (evaluateDeterministicAssessment and validateExternalAnalyzerCandidates).
THEOREM VerdictsAreEarned == KernelSpec => []VerdictIsEarned
<1>1. KernelInv => VerdictIsEarned
  BY DEF KernelInv
<1> QED
  BY <1>1, KernelInvariant, PTL
=============================================================================
