SPECIFICATION MCSpec
CONSTANTS
  crit = crit
  high = high
  alice = alice
  aliceCaps = aliceCaps
  bob = bob
  plane = plane
  strong = strong
  weak = weak
  Findings = {crit, high}
  Severity <- MCSeverity
  Principals = {alice, aliceCaps, bob, plane}
  Person <- MCPerson
  Operators = {alice, aliceCaps, bob}
  BreakGlass = {alice, aliceCaps, bob}
  Terms = {strong, weak}
  Controls <- MCControls
  CriticalControl = TRUE
  Lifetime <- MCLifetime
  Keys = {1}
  Finalizers = {1, 2}
  MaxTime = 2
  None = None
  Due = Due
  k1 = k1
  k2 = k2
  a1 = a1
  a2 = a2
  Attempts = {a1, a2}
  Candidates = {1, 2}
  Contracts = {k1, k2}
  Applies <- MCApplies
  QualifiedAt <- MCQualifiedAt
  ValidUntil <- MCValidUntil
  MinLineages <- MCMinLineages
  Conditions <- MCConditions
  ProofIds = {1, 2, 3, 4, 5}
  Lineage = {0, 1, 2, 3}
  ProducerLineage = 0
  Proofs <- MCProofs
  MaxInstant = 2
  MaxValidations = 4
  Unset = Unset
  host = host
  build1 = build1
  build2 = build2
  Hosts = {host}
  Builds = {build1, build2}
  Qualifications <- MCTerms
  Own = Own
  OwnTerm <- MCOwnTerm
  Assessments <- MCAssessments
  MaxClock = 1
  Missing = Missing
  release = release
  Absent = Absent
  Edited = Edited
  Processes = {release}
  Kinds = {"LINUX_PLATFORM"}
  Declared = {"RELEASE_CONSTITUTION", "DETERMINISTIC_FAILURES"}
  Artifacts = {1, 2}
  Merit <- MCMerit
  MaxRuns = 3
  MaxEffort = 5
SYMMETRY Symmetry
INVARIANTS
  OffersAreAdmitted
  SatisfiedIsAccepted
  MoreProofNeverFlips
  EveryProofSetDecides
  ReceiptIsProven
  NoFailureIsErased
  VerdictIsEarned
PROPERTIES
  LapsedIsFinal
CHECK_DEADLOCK FALSE
