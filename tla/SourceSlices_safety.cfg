SPECIFICATION Spec
CONSTANTS
    f1 = f1
    f2 = f2
    r1 = r1
    r2 = r2
    r3 = r3
    c1 = c1
    clean = clean
    secret = secret
    Absent = Absent
    Gone = Gone
    Manifest = Manifest
    Freezes = {f1, f2}
    Paths = {1, 2}
    Indexed = {1}
    Bytes = {1, 2}
    Committed <- MCCommitted
    MaxEdits = 2
    Requests = {r1, r2, r3}
    Ask <- MCAsk
    Frozen <- MCFrozen
    Texts = {clean, secret}
    SliceSize <- MCSliceSize
    RedactedSize <- MCRedactedSize
    SecretsFound <- MCSecretsFound
    SensitivePaths = {".env"}
    Grant <- MCGrant
    Qualification <- MCQualification
    Authorizations <- MCAuthorizations
    Reservations = {2, 3}
    AttemptDeadline = 3
    Capabilities = {c1}
    Answers <- MCAnswers
    MaxOutput = 1
    LastInstant = 3
INVARIANTS
    FrozenIsOneInstant
    EgressIsGoverned
    InvocationsAreAccounted
CHECK_DEADLOCK FALSE
