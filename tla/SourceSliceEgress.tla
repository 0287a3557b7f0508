-------------------------- MODULE SourceSliceEgress --------------------------
(***************************************************************************)
(* A Role Attempt asks for files of the frozen Subject and has them        *)
(* answered by a model outside: src/src/source-slice-request.ts and        *)
(* src/src/role-context-grant.ts, the source-slice-*.ts and                *)
(* model-invocation-settlement.ts of src/src/internal.                     *)
(*                                                                         *)
(* The functions of these files are pure and take documents from the       *)
(* Host: a document is admitted because of what it binds, and is kept as a *)
(* member of a set.  A digest is the value digested.  The Host, trusted    *)
(* code of the same process (ADR 0159), hands over material and reviews    *)
(* only as these functions made them, and gives each capability an         *)
(* identity of its own.  What waits is reading a slice, whose bytes can    *)
(* change on disk after the Subject was verified, and the one call of a    *)
(* capability, which races its deadline, its caller's signal and the       *)
(* settlement of the attempt.  Each of them is a step, and so is the       *)
(* reaction to it.                                                         *)
(*                                                                         *)
(* A text stands for the bytes of a file.  Redaction puts a marker in      *)
(* place of every match of the detector, which may miss a secret.          *)
(***************************************************************************)
EXTENDS Naturals, Sequences

CONSTANTS
    Requests,        \* Source Slice Requests of the attempt
    Ask,             \* what each asks: bytes, tokens, policy, path, attempt
    Frozen,          \* the text the Subject holds for each of them
    Texts,           \* everything that may be on disk
    SliceSize, RedactedSize, SecretsFound,  \* of a text: bytes, after redaction, matches
    SensitivePaths,  \* the paths that hasSensitivePath knows
    Grant,           \* the attempt's Context Grant: limits, granted, policy, attempt
    Qualification,   \* of the Broker: from, until, bytes, timeout
    Authorizations,  \* of the destination, by the Host: request, text, from, until, ...
    Reservations,    \* token limits a Kernel reserves
    AttemptDeadline, \* of the attempt
    Capabilities,    \* invocation identities: a capability has one
    Answers,         \* what the Broker may answer
    MaxOutput,       \* the maxOutputTokens of every invocation
    LastInstant,     \* bound on time
    Absent           \* null

ASSUME SizesAssumption ==
    /\ SliceSize \in [Texts -> Nat] /\ RedactedSize \in [Texts -> Nat]
    /\ SecretsFound \in [Texts -> Nat] /\ Frozen \in [Requests -> Texts]
    /\ AttemptDeadline \in Nat /\ LastInstant \in Nat /\ MaxOutput \in Nat \ {0}
\* The schemas of the documents: sizes, token counts and instants are natural numbers.
ASSUME DocumentsAssumption ==
    /\ \A r \in Requests : Ask[r].bytes \in Nat /\ Ask[r].tokens \in Nat
    /\ \A kind \in {"bytes", "tokens"} : Grant.limit[kind] \in Nat /\ Grant.granted[kind] \in Nat
    /\ \A d \in {Qualification} \cup Authorizations :
          {d.from, d.until, d.bytes, d.timeout} \subseteq Nat

VARIABLES
    clock,
    disk,         \* the bytes of each requested file in the published Subject
    verified,     \* requests whose Subject has just been verified
    materials,    \* redacted slices: request and text
    reviews,      \* admitted secret reviews
    capability,   \* the capability of each invocation identity
    calls,        \* the requests the Broker has received
    reservation,  \* the Kernel's budget reservation of each invocation
    records       \* settled Model Invocation Records

slices == <<disk, verified, materials>>
invocation == <<capability, calls>>
budget == <<reservation, records>>
egressVars == <<clock, slices, reviews, invocation, budget>>

-----------------------------------------------------------------------------
(* The Context Grant and the request. *)

Remaining(kind) == Grant.limit[kind] - Grant.granted[kind]

\* roleContextGrantCoreV1Schema: nothing is granted beyond a limit, and every
\* artifact is of a disclosed category.
GrantWellFormed ==
    /\ \A kind \in {"bytes", "tokens"} :
          Grant.limit[kind] > 0 /\ Grant.granted[kind] <= Grant.limit[kind]
    /\ Grant.shown \subseteq Grant.categories

\* sourceSliceRequestCoreV1Schema.
RequestWellFormed(r) == Ask[r].bytes > 0 /\ Ask[r].tokens > 0 /\ Ask[r].path # Absent

\* preflightSourceSliceRequestV1: why a request cannot go to material review.
MismatchReasons(r) ==
    {x \in {"ROLE_ATTEMPT"} : Ask[r].attempt # Grant.attempt}
      \cup {x \in {"POLICY"} : Ask[r].policy # Grant.policy}
      \cup {x \in {"CATEGORY"} : Ask[r].category \notin Grant.categories}
      \cup {x \in {"CONTEXT_BYTES"} : Ask[r].bytes > Remaining("bytes")}
      \cup {x \in {"TOKENS"} : Ask[r].tokens > Remaining("tokens")}
Preflight(r) == GrantWellFormed /\ RequestWellFormed(r) /\ MismatchReasons(r) = {}

-----------------------------------------------------------------------------
(* The material of a request, redacted. *)

\* readVerifiedRequestedSourceSlice verifies the whole Subject first, ...
VerifyForSlice(r) ==
    /\ Preflight(r) /\ r \notin verified
    /\ disk = Frozen
    /\ verified' = verified \cup {r}
    /\ UNCHANGED <<clock, disk, materials, reviews, invocation, budget>>

\* (the files are read-only, which does not stop their owner)
DiskChanges(r) ==
    /\ \E text \in Texts : disk' = [disk EXCEPT ![r] = text]
    /\ disk = Frozen
    /\ UNCHANGED <<clock, verified, materials, reviews, invocation, budget>>

\* ... and then reads the one file and digests it again.
DigestMatches(r) == disk[r] = Frozen[r]
ReadSlice(r) ==
    /\ r \in verified
    /\ verified' = verified \ {r}
    /\ materials' = materials \cup
          {[request |-> r, text |-> text] :
              text \in {t \in {disk[r]} : DigestMatches(r) /\ SliceSize[t] <= Ask[r].bytes}}
    /\ UNCHANGED <<clock, disk, reviews, invocation, budget>>

\* deriveProtectedSourceSliceSensitivity.
Sensitivity(m) ==
    IF SecretsFound[m.text] > 0 THEN "SECRET_BEARING_SOURCE"
    ELSE IF Ask[m.request].path \in SensitivePaths THEN "RESTRICTED_SOURCE"
    ELSE "PROTECTED_SOURCE"

\* redactProtectedSourceSliceSecrets: the matches are gone, and no decision
\* says the text is clean.
RedactionDecision(m) ==
    IF SecretsFound[m.text] > 0 THEN "REDACTED_MATCHES_REVIEW_REQUIRED"
                                ELSE "ADDITIONAL_REVIEW_REQUIRED"

-----------------------------------------------------------------------------
(* Secret review, by a qualified Analyzer that is independent. *)

\* secretReviewEvidenceV1Schema and its contribution.
EvidenceConsistent(e) ==
    CASE e.decision = "CLEAR" -> e.complete /\ e.findings = 0
      [] e.decision = "SECRET_FOUND" -> e.complete /\ e.findings > 0
      [] e.decision = "INDETERMINATE" -> ~ e.complete

\* admitQualifiedSourceSliceSecretReview: the Evidence is about exactly this
\* redacted material and comes from an eligible, independent Analyzer.
AdmitSecretReview(m, evidence) ==
    /\ m \in materials
    /\ evidence.of = m /\ evidence.independent /\ EvidenceConsistent(evidence)
    /\ reviews' = reviews \cup {[of |-> m, decision |-> evidence.decision]}
    /\ UNCHANGED <<clock, slices, invocation, budget>>

-----------------------------------------------------------------------------
(* What a review says of egress. *)

\* deriveProtectedSourceSliceEgressDisposition; decision is Absent without a review.
EgressReasons(m, decision) ==
    {x \in {"POLICY_DENIES_EGRESS"} : Ask[m.request].policy = "egress/deny-by-default"}
      \cup {x \in {"REDACTED_BYTE_BUDGET_EXCEEDED"} : RedactedSize[m.text] > Ask[m.request].bytes}
      \cup {x \in {"RESIDUAL_SECRET_DETECTED"} : decision = "SECRET_FOUND"}
Disposition(m, decision, authorized) ==
    IF EgressReasons(m, decision) # {} THEN "REJECTED"
    ELSE IF authorized /\ decision = "CLEAR" THEN "BROKER_INVOCATION_REQUIRED"
    ELSE "BROKER_REVIEW_REQUIRED"

\* materialChecks: the need of the Role is never established here.
MaterialChecks(m, decision, egress) ==
    [SECRET_REDACTION |-> CASE decision = "CLEAR" -> "SATISFIED"
                            [] decision = "SECRET_FOUND" -> "REJECTED"
                            [] OTHER -> "REVIEW_REQUIRED",
     DATA_EGRESS |-> IF egress = "REJECTED" THEN "REJECTED" ELSE "REVIEW_REQUIRED",
     ACTUAL_BUDGET |-> IF RedactedSize[m.text] > Ask[m.request].bytes
                       THEN "REJECTED" ELSE "REVIEW_REQUIRED",
     ROLE_NEED |-> "REVIEW_REQUIRED"]
MaterialDecision(checks) ==
    IF \E check \in DOMAIN checks : checks[check] = "REJECTED"
    THEN "REJECTED" ELSE "ADDITIONAL_REVIEW_REQUIRED"

\* reviewRequestedSourceSliceMaterial, once it has read the material again: the
\* record of what is known of it.
MaterialReview(m, decision, authorized) ==
    LET egress == Disposition(m, decision, authorized)
    IN [sensitivity |-> Sensitivity(m), redaction |-> RedactionDecision(m), egress |-> egress,
        decision |-> MaterialDecision(MaterialChecks(m, decision, egress))]

-----------------------------------------------------------------------------
(* Authorization and the capability. *)

\* validateSecretReview: a complete CLEAR review of exactly this redaction.
BugAnyClearReview(review, m) == review.decision = "CLEAR"
ReviewClears(review, m) == review.decision = "CLEAR" /\ review.of = m

\* Both windows are open, and the destination's lies in the Broker's.
ValidAt(a, instant) ==
    /\ Qualification.from <= a.from /\ a.until <= Qualification.until
    /\ a.from <= instant /\ instant < a.until

\* admitProtectedSourceSliceEgressAuthorization.
Authorizes(a, review, m, instant) ==
    /\ Preflight(m.request) /\ Ask[m.request].policy # "egress/deny-by-default"
    /\ ReviewClears(review, m)
    /\ ValidAt(a, instant)
    /\ a.of = m /\ a.policy = Ask[m.request].policy
    /\ a.bytes <= Ask[m.request].bytes /\ a.bytes <= Qualification.bytes
    /\ RedactedSize[m.text] <= a.bytes
    /\ a.timeout <= Qualification.timeout

LeastOf(instants) == CHOOSE t \in instants : \A u \in instants : t <= u

\* issueAttemptScopedSourceSliceEgressCapability.  It compares the digests that material and
\* review carry and computes none again: both are what ReadSlice and AdmitSecretReview made,
\* and i is in use by no other capability, because the Host keeps to that.
IssueCapability(i, m, review, a) ==
    /\ capability[i].state = "none" /\ m \in materials /\ review \in reviews
    /\ Ask[m.request].attempt = Grant.attempt /\ clock < AttemptDeadline
    /\ Authorizes(a, review, m, clock)
    /\ capability' = [capability EXCEPT ![i] =
          [@ EXCEPT !.state = "issued", !.of = m, !.authorization = a,
                    !.deadline = LeastOf({AttemptDeadline, Qualification.until, a.until,
                                          clock + a.timeout})]]
    /\ UNCHANGED <<clock, slices, reviews, calls, budget>>

-----------------------------------------------------------------------------
(* The one call of a capability. *)

Receipt(i, status, answer) ==
    [status |-> status, started |-> capability[i].started, completed |-> clock,
     limit |-> Ask[capability[i].of.request].tokens, usage |-> answer]

\* AttemptScopedSourceSliceEgressCapability.invoke: refused once settled or
\* consumed; it is consumed before anything else is done.  Past the deadline,
\* or with a signal already aborted, the Broker is not called.
BugConsumedByTheAnswer(c) == ~ c.settled /\ c.receipt = Absent
Usable(c) == ~ c.settled /\ ~ c.consumed
Invoke(i) ==
    /\ capability[i].state # "none" /\ Usable(capability[i])
    /\ IF clock >= capability[i].deadline \/ capability[i].signalled
       THEN /\ capability' = [capability EXCEPT ![i] =
                 [@ EXCEPT !.consumed = TRUE, !.state = "done",
                           !.receipt = [Receipt(i, "FAILED", Absent) EXCEPT !.started = clock]]]
            /\ UNCHANGED calls
       ELSE /\ capability' = [capability EXCEPT ![i] =
                 [@ EXCEPT !.consumed = TRUE, !.state = "calling", !.started = clock]]
            /\ calls' = Append(calls, [invocation |-> i, of |-> capability[i].of, at |-> clock])
    /\ UNCHANGED <<clock, slices, reviews, budget>>

\* What may abort the call: settle(), which also ends the capability, ...
Aborted(i) == IF capability[i].state = "calling" THEN "aborted" ELSE capability[i].state
SettleCapability(i) ==
    /\ capability[i].state # "none" /\ ~ capability[i].settled
    /\ capability' = [capability EXCEPT ![i] =
          [@ EXCEPT !.settled = TRUE, !.state = Aborted(i)]]
    /\ UNCHANGED <<clock, slices, reviews, calls, budget>>

\* ... the signal of the caller, ...
CallerAborts(i) ==
    /\ capability[i].state # "none" /\ ~ capability[i].signalled
    /\ capability' = [capability EXCEPT ![i] =
          [@ EXCEPT !.signalled = TRUE, !.state = Aborted(i)]]
    /\ UNCHANGED <<clock, slices, reviews, calls, budget>>

\* ... and the timer of the deadline.
TimerFires(i) ==
    /\ capability[i].state = "calling" /\ clock >= capability[i].deadline
    /\ capability' = [capability EXCEPT ![i].state = "aborted"]
    /\ UNCHANGED <<clock, slices, reviews, calls, budget>>

\* The Broker answers or fails before any of these: the race is decided.
BrokerAnswers(i) ==
    /\ capability[i].state = "calling"
    /\ capability' \in
          {[capability EXCEPT ![i].state = "answered", ![i].answer = answer] : answer \in Answers}
            \cup {[capability EXCEPT ![i].state = "rejected"]}
    /\ UNCHANGED <<clock, slices, reviews, calls, budget>>

\* brokerResponseV1Schema, the identities of the request, and the usage.
AnswerAdmissible(i, answer) ==
    /\ answer.valid /\ answer.inScope
    /\ answer.bytes = RedactedSize[capability[i].of.text]
    /\ answer.in + answer.out <= Ask[capability[i].of.request].tokens

\* The rest of invoke.  Nothing but the receipt comes of an aborted or a
\* rejected call; the deadline is looked at again after an answer, and
\* settled and the signal are not.
Continue(i) ==
    /\ capability[i].state \in {"answered", "rejected", "aborted"}
    /\ LET c == capability[i]
           completed == /\ c.state = "answered" /\ AnswerAdmissible(i, c.answer)
                        /\ clock < c.deadline
       IN capability' = [capability EXCEPT ![i] =
             [@ EXCEPT !.state = "done", !.answer = Absent,
                       !.receipt = IF completed THEN Receipt(i, "COMPLETED", c.answer)
                                                ELSE Receipt(i, "FAILED", Absent)]]
    /\ UNCHANGED <<clock, slices, reviews, calls, budget>>

-----------------------------------------------------------------------------
(* Settlement. *)

\* createModelInvocationBudgetReservationV1: one request and some tokens for
\* one invocation, from now until an instant after now.
Reserve(i, limit, until) ==
    /\ capability[i].state # "none" /\ reservation[i] = Absent
    /\ clock < until
    /\ reservation' = [reservation EXCEPT ![i] = [limit |-> limit, from |-> clock, until |-> until]]
    /\ UNCHANGED <<clock, slices, reviews, invocation, records>>

\* The receipt against the reservation, the Context Grant and the parameters.
ReceiptFits(receipt, held) ==
    /\ receipt.status = "COMPLETED"
    /\ receipt.limit = held.limit /\ held.limit <= Remaining("tokens")
    /\ held.from <= receipt.started /\ receipt.completed < held.until
    /\ receipt.usage.out <= MaxOutput /\ receipt.usage.in + MaxOutput <= held.limit

\* validateModelInvocationRecord.
RecordWellFormed(r) ==
    /\ r.started <= r.completed
    /\ r.used + r.released = r.limit /\ r.released >= 0

\* settleSourceSliceModelInvocationV1.
SettleInvocation(i) ==
    /\ capability[i].receipt # Absent /\ reservation[i] # Absent
    /\ ReceiptFits(capability[i].receipt, reservation[i])
    /\ LET receipt == capability[i].receipt
           used == receipt.usage.in + receipt.usage.out
           record == [invocation |-> i, limit |-> receipt.limit, used |-> used,
                      released |-> receipt.limit - used,
                      started |-> receipt.started, completed |-> receipt.completed]
       IN RecordWellFormed(record) /\ records' = records \cup {record}
    /\ UNCHANGED <<clock, slices, reviews, invocation, reservation>>

Tick ==
    /\ clock < LastInstant /\ clock' = clock + 1
    /\ UNCHANGED <<slices, reviews, invocation, budget>>

-----------------------------------------------------------------------------
EgressInit ==
    /\ clock = 0 /\ disk = Frozen /\ verified = {} /\ materials = {} /\ reviews = {}
    /\ capability = [i \in Capabilities |->
          [state |-> "none", of |-> Absent, authorization |-> Absent, deadline |-> 0,
           consumed |-> FALSE, settled |-> FALSE, signalled |-> FALSE, started |-> 0,
           answer |-> Absent, receipt |-> Absent]]
    /\ calls = <<>> /\ reservation = [i \in Capabilities |-> Absent] /\ records = {}

SecretEvidence(m) ==
    [of : {m}, independent : BOOLEAN, complete : BOOLEAN, findings : 0..1,
     decision : {"CLEAR", "SECRET_FOUND", "INDETERMINATE"}]

EgressNext ==
    \/ \E r \in Requests : VerifyForSlice(r) \/ DiskChanges(r) \/ ReadSlice(r)
    \/ \E m \in materials : \E e \in SecretEvidence(m) : AdmitSecretReview(m, e)
    \/ \E i \in Capabilities :
          \/ \E m \in materials, review \in reviews, a \in Authorizations :
                IssueCapability(i, m, review, a)
          \/ Invoke(i) \/ SettleCapability(i) \/ CallerAborts(i) \/ TimerFires(i)
          \/ BrokerAnswers(i) \/ Continue(i) \/ SettleInvocation(i)
          \/ \E limit \in Reservations, until \in 1..LastInstant : Reserve(i, limit, until)
    \/ Tick

EgressSpec == EgressInit /\ [][EgressNext]_egressVars

-----------------------------------------------------------------------------
(* What leaves the Host. *)

CallsOf(i) == {k \in DOMAIN calls : calls[k].invocation = i}

\* Whatever the Broker receives is one request of a capability, made while
\* every window that allows it is open, of the text the frozen Subject has for
\* a request of the attempt that fits what its Context Grant has left; an
\* independent Analyzer found that text clear of secrets, and the review of the
\* material, which derives the disposition by itself, agrees that a Broker may
\* have it.  (invoke, issue and admit of the source-slice-egress files.)
EgressIsGoverned ==
    \A k \in DOMAIN calls :
       LET call == calls[k] m == call.of a == capability[call.invocation].authorization IN
       /\ CallsOf(call.invocation) = {k}
       /\ m.text = Frozen[m.request] /\ Preflight(m.request)
       /\ \E review \in reviews :
             /\ review.of = m
             /\ LET known == MaterialReview(m, review.decision, TRUE)
                IN known.egress = "BROKER_INVOCATION_REQUIRED" /\ known.decision # "REJECTED"
       /\ RedactedSize[m.text] <= Remaining("bytes")
       /\ a.from <= call.at /\ call.at < AttemptDeadline
       /\ call.at < a.until /\ call.at < Qualification.until

\* A settled invocation is one call of the Broker, made and answered inside the
\* reservation of the Kernel for it and before the deadline of its capability;
\* its tokens used and released are what was reserved, which the Context Grant
\* had left; and it is settled once.
\* (settleSourceSliceModelInvocationV1 and invoke.)
InvocationsAreAccounted ==
    \A r \in records :
       LET held == reservation[r.invocation] IN
       /\ \E k \in DOMAIN calls : CallsOf(r.invocation) = {k} /\ calls[k].at = r.started
       /\ held.from <= r.started /\ r.completed < held.until
       /\ r.completed < capability[r.invocation].deadline
       /\ r.used + r.released = held.limit /\ held.limit <= Remaining("tokens")
       /\ \A s \in records : s.invocation = r.invocation => s = r
=============================================================================
