------------------------ MODULE WorkbenchController ------------------------
(***************************************************************************)
(* The browser's Workbench: src/src/web-client/workbench/controller.ts.    *)
(* One view, one authority session, and operations that publish a view,    *)
(* ask the Service, wait, and publish what they made of the answer.  An    *)
(* operation may be called while others wait, and what it does when its    *)
(* answer arrives depends on what the view has become: StillWanted is the  *)
(* test each of them makes then.                                           *)
(*                                                                         *)
(* A request keeps the view its operation started from (`current` in the   *)
(* code) and the revisions at that moment: an Assessment read meanwhile    *)
(* may be any revision up to the present one.  A request of an erased      *)
(* session is aborted, which its answer may have outrun.                   *)
(*                                                                         *)
(* The protocol checks (matches...) compare an answer with its question:   *)
(* an answer that fails one is a failing request here.  An Assessment has  *)
(* one page of findings and its continuation, one Finding, one Evidence    *)
(* Link and one export destination.                                        *)
(***************************************************************************)
EXTENDS Naturals, FiniteSets

CONSTANTS
    Assessments,
    Fresh,         \* the Assessment that a confirmed start creates
    Final,         \* the revision at which each is SEALED or CANCELED
    None,
    MaxCalls,      \* bound on the operations the user calls
    MaxInFlight    \* bound on the requests that wait at once

ASSUME ClientsAssumption ==
    /\ Fresh \in Assessments /\ None \notin Assessments
    /\ Final \in [Assessments -> Nat \ {0}]
    /\ MaxCalls \in Nat /\ MaxInFlight \in Nat

VARIABLES
    view,          \* the state published to the browser
    session,       \* the live session; gen 0: none
    nextGen,       \* nextGeneration
    evidenceGen,   \* evidenceRequestGeneration
    requests,      \* operations that wait
    calls,         \* how many operations were called
    head           \* the Service's revision of each Assessment; 0: none yet

clientVars == <<view, session, nextGen, evidenceGen, requests, calls, head>>
counters == <<nextGen, evidenceGen>>

-----------------------------------------------------------------------------
(* Views.  One record holds every field a kind of view may have.           *)

CLOSED ==
    [kind |-> "CLOSED", asm |-> None, rev |-> 0, listed |-> {}, wizard |-> "EMPTY",
     findings |-> "NOT_LOADED", evidence |-> "NOT_LOADED", shownBy |-> 0,
     deciding |-> FALSE, command |-> "IDLE",
     export |-> "IDLE", preview |-> 0, stamp |-> 0, status |-> "PENDING", statusBy |-> 0,
     download |-> "IDLE"]

Page(kind, a) == [CLOSED EXCEPT !.kind = kind, !.asm = a]
\* publishReady: findings and the command are reset unless they are given.
Ready(a, r) == [Page("READY", a) EXCEPT !.rev = r]
Selection(listed) == [Page("SELECTION_READY", None) EXCEPT !.listed = listed]
Wizard(state) == [Page("WIZARD_READY", None) EXCEPT !.wizard = state]
\* What the view shows of an Assessment, with its findings.
Findings(shown, state) == [Ready(shown.asm, shown.rev) EXCEPT !.findings = state]
Evidence(shown, state) == [Findings(shown, "DETAIL_READY") EXCEPT !.evidence = state]

\* isTerminal: SEALED or CANCELED, at the last revision.
IsTerminal(a, r) == r = Final[a]

-----------------------------------------------------------------------------
(* Sessions and requests.                                                  *)

NoSession == [gen |-> 0, asm |-> None, mon |-> 0, timer |-> 0]

\* eraseSession, and a new session in its place.
NewSession(a) ==
    /\ session' = [NoSession EXCEPT !.gen = nextGen + 1, !.asm = a]
    /\ nextGen' = nextGen + 1

Request(op, a, was, tok, gen, id) ==
    [op |-> op, asm |-> a, was |-> was, tok |-> tok, gen |-> gen, id |-> id,
     since |-> head, answered |-> FALSE]

\* The next request of the operation that q belongs to.
Follow(q, op, a) == Request(op, a, q.was, q.tok, q.gen, q.id)

\* startMonitor's first poll, under the session as it becomes.
Poll(a, r, id) ==
    IF IsTerminal(a, r) THEN {}
    ELSE {Request("POLL", a, Ready(a, r), session'.mon, session'.gen, id)}

Waiting(more) == Cardinality(requests) + more <= MaxInFlight

\* The user calls an operation that asks the Service and shows a view.
Call(op, a, tok, shown) ==
    /\ calls < MaxCalls /\ Waiting(1)
    /\ calls' = calls + 1
    /\ view' = shown
    /\ requests' = requests \cup {Request(op, a, view, tok, session'.gen, calls + 1)}
    /\ UNCHANGED head

\* One that asks nothing.
Act(shown) ==
    /\ calls < MaxCalls
    /\ calls' = calls + 1
    /\ view' = shown
    /\ UNCHANGED <<requests, head>>

\* isActive, for the session a request was made under.
IsActive(q) == session.gen # 0 /\ session.gen = q.gen

\* fail: retireAuthority, and the failure in place of everything shown.
Fail ==
    /\ session' = NoSession
    /\ view' = Page("FAILED", session.asm)
    /\ UNCHANGED counters

\* Leaving what is shown of an Assessment: its monitor and its evidence
\* request are superseded and the expiry timer is cleared.
Leave(a) ==
    /\ session' = [session EXCEPT !.mon = @ + 1, !.timer = 0, !.asm = a]
    /\ evidenceGen' = evidenceGen + 1
    /\ UNCHANGED nextGen

-----------------------------------------------------------------------------
(* What an operation asks of the view when its answer arrives.             *)

PageAwaited ==
    [REPOSITORIES |-> "REPOSITORIES_LOADING", HEALTH |-> "HEALTH_LOADING",
     MANIFEST |-> "BUNDLE_LOADING", BINDINGS |-> "BUNDLE_LOADING",
     CATALOG |-> "CATALOG_LOADING", PREFLIGHT |-> "PREFLIGHT_LOADING"]
PageIsAwaited(q) == q.op \in DOMAIN PageAwaited /\ view.kind = PageAwaited[q.op]

StartIsAwaited(q) ==
    q.op = "START" /\ view.kind = "WIZARD_READY" /\ view.wizard = "SUBMITTING"

\* The revision is compared, the Assessment is not.
ShowsRevision(q) == view.kind = "READY" /\ view.rev = q.was.rev

FindingsAwaited ==
    [FINDINGS |-> "LIST_LOADING", MORE_FINDINGS |-> "LIST_LOADING_MORE",
     FINDING |-> "DETAIL_LOADING"]
FindingsAreAwaited(q) ==
    /\ q.op \in DOMAIN FindingsAwaited
    /\ ShowsRevision(q) /\ view.findings = FindingsAwaited[q.op]

\* isActiveEvidenceRequest and isActiveDisclosureRequest.
EvidenceAwaited ==
    [METADATA |-> "METADATA_LOADING", DISCLOSURE |-> "DISCLOSURE_LOADING"]
\* A mutant: a disclosure asked for again is answered by the one before.
BugAnyDisclosure(q) ==
    /\ q.op \in DOMAIN EvidenceAwaited
    /\ ShowsRevision(q) /\ view.findings = "DETAIL_READY"
    /\ view.evidence = EvidenceAwaited[q.op]
EvidenceIsAwaited(q) ==
    /\ q.op \in DOMAIN EvidenceAwaited /\ evidenceGen = q.tok
    /\ ShowsRevision(q) /\ view.findings = "DETAIL_READY"
    /\ view.evidence = EvidenceAwaited[q.op]

\* isActiveRiskDecisionRequest and isActiveAssessmentCommand, of the command
\* and of the read that follows it.
CommandOf ==
    [RESUME |-> "RESUME", CANCEL |-> "CANCEL", DECIDE |-> "DECIDE",
     RESUME_READ |-> "RESUME", CANCEL_READ |-> "CANCEL", DECIDE_READ |-> "DECIDE"]
ReadAfter == [RESUME |-> "RESUME_READ", CANCEL |-> "CANCEL_READ", DECIDE |-> "DECIDE_READ"]
CommandIsAwaited(q) ==
    /\ q.op \in DOMAIN CommandOf /\ ShowsRevision(q)
    /\ IF CommandOf[q.op] = "DECIDE" THEN view.findings = "DETAIL_READY" /\ view.deciding
       ELSE view.command = CommandOf[q.op]

\* A mutant: the generation is compared after the long poll only.
BugReadUncompared(q) == q.op = "READ" \/ (q.op = "POLL" /\ session.mon = q.tok)
MonitorIsCurrent(q) == q.op \in {"POLL", "READ"} /\ session.mon = q.tok

ExportIsAwaited(q) ==
    /\ view.kind = "BUNDLE_READY"
    /\ \/ q.op = "PREVIEW" /\ view.export = "PREVIEW_LOADING"
       \/ q.op \in {"REQUEST", "STATUS"} /\ view.export = "REQUESTING" /\ view.preview = q.was.preview
       \/ q.op = "REFRESH_STATUS" /\ view.export = "STATUS_READY" /\ view.stamp = q.was.stamp
       \/ q.op = "DOWNLOAD" /\ view.export = "STATUS_READY" /\ view.statusBy = q.was.statusBy
          /\ view.download = "DOWNLOADING"

\* LIST, MORE, LOAD and CONTEXT ask only that their session lives, and the
\* digest of a download asks nothing.
Unfenced(q) == q.op \in {"LIST", "MORE", "LOAD", "CONTEXT"}
StillWanted(q) ==
    \/ q.op = "DIGEST"
    \/ /\ IsActive(q)
       /\ \/ Unfenced(q) \/ PageIsAwaited(q) \/ StartIsAwaited(q) \/ FindingsAreAwaited(q)
          \/ EvidenceIsAwaited(q) \/ CommandIsAwaited(q) \/ MonitorIsCurrent(q) \/ ExportIsAwaited(q)

\* The answer q waits for, with what the operation then asks and publishes.
Answered(q, more, shown) ==
    /\ q \in requests /\ StillWanted(q)
    /\ requests' = (requests \ {q}) \cup more
    /\ view' = shown
    /\ UNCHANGED <<calls, head>>

\* An answer nobody waits for any more.
Superseded(q) ==
    /\ ~StillWanted(q)
    /\ requests' = requests \ {q}
    /\ UNCHANGED <<view, session, counters, calls, head>>

\* A rejected call, a refusal, or an answer that fails its protocol check.
\* Where a rejection is not compared with the view it ends the session that
\* has moved on: only evidence requests and commands compare it.
Failing(q) ==
    /\ IsActive(q)
    /\ q.op \in DOMAIN EvidenceAwaited \cup DOMAIN CommandOf => StillWanted(q)
    /\ Fail
    /\ requests' = requests \ {q}
    /\ UNCHANGED <<calls, head>>

\* Revisions that a read asked for with q may return.
Reads(q, a) == q.since[a]..head[a] \ {0}

-----------------------------------------------------------------------------
(* Opening and closing.                                                    *)

\* openAssessmentSelection, and backToAssessmentSelection.
OpenAssessmentSelection ==
    /\ NewSession(None)
    /\ Call("LIST", None, 0, Page("SELECTION_LOADING", None))
    /\ UNCHANGED evidenceGen

\* openAssessment, and backToAssessmentDetail from the Bundle.
OpenAssessment(a) ==
    /\ head[a] # 0
    /\ NewSession(a)
    /\ Call("LOAD", a, 0, Page("LOADING", a))
    /\ UNCHANGED evidenceGen

\* openLocalAssessmentSelection (None) and openLocalAssessment.
OpenUnderLocalContext(a) ==
    /\ a # None => head[a] # 0
    /\ NewSession(a)
    /\ Call("CONTEXT", a, 0, Page(IF a = None THEN "SELECTION_LOADING" ELSE "LOADING", a))
    /\ UNCHANGED evidenceGen

\* The issuing session gives way to the one it opens, which shows again what is awaited.
ContextIssued(q) ==
    /\ q.op = "CONTEXT"
    /\ NewSession(q.asm)
    /\ LET op == IF q.asm = None THEN "LIST" ELSE "LOAD"
           kind == IF q.asm = None THEN "SELECTION_LOADING" ELSE "LOADING" IN
       Answered(q, {Request(op, q.asm, CLOSED, 0, session'.gen, q.id)}, Page(kind, q.asm))
    /\ UNCHANGED evidenceGen

\* The Host has no local authority.
ContextAbsent(q) ==
    /\ q.op = "CONTEXT" /\ Answered(q, {}, CLOSED)
    /\ session' = NoSession /\ UNCHANGED counters

CloseAssessment ==
    /\ view # CLOSED
    /\ Act(CLOSED) /\ session' = NoSession /\ UNCHANGED counters

ListingAnswers(q) ==
    /\ q.op \in {"LIST", "MORE"}
    /\ \E listed \in SUBSET {a \in Assessments : head[a] # 0} :
          /\ q.op = "LIST" => {a \in Assessments : q.since[a] # 0} \subseteq listed
          /\ q.op = "MORE" => listed = q.was.listed
          /\ Answered(q, {}, Selection(listed))
    /\ UNCHANGED <<session, counters>>

LoadMoreAssessments ==
    /\ session.gen # 0 /\ view.kind = "SELECTION_READY"
    /\ UNCHANGED <<session, counters>>
    /\ Call("MORE", None, 0, [view EXCEPT !.kind = "SELECTION_LOADING_MORE"])

SelectAssessment(a) ==
    /\ session.gen # 0 /\ view.kind = "SELECTION_READY" /\ a \in view.listed
    /\ session' = [session EXCEPT !.asm = a]
    /\ Call("LOAD", a, 0, Page("LOADING", a))
    /\ UNCHANGED counters

\* failSelection: an identity that the current page does not list.
SelectUnlisted ==
    /\ view.kind # "FAILED" /\ Act(Page("FAILED", None))
    /\ session' = NoSession /\ UNCHANGED counters

\* loadAssessment, and the monitor it starts.
LoadAnswers(q) ==
    /\ q.op = "LOAD"
    /\ \E r \in Reads(q, q.asm) :
          /\ session' = [session EXCEPT !.mon = IF IsTerminal(q.asm, r) THEN @ ELSE @ + 1]
          /\ Answered(q, Poll(q.asm, r, q.id), Ready(q.asm, r))
    /\ UNCHANGED counters

-----------------------------------------------------------------------------
(* The monitor: a long poll, then a read when the revision has moved.      *)

PollTimesOut(q) ==
    /\ q.op = "POLL" /\ MonitorIsCurrent(q)
    /\ Answered(q, {[q EXCEPT !.since = head]}, view)
    /\ q.since # head /\ UNCHANGED <<session, counters>>

PollAnswers(q) ==
    /\ q.op = "POLL" /\ head[q.asm] > q.was.rev
    /\ Answered(q, {Follow(q, "READ", q.asm)}, view)
    /\ UNCHANGED <<session, counters>>

ReadAnswers(q) ==
    /\ q.op = "READ"
    /\ \E r \in Reads(q, q.asm) :
          /\ r > q.was.rev
          /\ UNCHANGED <<session, counters>>
          /\ Answered(q, Poll(q.asm, r, q.id), Ready(q.asm, r))

-----------------------------------------------------------------------------
(* Pages of their own: repositories, the start wizard, health.             *)

OpenRepositories ==
    /\ session.gen # 0 /\ Leave(None)
    /\ Call("REPOSITORIES", None, 0, Page("REPOSITORIES_LOADING", None))

OpenRuntimeHealth ==
    /\ session.gen # 0 /\ Leave(None)
    /\ Call("HEALTH", None, 0, Page("HEALTH_LOADING", None))

RefreshRuntimeHealth ==
    /\ session.gen # 0 /\ view.kind = "HEALTH_READY"
    /\ UNCHANGED <<session, counters>>
    /\ Call("HEALTH", None, 0, Page("HEALTH_LOADING", None))

SelectRepository ==
    /\ session.gen # 0 /\ view.kind = "REPOSITORIES_READY"
    /\ UNCHANGED <<session, counters>>
    /\ Call("CATALOG", None, 0, Page("CATALOG_LOADING", None))

RequestStartPreflight ==
    /\ session.gen # 0 /\ view.kind = "WIZARD_READY" /\ view.wizard # "SUBMITTING"
    /\ UNCHANGED <<session, counters>>
    /\ Call("PREFLIGHT", None, 0, Page("PREFLIGHT_LOADING", None))

CancelStartPreflight ==
    /\ view.kind = "WIZARD_READY" /\ view.wizard \in {"ADMISSIBLE", "INADMISSIBLE"}
    /\ Act(Wizard("EMPTY")) /\ UNCHANGED <<session, counters>>

ConfirmStartAssessment ==
    /\ session.gen # 0 /\ view.kind = "WIZARD_READY" /\ view.wizard = "ADMISSIBLE"
    /\ UNCHANGED <<session, counters>>
    /\ Call("START", Fresh, 0, Wizard("SUBMITTING"))

PageLoaded ==
    [REPOSITORIES |-> {Page("REPOSITORIES_READY", None)}, HEALTH |-> {Page("HEALTH_READY", None)},
     CATALOG |-> {Wizard("EMPTY")}, PREFLIGHT |-> {Wizard("ADMISSIBLE"), Wizard("INADMISSIBLE")}]
PageAnswers(q) ==
    /\ q.op \in DOMAIN PageLoaded
    /\ \E loaded \in PageLoaded[q.op] : Answered(q, {}, loaded)
    /\ UNCHANGED <<session, counters>>

\* The receipt, and loadAssessment of what it names.
StartAnswers(q) ==
    /\ q.op = "START" /\ q.answered
    /\ session' = [session EXCEPT !.asm = Fresh]
    /\ Answered(q, {Follow(q, "LOAD", Fresh)}, Page("LOADING", Fresh))
    /\ UNCHANGED counters

-----------------------------------------------------------------------------
(* Findings and their evidence.                                            *)

OpenFindings ==
    /\ session.gen # 0 /\ view.kind = "READY" /\ view.findings = "NOT_LOADED"
    /\ UNCHANGED <<session, counters>>
    /\ Call("FINDINGS", view.asm, 0, Findings(view, "LIST_LOADING"))

LoadMoreFindings ==
    /\ session.gen # 0 /\ view.kind = "READY" /\ view.findings = "LIST_READY"
    /\ UNCHANGED <<session, counters>>
    /\ Call("MORE_FINDINGS", view.asm, 0, Findings(view, "LIST_LOADING_MORE"))

SelectFinding ==
    /\ session.gen # 0 /\ view.kind = "READY" /\ view.findings = "LIST_READY"
    /\ UNCHANGED <<session, counters>>
    /\ Call("FINDING", view.asm, 0, Findings(view, "DETAIL_LOADING"))

FindingsLoaded == [FINDINGS |-> "LIST_READY", MORE_FINDINGS |-> "LIST_READY", FINDING |-> "DETAIL_READY"]
FindingsAnswer(q) ==
    /\ q.op \in DOMAIN FindingsLoaded
    /\ Answered(q, {}, Findings(q.was, FindingsLoaded[q.op]))
    /\ UNCHANGED <<session, counters>>

\* The evidence request in flight is aborted by the generation it compares.
SelectEvidence ==
    /\ session.gen # 0 /\ view.kind = "READY" /\ IsTerminal(view.asm, view.rev)
    /\ view.findings = "DETAIL_READY" /\ view.evidence = "NOT_LOADED" /\ ~view.deciding
    /\ evidenceGen' = evidenceGen + 1 /\ UNCHANGED <<session, nextGen>>
    /\ Call("METADATA", view.asm, evidenceGen', Evidence(view, "METADATA_LOADING"))

DiscloseEvidence ==
    /\ session.gen # 0 /\ view.kind = "READY" /\ view.evidence \in {"METADATA_READY", "EXPIRED"}
    /\ session' = [session EXCEPT !.timer = 0]
    /\ evidenceGen' = evidenceGen + 1 /\ UNCHANGED nextGen
    /\ Call("DISCLOSURE", view.asm, evidenceGen', Evidence(view, "DISCLOSURE_LOADING"))

MetadataAnswers(q) ==
    /\ q.op = "METADATA" /\ Answered(q, {}, Evidence(q.was, "METADATA_READY"))
    /\ UNCHANGED <<session, counters>>

\* A view without content has no expiry; an expired content is not shown.
DisclosureAnswers(q) ==
    /\ q.op = "DISCLOSURE"
    /\ \/ /\ Answered(q, {}, Evidence(q.was, "REDACTED"))
          /\ UNCHANGED session
       \/ /\ Answered(q, {}, [Evidence(q.was, "DISCLOSURE_READY") EXCEPT !.shownBy = q.tok])
          /\ session' = [session EXCEPT !.timer = q.tok]
       \/ /\ Answered(q, {}, Evidence(q.was, "EXPIRED"))
          /\ session' = [session EXCEPT !.timer = 0]
    /\ UNCHANGED counters

\* scheduleEvidenceExpiry, when its timer fires.
EvidenceExpires ==
    /\ session.timer # 0
    /\ session' = [session EXCEPT !.timer = 0]
    /\ view' = IF /\ evidenceGen = session.timer
                  /\ view.kind = "READY" /\ view.evidence = "DISCLOSURE_READY"
               THEN Evidence(view, "EXPIRED") ELSE view
    /\ UNCHANGED <<counters, requests, calls, head>>

\* What leaving a disclosure does to its request and its timer.
LeaveEvidence ==
    /\ evidenceGen' = evidenceGen + 1
    /\ session' = [session EXCEPT !.timer = 0] /\ UNCHANGED nextGen

HideEvidenceDisclosure ==
    /\ session.gen # 0 /\ view.kind = "READY"
    /\ view.evidence \in {"DISCLOSURE_LOADING", "DISCLOSURE_READY", "REDACTED"}
    /\ LeaveEvidence /\ Act(Evidence(view, "METADATA_READY"))

BackToFindingDetail ==
    /\ view.kind = "READY" /\ view.findings = "DETAIL_READY"
    /\ LeaveEvidence /\ Act([Evidence(view, "NOT_LOADED") EXCEPT !.deciding = view.deciding])

BackToFindingList ==
    /\ view.kind = "READY" /\ view.findings = "DETAIL_READY" /\ ~view.deciding
    /\ LeaveEvidence /\ Act(Findings(view, "LIST_READY"))

-----------------------------------------------------------------------------
(* Commands on the revision that is shown.                                 *)

\* The monitor is superseded; the read after the command starts another.
RecordRiskDecision ==
    /\ session.gen # 0 /\ view.kind = "READY" /\ ~IsTerminal(view.asm, view.rev)
    /\ view.findings = "DETAIL_READY" /\ ~view.deciding
    /\ Leave(session.asm)
    /\ Call("DECIDE", view.asm, 0, [Evidence(view, "NOT_LOADED") EXCEPT !.deciding = TRUE])

SubmitAssessmentCommand(command) ==
    /\ session.gen # 0 /\ view.kind = "READY" /\ ~IsTerminal(view.asm, view.rev)
    /\ view.command = "IDLE"
    /\ session' = [session EXCEPT !.mon = @ + 1] /\ UNCHANGED counters
    /\ Call(command, view.asm, 0, [view EXCEPT !.command = command])

\* A receipt, or the CONFLICT of a stale revision (refreshAfterStaleAction):
\* either way the Assessment is read again.
CommandAnswers(q) ==
    /\ q.op \in DOMAIN ReadAfter /\ q.answered
    /\ Answered(q, {Follow(q, ReadAfter[q.op], q.asm)}, view)
    /\ UNCHANGED <<session, counters>>

CommandRefreshes(q) ==
    /\ q.op \in DOMAIN CommandOf \ DOMAIN ReadAfter
    /\ \E r \in Reads(q, q.asm) :
          /\ r >= q.was.rev
          /\ session' = [session EXCEPT !.mon = IF IsTerminal(q.asm, r) THEN @ ELSE @ + 1]
          /\ Answered(q, Poll(q.asm, r, q.id), Ready(q.asm, r))
    /\ UNCHANGED counters

\* What is named is not offered: an unlisted Finding, Evidence Link or
\* destination, a repository that is not enabled, an action not projected.
Mismatch ==
    /\ session.gen # 0 /\ calls < MaxCalls
    /\ \/ view.kind \in {"REPOSITORIES_READY", "BUNDLE_READY"}
       \/ /\ view.kind = "READY"
          /\ \/ view.command = "IDLE" \/ view.findings = "LIST_READY"
             \/ view.findings = "DETAIL_READY" /\ ~view.deciding
    /\ Fail /\ calls' = calls + 1 /\ UNCHANGED <<requests, head>>

-----------------------------------------------------------------------------
(* The Bundle of a SEALED Assessment and its exports.                      *)

OpenBundle ==
    /\ session.gen # 0 /\ view.kind = "READY" /\ IsTerminal(view.asm, view.rev)
    /\ Leave(session.asm)
    /\ Call("MANIFEST", view.asm, 0, Page("BUNDLE_LOADING", view.asm))

ManifestAnswers(q) ==
    /\ q.op = "MANIFEST" /\ Answered(q, {Follow(q, "BINDINGS", q.asm)}, view)
    /\ UNCHANGED <<session, counters>>

BindingsAnswer(q) ==
    /\ q.op = "BINDINGS"
    /\ Answered(q, {}, [Page("BUNDLE_READY", q.asm) EXCEPT !.rev = q.was.rev])
    /\ UNCHANGED <<session, counters>>

\* The Bundle a view shows, with the export in a new state.
Exporting(shown, state) ==
    [Page("BUNDLE_READY", shown.asm) EXCEPT !.rev = shown.rev, !.export = state, !.preview = shown.preview]

PreviewExport ==
    /\ session.gen # 0 /\ view.kind = "BUNDLE_READY" /\ UNCHANGED <<session, counters>>
    /\ Call("PREVIEW", view.asm, 0, Exporting(view, "PREVIEW_LOADING"))

PreviewAnswers(q) ==
    /\ q.op = "PREVIEW" /\ UNCHANGED <<session, counters>>
    /\ Answered(q, {}, [Exporting(q.was, "PREVIEW_READY") EXCEPT !.preview = q.id])

RequestExport ==
    /\ session.gen # 0 /\ view.kind = "BUNDLE_READY" /\ view.export = "PREVIEW_READY"
    /\ UNCHANGED <<session, counters>>
    /\ Call("REQUEST", view.asm, 0, Exporting(view, "REQUESTING"))

\* The receipt, and the read of the status of what it names.
RequestAnswers(q) ==
    /\ q.op = "REQUEST" /\ Answered(q, {Follow(q, "STATUS", q.asm)}, view)
    /\ UNCHANGED <<session, counters>>

\* allowedTransitions, of the status that is shown.
AllowedTransitions ==
    [PENDING |-> {"PENDING", "DELIVERED", "FAILED", "EXPIRED"},
     DELIVERED |-> {"DELIVERED", "EXPIRED"}, FAILED |-> {"FAILED"}, EXPIRED |-> {"EXPIRED"}]

RefreshExportStatus ==
    /\ session.gen # 0 /\ view.kind = "BUNDLE_READY" /\ view.export = "STATUS_READY"
    /\ UNCHANGED <<session, counters>>
    /\ Call("REFRESH_STATUS", view.asm, 0, view)

StatusAnswers(q) ==
    /\ q.op \in {"STATUS", "REFRESH_STATUS"}
    /\ \E status \in AllowedTransitions[q.was.status] :
          Answered(q, {}, [Exporting(q.was, "STATUS_READY") EXCEPT
                             !.stamp = q.id, !.status = status, !.statusBy = q.id])
    /\ UNCHANGED <<session, counters>>

DownloadExport ==
    /\ session.gen # 0 /\ view.kind = "BUNDLE_READY" /\ view.export = "STATUS_READY"
    /\ view.status = "DELIVERED" /\ view.download # "DOWNLOADING"
    /\ UNCHANGED <<session, counters>>
    /\ Call("DOWNLOAD", view.asm, 0, [view EXCEPT !.download = "DOWNLOADING", !.stamp = calls + 1])

\* The bytes are digested, which waits as well.
DownloadAnswers(q) ==
    /\ q.op = "DOWNLOAD" /\ Answered(q, {Follow(q, "DIGEST", q.asm)}, view)
    /\ UNCHANGED <<session, counters>>

\* browserSha256Hex has answered: the browser downloads, and the Bundle of
\* before is published whatever is shown by now.
DigestAnswers(q) ==
    /\ q.op = "DIGEST"
    /\ Answered(q, {}, [q.was EXCEPT !.download = "COMPLETE", !.stamp = q.id + MaxCalls])
    /\ UNCHANGED <<session, counters>>

-----------------------------------------------------------------------------
(* The Service, as the operations need it.                                 *)

AssessmentAdvances(a) ==
    /\ head[a] \in 1..Final[a] - 1
    /\ head' = [head EXCEPT ![a] = @ + 1]
    /\ UNCHANGED <<view, session, counters, requests, calls>>

\* A command commits a revision, or finds that its own is not the present one.
ServiceDecides(q) ==
    /\ q.op \in DOMAIN ReadAfter \cup {"START"} /\ ~q.answered
    /\ q.op = "START" => head[Fresh] = 0
    /\ requests' = (requests \ {q}) \cup {[q EXCEPT !.answered = TRUE]}
    /\ head' = IF q.op = "START" \/ head[q.asm] = q.was.rev
               THEN [head EXCEPT ![q.asm] = @ + 1] ELSE head
    /\ UNCHANGED <<view, session, counters, calls>>

-----------------------------------------------------------------------------
ClientInit ==
    /\ view = CLOSED /\ session = NoSession /\ nextGen = 0 /\ evidenceGen = 0
    /\ requests = {} /\ calls = 0
    /\ head = [a \in Assessments |-> IF a = Fresh THEN 0 ELSE 1]

Arrival(q) ==
    \/ Superseded(q) \/ Failing(q) \/ ContextIssued(q) \/ ContextAbsent(q)
    \/ ListingAnswers(q) \/ LoadAnswers(q) \/ PollTimesOut(q) \/ PollAnswers(q) \/ ReadAnswers(q)
    \/ PageAnswers(q) \/ StartAnswers(q) \/ FindingsAnswer(q) \/ MetadataAnswers(q)
    \/ DisclosureAnswers(q) \/ CommandAnswers(q) \/ CommandRefreshes(q)
    \/ ManifestAnswers(q) \/ BindingsAnswer(q) \/ PreviewAnswers(q) \/ RequestAnswers(q)
    \/ StatusAnswers(q) \/ DownloadAnswers(q) \/ DigestAnswers(q) \/ ServiceDecides(q)

ClientArrives == \E q \in requests : Arrival(q)
ServiceAdvances == \E a \in Assessments : AssessmentAdvances(a)

=============================================================================
