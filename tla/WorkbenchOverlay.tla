-------------------------- MODULE WorkbenchOverlay --------------------------
(***************************************************************************)
(* What the screen of src/src/web-client/workbench/WorkbenchOverlay.tsx    *)
(* offers its user in each view: the operations of the controller that a   *)
(* control which is rendered and not disabled calls.  A click may still be *)
(* late: it meets a view published after the one it was aimed at.          *)
(***************************************************************************)
EXTENDS WorkbenchController

\* The launcher, and the Host's own integration.
LauncherOffers ==
    \/ OpenAssessmentSelection
    \/ \E a \in Assessments : OpenAssessment(a)
    \/ \E a \in Assessments \cup {None} : OpenUnderLocalContext(a)

DialogOffers == CloseAssessment

SelectionOffers ==
    \/ /\ view.kind \in {"SELECTION_READY", "SELECTION_LOADING_MORE"}
       /\ OpenRepositories \/ OpenRuntimeHealth
    \/ LoadMoreAssessments \/ \E a \in Assessments : SelectAssessment(a)

HealthOffers ==
    RefreshRuntimeHealth \/ (view.kind = "HEALTH_READY" /\ OpenAssessmentSelection)

RepositoriesOffer ==
    SelectRepository \/ (view.kind = "REPOSITORIES_READY" /\ OpenAssessmentSelection)

\* A selection that formValid admits.
WizardOffers ==
    /\ view.kind = "WIZARD_READY" /\ view.wizard = "EMPTY"
    /\ RequestStartPreflight \/ OpenAssessmentSelection

PreflightOffers ==
    /\ view.kind = "WIZARD_READY" /\ view.wizard \in {"ADMISSIBLE", "INADMISSIBLE"}
    /\ CancelStartPreflight \/ ConfirmStartAssessment \/ OpenAssessmentSelection

\* Refreshing is offered while a download is under way.
BundleOffers ==
    \/ view.export \notin {"PREVIEW_LOADING", "REQUESTING"} /\ PreviewExport
    \/ RequestExport \/ RefreshExportStatus \/ DownloadExport
    \/ view.kind = "BUNDLE_READY" /\ OpenAssessment(view.asm)

DetailOffers == view.kind = "READY" /\ (OpenBundle \/ OpenAssessmentSelection)

\* The panel of a BLOCKED Assessment.
RecoveryOffers == \E command \in {"RESUME", "CANCEL"} : SubmitAssessmentCommand(command)

\* The findings stay in reach while a command is submitted.
FindingsOffer == OpenFindings \/ LoadMoreFindings \/ SelectFinding
FindingOffers ==
    view.evidence = "NOT_LOADED" /\ (BackToFindingList \/ SelectEvidence \/ RecordRiskDecision)

EvidenceOffers ==
    \/ view.evidence \in {"METADATA_LOADING", "METADATA_READY", "EXPIRED"} /\ BackToFindingDetail
    \/ DiscloseEvidence
DisclosureOffers == HideEvidenceDisclosure

LateClick == Mismatch \/ SelectUnlisted

\* The whole screen: the user, the expiry timer, the answers and the Service.
UserOffers ==
    \/ LauncherOffers \/ DialogOffers \/ SelectionOffers \/ HealthOffers \/ RepositoriesOffer
    \/ WizardOffers \/ PreflightOffers \/ BundleOffers \/ DetailOffers \/ RecoveryOffers
    \/ FindingsOffer \/ FindingOffers \/ EvidenceOffers \/ DisclosureOffers \/ LateClick
OverlayNext == UserOffers \/ EvidenceExpires \/ ClientArrives \/ ServiceAdvances
OverlaySpec == ClientInit /\ [][OverlayNext]_clientVars

-----------------------------------------------------------------------------
(* Content of an Evidence Artifact is on the screen only as the answer to  *)
(* the last evidence request of the live session, on a sealed record, and  *)
(* with its expiry timer armed: content that the operator has left, or     *)
(* that nothing will hide, is never shown.                                 *)
DisclosureIsWanted ==
    view.evidence = "DISCLOSURE_READY" =>
        /\ session.gen # 0 /\ view.kind = "READY" /\ IsTerminal(view.asm, view.rev)
        /\ view.shownBy = evidenceGen /\ session.timer = evidenceGen

(* In a session an Assessment on the screen is never replaced by an older  *)
(* revision of itself, whichever of its monitor, its commands, its finding *)
(* reads and its own load answers last.                                    *)
RevisionsAdvance ==
    [][ (view.kind = "READY" /\ view'.kind = "READY" /\ view.asm = view'.asm
         /\ session.gen = session'.gen) => view'.rev >= view.rev ]_clientVars

(* Closing the Workbench, and every failure, erases what was read under    *)
(* the session: without a live one nothing of an Assessment is shown.      *)
NothingOutlivesItsSession ==
    session.gen = 0 => view.kind \in {"CLOSED", "FAILED"}

=============================================================================
