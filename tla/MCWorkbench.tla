---------------------------- MODULE MCWorkbench ----------------------------
(***************************************************************************)
(* The Workbench for TLC.  A behaviour has a part of the screen for its    *)
(* user to work on: the selector, the start wizard and what they open; an  *)
(* Assessment that moves on, with its commands; a sealed one, with its     *)
(* evidence; or its exports.  CallsOf bounds how long, MaxSessions how     *)
(* often the Workbench is opened.                                          *)
(***************************************************************************)
EXTENDS WorkbenchOverlay

CONSTANTS sealed, live, started, CallsOf, MaxSessions

VARIABLE part

MCFinal == [a \in Assessments |-> IF a = sealed THEN 1 ELSE IF a = live THEN 3 ELSE 2]
MCCallsOf == [selection |-> 7, live |-> 5, sealed |-> 8, export |-> 7]

\* A part starts from the launcher or, where the selector is not its subject,
\* from the Assessment it is about.
Opens ==
    \/ part = "selection" /\ LauncherOffers
    \/ part = "live" /\ OpenAssessment(live)
    \/ part \in {"sealed", "export"} /\ OpenAssessment(sealed)

UserActs ==
    /\ calls < CallsOf[part]
    /\ \/ Opens \/ DialogOffers \/ LateClick
       \/ /\ part = "selection"
          /\ \/ SelectionOffers \/ HealthOffers
             \/ RepositoriesOffer \/ WizardOffers \/ PreflightOffers
       \/ /\ part = "live"
          /\ DetailOffers \/ RecoveryOffers \/ FindingsOffer \/ FindingOffers
       \/ /\ part = "sealed"
          /\ FindingsOffer \/ FindingOffers \/ EvidenceOffers \/ DisclosureOffers
       \/ part = "export" /\ (DetailOffers \/ BundleOffers)
    /\ nextGen' <= MaxSessions

Init == ClientInit /\ part \in {"selection", "live", "sealed", "export"}
Next == (UserActs \/ EvidenceExpires \/ ClientArrives \/ ServiceAdvances) /\ UNCHANGED part
Spec == Init /\ [][Next]_<<part, clientVars>>
=============================================================================
