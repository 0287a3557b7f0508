------------------------ MODULE AssessmentLifecycle ------------------------
(***************************************************************************)
(* What the Security Assurance service promises of every assessment,       *)
(* whatever the interleaving, the crash or the retry: it executes only as  *)
(* often as an operator has authorized, an accepted cancellation closes it *)
(* to every other outcome, and its outcome, once there, is the last.       *)
(*                                                                         *)
(* AssessmentService implements this module; revisions, receipts, tasks,   *)
(* files, windows and restarts do not appear here.                         *)
(***************************************************************************)
CONSTANTS Assessments

VARIABLES
    phase,     \* absent, open, sealed or canceled
    granted,   \* an execution has been authorized and has not begun
    working,   \* an execution has begun and has not ended
    closing    \* a cancellation has been accepted

lifecycle == <<phase, granted, working, closing>>

Init ==
    /\ phase = [a \in Assessments |-> "absent"]
    /\ granted = [a \in Assessments |-> FALSE]
    /\ working = [a \in Assessments |-> FALSE]
    /\ closing = [a \in Assessments |-> FALSE]

\* An open assessment to which no cancellation has been accepted.
Admitting(a) == phase[a] = "open" /\ ~closing[a]

Start(a) ==
    /\ phase[a] = "absent"
    /\ phase' = [phase EXCEPT ![a] = "open"]
    /\ granted' = [granted EXCEPT ![a] = TRUE]
    /\ UNCHANGED <<working, closing>>

\* Each authorization is spent by exactly one beginning.
Begin(a) ==
    /\ Admitting(a)
    /\ granted[a]
    /\ granted' = [granted EXCEPT ![a] = FALSE]
    /\ working' = [working EXCEPT ![a] = TRUE]
    /\ UNCHANGED <<phase, closing>>

\* The execution failed, was interrupted, or waits for a risk decision.
Hold(a) ==
    /\ Admitting(a)
    /\ working[a]
    /\ working' = [working EXCEPT ![a] = FALSE]
    /\ UNCHANGED <<phase, granted, closing>>

Authorize(a) ==
    /\ Admitting(a)
    /\ ~granted[a]
    /\ ~working[a]
    /\ granted' = [granted EXCEPT ![a] = TRUE]
    /\ UNCHANGED <<phase, working, closing>>

Seal(a) ==
    /\ Admitting(a)
    /\ ~granted[a]
    /\ phase' = [phase EXCEPT ![a] = "sealed"]
    /\ working' = [working EXCEPT ![a] = FALSE]
    /\ UNCHANGED <<granted, closing>>

AcceptCancellation(a) ==
    /\ Admitting(a)
    /\ closing' = [closing EXCEPT ![a] = TRUE]
    /\ UNCHANGED <<phase, granted, working>>

Cancel(a) ==
    /\ phase[a] = "open"
    /\ closing[a]
    /\ phase' = [phase EXCEPT ![a] = "canceled"]
    /\ granted' = [granted EXCEPT ![a] = FALSE]
    /\ working' = [working EXCEPT ![a] = FALSE]
    /\ UNCHANGED closing

Next ==
    \E a \in Assessments :
        \/ Start(a) \/ Begin(a) \/ Hold(a) \/ Authorize(a)
        \/ Seal(a) \/ AcceptCancellation(a) \/ Cancel(a)

Spec == Init /\ [][Next]_lifecycle
=============================================================================
