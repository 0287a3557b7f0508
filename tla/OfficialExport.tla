--------------------------- MODULE OfficialExport ---------------------------
(***************************************************************************)
(* What an Official Export is to the clients of the service and to whoever *)
(* reads its destination, whatever the crash, the torn write, the retry or *)
(* the race: an identity belongs to one request for good, its outcome only *)
(* moves forward, the artifact is there whole before it is called          *)
(* delivered, and once there it is taken away by its expiry alone.         *)
(*                                                                         *)
(* ExportDelivery implements this module; calls, chains of tasks, torn     *)
(* files, attempts, failures and the process do not appear here.           *)
(***************************************************************************)
CONSTANTS Exports, Digests

VARIABLES
    request,    \* the digest each identity was granted to, or "none"
    outcome,    \* what getExport answers for it
    available,  \* the whole artifact is at its destination
    lapsed,     \* the artifact's lifetime is over
    told        \* the receipts that clients hold

exported == <<request, outcome, available, lapsed, told>>

Init ==
    /\ request = [e \in Exports |-> "none"]
    /\ outcome = [e \in Exports |-> "NONE"]
    /\ available = [e \in Exports |-> FALSE]
    /\ lapsed = [e \in Exports |-> FALSE]
    /\ told = {}

Granted(e) == outcome[e] # "NONE"

\* A client is told of the request its identity was granted to, and of no other.
Informed(e) == told' \in {told, told \cup {<<e, request[e]>>}}

Accept(e, d) ==
    /\ ~Granted(e)
    /\ request' = [request EXCEPT ![e] = d]
    /\ outcome' = [outcome EXCEPT ![e] = "PENDING"]
    /\ UNCHANGED <<available, lapsed, told>>

Inform(e) ==
    /\ Granted(e)
    /\ Informed(e)
    /\ UNCHANGED <<request, outcome, available, lapsed>>

\* The artifact is completed while the Export is open, ...
Place(e) ==
    /\ outcome[e] = "PENDING"
    /\ ~available[e]
    /\ available' = [available EXCEPT ![e] = TRUE]
    /\ UNCHANGED <<request, outcome, lapsed, told>>

\* ... which ends with the artifact in place, or in failure.
Deliver(e) ==
    /\ outcome[e] = "PENDING"
    /\ available[e]
    /\ outcome' = [outcome EXCEPT ![e] = "DELIVERED"]
    /\ Informed(e)
    /\ UNCHANGED <<request, available, lapsed>>

GiveUp(e) ==
    /\ outcome[e] = "PENDING"
    /\ outcome' = [outcome EXCEPT ![e] = "FAILED"]
    /\ Informed(e)
    /\ UNCHANGED <<request, available, lapsed>>

Lapse(e) ==
    /\ Granted(e)
    /\ ~lapsed[e]
    /\ lapsed' = [lapsed EXCEPT ![e] = TRUE]
    /\ UNCHANGED <<request, outcome, available, told>>

\* Access ends first, then the artifact goes, then its removal is recorded.
Expire(e) ==
    /\ outcome[e] = "DELIVERED"
    /\ lapsed[e]
    /\ outcome' = [outcome EXCEPT ![e] = "EXPIRED"]
    /\ UNCHANGED <<request, available, lapsed, told>>

Remove(e) ==
    /\ outcome[e] = "EXPIRED"
    /\ available[e]
    /\ available' = [available EXCEPT ![e] = FALSE]
    /\ UNCHANGED <<request, outcome, lapsed, told>>

Purge(e) ==
    /\ outcome[e] = "EXPIRED"
    /\ ~available[e]
    /\ outcome' = [outcome EXCEPT ![e] = "PURGED"]
    /\ Informed(e)
    /\ UNCHANGED <<request, available, lapsed>>

Next ==
    \E e \in Exports :
        \/ \E d \in Digests : Accept(e, d)
        \/ Inform(e) \/ Place(e) \/ Deliver(e) \/ GiveUp(e)
        \/ Lapse(e) \/ Expire(e) \/ Remove(e) \/ Purge(e)

Spec == Init /\ [][Next]_exported
=============================================================================
