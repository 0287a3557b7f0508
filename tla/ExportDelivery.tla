---------------------------- MODULE ExportDelivery ----------------------------
(***************************************************************************)
(* Official Exports: requestExport and getExport of                        *)
(* SecurityAssuranceService (src/src/index.ts), the export delivery worker *)
(* and ExportDeliveryModule (src/src/internal/export-delivery.ts).         *)
(*                                                                         *)
(* An Export is a record file and an artifact file.  The record is created *)
(* by an exclusive write, which a crash can tear, and replaced by renames, *)
(* which are atomic; the artifact is created by an exclusive write, which  *)
(* a crash or an I/O error can tear.  Everything that reads and replaces a *)
(* record runs in the Export's chain (exclusive), one task at a time, so a *)
(* task reads and replaces it in one step here.                            *)
(*                                                                         *)
(* Digests, timestamps, owners and artifact bytes are abstracted: a request*)
(* is an Export identity (owner, assessment and idempotency key) and a     *)
(* digest; a clock reading is whether a deadline has passed; the bytes of  *)
(* an Export are determined by its record, so an artifact is whole or torn.*)
(***************************************************************************)
EXTENDS Integers, Sequences, FiniteSets

CONSTANTS
    Exports,      \* Export identities
    Digests,      \* request digests that may be presented under one identity
    Calls,        \* concurrent requestExport calls
    MaxAttempts,  \* EXPORT_DELIVERY_MAX_ATTEMPTS
    MaxReads,     \* bound on getExport calls that queue a reconciliation at once
    MaxFaults,    \* bound on I/O and source failures
    MaxCrashes    \* bound on process deaths and teardowns

ASSUME AttemptsAssumption == MaxAttempts \in Nat \ {0}
ASSUME ExportBounds == MaxReads \in Nat /\ MaxFaults \in Nat /\ MaxCrashes \in Nat
ASSUME CallsAssumption == "worker" \notin Calls /\ "reader" \notin Calls

VARIABLES
    file,      \* exports/<id>/record.json
    artifact,  \* destinations/local-audit/<id>.json
    lapsed,    \* the clock has passed the artifact lifetime
    receipts,  \* receipts returned to callers
    process,   \* lifecycle of the service process
    call,      \* requestExport calls
    chain,     \* inFlight: the tasks of each Export, the first one running
    worker,    \* runExportDeliveryWorker
    faults,    \* failures so far
    crashes    \* process deaths and teardowns so far

disk == <<file, artifact>>
vars == <<file, artifact, lapsed, receipts, process, call, chain, worker, faults, crashes>>

-----------------------------------------------------------------------------
(* State. *)

\* A record's null values are "none"; retry is nextRetryAt against the clock.
Records ==
    [digest: Digests,
     status: {"PENDING", "DELIVERED", "FAILED", "EXPIRED"},
     attempts: 0 .. MaxAttempts,
     retry: {"none", "waiting", "due"},
     failure: {"none", "SOURCE_SUBMISSION_UNAVAILABLE", "ARTIFACT_IO_ERROR",
               "ARTIFACT_INTEGRITY_CONFLICT"},
     retention: {"NOT_RETAINED", "RETAINED", "PURGE_PENDING", "PURGED"}]

Absent == [status |-> "absent"]
Torn == [status |-> "torn"]

\* The chain's tasks: deliverPending, recordSourceUnavailable, reconcileExpiry.
TaskKinds == {"deliver", "unavailable", "expire"}
Clients == Calls \cup {"worker", "reader"}
Tasks == [kind: TaskKinds, by: Clients,
          pc: {"queued", "attempting", "writing", "written", "failing", "purging"},
          code: {"none", "SOURCE_SUBMISSION_UNAVAILABLE", "ARTIFACT_IO_ERROR",
                 "ARTIFACT_INTEGRITY_CONFLICT"}]
TaskBy(kind, by) == [kind |-> kind, by |-> by, pc |-> "queued", code |-> "none"]

CallSteps == {"idle", "verified", "absent", "creating", "lost", "delivering"}
Idle == [pc |-> "idle"]
WorkerSteps == {"off", "scanning", "working", "awaiting", "waiting"}

Init ==
    /\ file = [e \in Exports |-> Absent]
    /\ artifact = [e \in Exports |-> "absent"]
    /\ lapsed = [e \in Exports |-> FALSE]
    /\ receipts = {}
    /\ process = "ACTIVE"
    /\ call = [c \in Calls |-> Idle]
    /\ chain = [e \in Exports |-> <<>>]
    /\ worker = [pc |-> "scanning", todo |-> {}]
    /\ faults = 0
    /\ crashes = 0

-----------------------------------------------------------------------------
(* requestExport and begin. *)

Live == process \in {"ACTIVE", "QUIESCING"}
Fault == faults < MaxFaults /\ faults' = faults + 1
Enqueue(e, kind, by) == chain' = [chain EXCEPT ![e] = Append(@, TaskBy(kind, by))]

\* The sealed source is verified and the preview built.
VerifyRequest(c, e, d) ==
    /\ process = "ACTIVE"
    /\ call[c] = Idle
    /\ call' = [call EXCEPT ![c] = [pc |-> "verified", export |-> e, digest |-> d]]
    /\ UNCHANGED <<disk, lapsed, receipts, process, chain, worker, faults, crashes>>

\* Mutant: a replay is taken for the accepted request whatever it asks.
BugReplayAnything(c) ==
    LET e == call[c].export
    IN  IF file[e] \in Records
        THEN /\ call' = [call EXCEPT ![c].pc = "delivering"]
             /\ Enqueue(e, "deliver", c)
        ELSE call' = [call EXCEPT ![c] = Idle] /\ UNCHANGED chain

\* replay: the digest must match, then deliver joins the chain.
Replay(c) ==
    LET e == call[c].export
    IN  IF file[e] \in Records /\ file[e].digest = call[c].digest
        THEN /\ call' = [call EXCEPT ![c].pc = "delivering"]
             /\ Enqueue(e, "deliver", c)
        ELSE call' = [call EXCEPT ![c] = Idle] /\ UNCHANGED chain

\* The first read of begin, and the second one of a call that lost the race.
ReadExisting(c) ==
    /\ Live
    /\ call[c].pc \in {"verified", "lost"}
    /\ IF file[call[c].export] = Absent
       THEN call' = [call EXCEPT ![c].pc = "absent"] /\ UNCHANGED chain
       ELSE Replay(c)
    /\ UNCHANGED <<disk, lapsed, receipts, process, worker, faults, crashes>>

\* The exclusive write begins, or another call's write was first (EEXIST).
CreateRecord(c) ==
    /\ Live
    /\ call[c].pc = "absent"
    /\ LET e == call[c].export
       IN  IF file[e] = Absent
           THEN /\ file' = [file EXCEPT ![e] = Torn]
                /\ call' = [call EXCEPT ![c].pc = "creating"]
           ELSE call' = [call EXCEPT ![c].pc = "lost"] /\ UNCHANGED file
    /\ UNCHANGED <<artifact, lapsed, receipts, process, chain, worker, faults, crashes>>

Accepted(d) == [digest |-> d, status |-> "PENDING", attempts |-> 0, retry |-> "none",
                failure |-> "none", retention |-> "NOT_RETAINED"]

\* The write ends: the PENDING record is durable before any artifact I/O.
CommitRecord(c) ==
    /\ Live
    /\ call[c].pc = "creating"
    /\ file' = [file EXCEPT ![call[c].export] = Accepted(call[c].digest)]
    /\ call' = [call EXCEPT ![c].pc = "delivering"]
    /\ Enqueue(call[c].export, "deliver", c)
    /\ UNCHANGED <<artifact, lapsed, receipts, process, worker, faults, crashes>>

\* The call fails before the write, part way through it, or once it is done (chmod).
FailCreate(c) ==
    /\ Live
    /\ call[c].pc \in {"absent", "creating"}
    /\ Fault
    /\ call' = [call EXCEPT ![c] = Idle]
    /\ \/ UNCHANGED file
       \/ /\ call[c].pc = "creating"
          /\ file' = [file EXCEPT ![call[c].export] = Accepted(call[c].digest)]
    /\ UNCHANGED <<artifact, lapsed, receipts, process, chain, worker, crashes>>

-----------------------------------------------------------------------------
(* The tasks of a chain. *)

Running(e) == Head(chain[e])
Runs(e, kinds, pc) ==
    /\ Live
    /\ chain[e] # <<>>
    /\ Running(e).kind \in kinds
    /\ Running(e).pc = pc

Step(e, pc) == chain' = [chain EXCEPT ![e][1].pc = pc]
StepFailing(e, code) ==
    chain' = [chain EXCEPT ![e][1].pc = "failing", ![e][1].code = code]

\* The running task ends; its caller gets the receipt, the worker its next item.
End(e) ==
    LET by == Running(e).by
    IN  /\ chain' = [chain EXCEPT ![e] = Tail(@)]
        /\ worker' = IF by = "worker" THEN [worker EXCEPT !.pc = "working"] ELSE worker
        /\ call' = IF by \in Calls THEN [call EXCEPT ![by] = Idle] ELSE call
        /\ receipts' = IF by \in Calls
                       THEN receipts \cup {<<e, call[by].digest>>} ELSE receipts

\* Reading or replacing the record fails: the task rejects, the call fails, the
\* worker waits before it scans again.  Errors of the artifact are caught.
TaskThrows(e) ==
    /\ Live
    /\ chain[e] # <<>>
    /\ Running(e).pc \in {"queued", "failing", "written"}
    /\ Fault
    /\ LET by == Running(e).by
       IN  /\ chain' = [chain EXCEPT ![e] = Tail(@)]
           /\ worker' = IF by = "worker" THEN [pc |-> "waiting", todo |-> {}] ELSE worker
           /\ call' = IF by \in Calls THEN [call EXCEPT ![by] = Idle] ELSE call
    /\ UNCHANGED <<disk, lapsed, receipts, process, crashes>>

\* Mutant: a started attempt does not look at the status again.
BugStartAnyStatus(record) == record.retry # "waiting"

\* prepareAttempt starts only a PENDING record whose retry time has come.
Startable(record) == record.status = "PENDING" /\ record.retry # "waiting"

Least(m, n) == IF m <= n THEN m ELSE n

PrepareAttempt(e) ==
    /\ Runs(e, {"deliver", "unavailable"}, "queued")
    /\ file[e] \in Records
    /\ IF Startable(file[e])
       THEN /\ file' = [file EXCEPT ![e].attempts = Least(@ + 1, MaxAttempts),
                                    ![e].retry = "none"]
            /\ IF Running(e).kind = "deliver" THEN Step(e, "attempting")
               ELSE StepFailing(e, "SOURCE_SUBMISSION_UNAVAILABLE")
            /\ UNCHANGED <<receipts, call, worker>>
       ELSE End(e) /\ UNCHANGED file
    /\ UNCHANGED <<artifact, lapsed, process, faults, crashes>>

\* The exclusive write of the artifact begins.
CreateArtifact(e) ==
    /\ Runs(e, {"deliver"}, "attempting")
    /\ artifact[e] = "absent"
    /\ artifact' = [artifact EXCEPT ![e] = "torn"]
    /\ Step(e, "writing")
    /\ UNCHANGED <<file, lapsed, receipts, process, call, worker, faults, crashes>>

\* An artifact is already there: equal bytes are adopted, others are removed.
CompareArtifact(e) ==
    /\ Runs(e, {"deliver"}, "attempting")
    /\ artifact[e] # "absent"
    /\ IF artifact[e] = "whole"
       THEN Step(e, "written") /\ UNCHANGED artifact
       ELSE /\ artifact' = [artifact EXCEPT ![e] = "absent"]
            /\ StepFailing(e, "ARTIFACT_INTEGRITY_CONFLICT")
    /\ UNCHANGED <<file, lapsed, receipts, process, call, worker, faults, crashes>>

WriteArtifact(e) ==
    /\ Runs(e, {"deliver"}, "writing")
    /\ artifact' = [artifact EXCEPT ![e] = "whole"]
    /\ Step(e, "written")
    /\ UNCHANGED <<file, lapsed, receipts, process, call, worker, faults, crashes>>

\* mkdir, the directory check, the write or chmod fails; what was written stays.
FailArtifact(e) ==
    /\ \/ Runs(e, {"deliver"}, "attempting")
       \/ Runs(e, {"deliver"}, "writing")
       \/ Runs(e, {"deliver"}, "written")
    /\ Fault
    /\ StepFailing(e, "ARTIFACT_IO_ERROR")
    /\ UNCHANGED <<disk, lapsed, receipts, process, call, worker, crashes>>

RecordDelivered(e) ==
    /\ Runs(e, {"deliver"}, "written")
    /\ file' = [file EXCEPT ![e].status = "DELIVERED", ![e].retry = "none",
                            ![e].retention = "RETAINED"]
    /\ End(e)
    /\ UNCHANGED <<artifact, lapsed, process, faults, crashes>>

\* failAttempt: no retry after an integrity conflict or the last attempt.
Exhausted(record, code) ==
    code = "ARTIFACT_INTEGRITY_CONFLICT" \/ record.attempts >= MaxAttempts

FailAttempt(e) ==
    /\ Runs(e, {"deliver", "unavailable"}, "failing")
    /\ LET code == Running(e).code
           exhausted == Exhausted(file[e], code)
       IN  file' = [file EXCEPT
                      ![e].status = IF exhausted THEN "FAILED" ELSE "PENDING",
                      ![e].failure = code,
                      ![e].retry = IF exhausted THEN "none" ELSE "waiting"]
    /\ End(e)
    /\ UNCHANGED <<artifact, lapsed, process, faults, crashes>>

\* Mutant: the artifact is removed before the record says so.
BugTombstoneLate(e) ==
    /\ Runs(e, {"expire"}, "queued")
    /\ file[e] \in Records
    /\ IF (file[e].status = "DELIVERED" /\ lapsed[e]) \/ file[e].retention = "PURGE_PENDING"
       THEN Step(e, "purging") /\ UNCHANGED <<file, receipts, call, worker>>
       ELSE End(e) /\ UNCHANGED file
    /\ UNCHANGED <<artifact, lapsed, process, faults, crashes>>

\* reconcileExpiry, first phase: access is denied and a tombstone kept.
ExpireArtifact(e) ==
    /\ Runs(e, {"expire"}, "queued")
    /\ file[e] \in Records
    /\ IF file[e].status = "DELIVERED" /\ lapsed[e]
       THEN /\ file' = [file EXCEPT ![e].status = "EXPIRED",
                                    ![e].retention = "PURGE_PENDING"]
            /\ Step(e, "purging")
            /\ UNCHANGED <<receipts, call, worker>>
       ELSE IF file[e].retention = "PURGE_PENDING"
       THEN Step(e, "purging") /\ UNCHANGED <<file, receipts, call, worker>>
       ELSE End(e) /\ UNCHANGED file
    /\ UNCHANGED <<artifact, lapsed, process, faults, crashes>>

\* Second phase: exactly the one artifact file is removed, ...
RemoveArtifact(e) ==
    /\ Runs(e, {"expire"}, "purging")
    /\ artifact' = [artifact EXCEPT ![e] = "absent"]
    /\ Step(e, "written")
    /\ UNCHANGED <<file, lapsed, receipts, process, call, worker, faults, crashes>>

\* Mutant: a failed removal counts as a removal.
BugRemovalFailureIgnored(e) ==
    /\ Runs(e, {"expire"}, "purging")
    /\ Fault
    /\ Step(e, "written")
    /\ UNCHANGED <<disk, lapsed, receipts, process, call, worker, crashes>>

\* ... a failed removal leaves PURGE_PENDING for a later reconciliation, ...
FailRemoval(e) ==
    /\ Runs(e, {"expire"}, "purging")
    /\ Fault
    /\ End(e)
    /\ UNCHANGED <<disk, lapsed, process, crashes>>

\* ... and the completion is recorded.
RecordPurged(e) ==
    /\ Runs(e, {"expire"}, "written")
    /\ file' = [file EXCEPT ![e].retention = "PURGED"]
    /\ End(e)
    /\ UNCHANGED <<artifact, lapsed, process, faults, crashes>>

-----------------------------------------------------------------------------
(* The worker and the readers. *)

\* Mutant: only records that were never attempted are listed.
BugListUntried == {e \in Exports : file[e] \in Records /\ file[e].attempts = 0}

\* listRecoverable skips records it cannot parse.
Recoverable == {e \in Exports : file[e].status = "PENDING"}

\* Mutant: only DELIVERED records are listed.
BugListDelivered == {e \in Exports : file[e].status = "DELIVERED"}

\* listExpirable: delivered artifacts, and removals left unfinished.
Expirable ==
    {e \in Exports : \/ file[e].status = "DELIVERED"
                     \/ file[e].status = "EXPIRED" /\ file[e].retention = "PURGE_PENDING"}

\* One round: the retries and the expiries whose time has come.
ScanExports ==
    /\ process = "ACTIVE"
    /\ worker.pc = "scanning"
    /\ worker' = [pc |-> "working",
                  todo |-> {<<"deliver", e>> :
                              e \in {x \in Recoverable : file[x].retry # "waiting"}}
                           \cup
                           {<<"expire", e>> :
                              e \in {x \in Expirable : \/ file[x].status = "EXPIRED"
                                                       \/ lapsed[x]}}]
    /\ UNCHANGED <<disk, lapsed, receipts, process, call, chain, faults, crashes>>

\* The next item of the round, deliveries first; the source of a delivery is
\* verified again, and its absence is recorded as an attempt.
WorkItem(e) ==
    /\ process = "ACTIVE"
    /\ worker.pc = "working"
    /\ \E item \in worker.todo :
         /\ item[2] = e
         /\ item[1] = "expire" => \A other \in worker.todo : other[1] = "expire"
         /\ worker' = [pc |-> "awaiting", todo |-> worker.todo \ {item}]
         /\ \/ Enqueue(e, item[1], "worker") /\ UNCHANGED faults
            \/ item[1] = "deliver" /\ Fault /\ Enqueue(e, "unavailable", "worker")
    /\ UNCHANGED <<disk, lapsed, receipts, process, call, crashes>>

\* The round is over: the worker waits for its timer or a wake-up.
EndRound ==
    /\ process = "ACTIVE"
    /\ worker.pc = "working"
    /\ worker.todo = {}
    /\ worker' = [pc |-> "waiting", todo |-> {}]
    /\ UNCHANGED <<disk, lapsed, receipts, process, call, chain, faults, crashes>>

\* Every wait ends: each has a timer of at most 30 seconds, and a new record
\* wakes the worker at once.
WakeWorker ==
    /\ process = "ACTIVE"
    /\ worker.pc = "waiting"
    /\ worker' = [worker EXCEPT !.pc = "scanning"]
    /\ UNCHANGED <<disk, lapsed, receipts, process, call, chain, faults, crashes>>

\* getExport reads a status that calls for a reconciliation.
ReadStatus(e) ==
    /\ process = "ACTIVE"
    /\ \/ file[e].status = "DELIVERED" /\ lapsed[e]
       \/ file[e].status = "EXPIRED" /\ file[e].retention = "PURGE_PENDING"
    /\ Cardinality({i \in DOMAIN chain[e] : chain[e][i].by = "reader"}) < MaxReads
    /\ Enqueue(e, "expire", "reader")
    /\ UNCHANGED <<disk, lapsed, receipts, process, call, worker, faults, crashes>>

-----------------------------------------------------------------------------
(* The clock and the process. *)

RetryFallsDue(e) ==
    /\ file[e] \in Records
    /\ file[e].retry = "waiting"
    /\ file' = [file EXCEPT ![e].retry = "due"]
    /\ UNCHANGED <<artifact, lapsed, receipts, process, call, chain, worker, faults, crashes>>

LifetimePasses(e) ==
    /\ file[e] \in Records
    /\ ~lapsed[e]
    /\ lapsed' = [lapsed EXCEPT ![e] = TRUE]
    /\ UNCHANGED <<disk, receipts, process, call, chain, worker, faults, crashes>>

Quiesce ==
    /\ process = "ACTIVE"
    /\ crashes < MaxCrashes
    /\ process' = "QUIESCING"
    /\ worker' = IF worker.pc = "awaiting" THEN worker ELSE [pc |-> "off", todo |-> {}]
    /\ UNCHANGED <<disk, lapsed, receipts, call, chain, faults, crashes>>

Gone ==
    /\ process' = "STOPPED"
    /\ crashes' = crashes + 1
    /\ call' = [c \in Calls |-> Idle]
    /\ chain' = [e \in Exports |-> <<>>]
    /\ worker' = [pc |-> "off", todo |-> {}]
    /\ UNCHANGED <<disk, lapsed, receipts, faults>>

\* The teardown joins the worker's current attempt, then the host exits.
Teardown ==
    /\ process = "QUIESCING"
    /\ worker.pc # "awaiting"
    /\ Gone

Crash ==
    /\ Live
    /\ crashes < MaxCrashes
    /\ Gone

Boot ==
    /\ process = "STOPPED"
    /\ process' = "ACTIVE"
    /\ worker' = [pc |-> "scanning", todo |-> {}]
    /\ UNCHANGED <<disk, lapsed, receipts, call, chain, faults, crashes>>

-----------------------------------------------------------------------------

CallStep(c) == ReadExisting(c) \/ CreateRecord(c) \/ CommitRecord(c)

TaskStep(e) ==
    \/ PrepareAttempt(e) \/ CreateArtifact(e) \/ CompareArtifact(e) \/ WriteArtifact(e)
    \/ RecordDelivered(e) \/ FailAttempt(e)
    \/ ExpireArtifact(e) \/ RemoveArtifact(e) \/ RecordPurged(e)

WorkerStep == ScanExports \/ EndRound \/ WakeWorker \/ \E e \in Exports : WorkItem(e)

Next ==
    \/ \E c \in Calls :
         \/ \E e \in Exports, d \in Digests : VerifyRequest(c, e, d)
         \/ CallStep(c) \/ FailCreate(c)
    \/ \E e \in Exports :
         \/ TaskStep(e) \/ TaskThrows(e) \/ FailArtifact(e) \/ FailRemoval(e)
         \/ ReadStatus(e) \/ RetryFallsDue(e) \/ LifetimePasses(e)
    \/ WorkerStep \/ Quiesce \/ Teardown \/ Crash \/ Boot

Spec == Init /\ [][Next]_vars

-----------------------------------------------------------------------------
(* Properties. *)

\* Every variable holds a value of its kind.
TypeOK ==
    /\ file \in [Exports -> Records \cup {Absent, Torn}]
    /\ artifact \in [Exports -> {"absent", "torn", "whole"}]
    /\ lapsed \in [Exports -> BOOLEAN]
    /\ receipts \subseteq Exports \X Digests
    /\ process \in {"ACTIVE", "QUIESCING", "STOPPED"}
    /\ call \in [Calls -> {Idle} \cup [pc: CallSteps \ {"idle"}, export: Exports,
                                       digest: Digests]]
    /\ chain \in [Exports -> Seq(Tasks)]
    /\ worker \in [pc: WorkerSteps, todo: SUBSET ({"deliver", "expire"} \X Exports)]
    /\ faults \in 0 .. MaxFaults
    /\ crashes \in 0 .. MaxCrashes

\* What an Export's record says of the file at its destination is so, through crashes,
\* torn writes, failed removals, retries and the tasks still in its chain: DELIVERED has
\* the whole artifact, PURGED has none, and no late delivery brings it back.
ArtifactFollowsRecord ==
    \A e \in Exports :
        /\ file[e].status = "DELIVERED" => artifact[e] = "whole"
        /\ file[e] \in Records /\ file[e].retention = "PURGED" => artifact[e] = "absent"

\* A receipt in a caller's hands is backed by a durable record of that request,
\* and two requests are never granted the same identity.
ReceiptsAreDurable ==
    \A receipt \in receipts :
        LET record == file[receipt[1]]
        IN  record \in Records /\ record.digest = receipt[2]

\* A record that was once readable stays so and keeps its request; a terminal
\* status is left only by the expiry of a delivered artifact, and a purge is final.
StatusMovesForward ==
    [][\A e \in Exports :
         file[e] \in Records =>
           /\ file'[e] \in Records
           /\ file'[e].digest = file[e].digest
           /\ file'[e].attempts >= file[e].attempts
           /\ file[e].status # "PENDING" /\ file'[e].status # file[e].status
                => file[e].status = "DELIVERED" /\ file'[e].status = "EXPIRED"
           /\ file[e].retention = "PURGED" => file'[e] = file[e]]_vars

-----------------------------------------------------------------------------
(* What an Export promises, and the states that stand for it. *)

Requested == [e \in Exports |-> IF file[e] \in Records THEN file[e].digest ELSE "none"]
Outcome == [e \in Exports |-> IF file[e] \notin Records THEN "NONE"
                              ELSE IF file[e].retention = "PURGED" THEN "PURGED"
                              ELSE file[e].status]
Available == [e \in Exports |-> artifact[e] = "whole"]

Promise == INSTANCE OfficialExport
             WITH request <- Requested, outcome <- Outcome, available <- Available,
                  told <- receipts

\* The deliveries, with their crashes, torn writes, retries and races, implement the
\* promise: a call that lost its race, a second worker round or a late reader never gives
\* an identity away twice, takes an artifact back before its lifetime is over, calls a
\* partial one delivered, or hands out the receipt of another request.
ImplementsPromise == Promise!Spec

-----------------------------------------------------------------------------
(* What the repository's text says and the code does not do. *)

\* Transient artifact failures are retried: an integrity conflict is recorded
\* only for bytes this module did not write, and here it writes all of them.
OwnBytesAreNoConflict ==
    \A e \in Exports :
        file[e] \in Records => file[e].failure # "ARTIFACT_INTEGRITY_CONFLICT"

-----------------------------------------------------------------------------
(* Liveness.  File operations and timers end, a stopped host is started again *)
(* and the clock advances.                                                    *)

Fairness ==
    /\ \A c \in Calls : WF_vars(CallStep(c))
    /\ \A e \in Exports : WF_vars(TaskStep(e)) /\ WF_vars(RetryFallsDue(e))
    /\ WF_vars(WorkerStep)
    /\ WF_vars(Teardown)
    /\ WF_vars(Boot)

FairSpec == Spec /\ Fairness

\* An accepted Export is delivered or given up, whatever crashes in between.
PendingEnds ==
    \A e \in Exports : file[e].status = "PENDING" ~> file[e].status # "PENDING"

\* An artifact whose lifetime has passed is removed, with no client connected.
LapsedIsPurged ==
    \A e \in Exports :
        file[e].status = "DELIVERED" /\ lapsed[e]
          ~> file[e] \in Records /\ file[e].retention = "PURGED"
=============================================================================
