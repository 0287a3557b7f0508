------------------------ MODULE ExportDeliveryProofs ------------------------
(***************************************************************************)
(* Proofs about ExportDelivery for every set of Exports, digests and calls *)
(* and every bound.                                                        *)
(***************************************************************************)
EXTENDS ExportDelivery, TLAPS

-----------------------------------------------------------------------------
(* The inductive invariant. *)

\* What a record says of its artifact, and of its own retry.
RecordSound(f, a) ==
    f \in Records =>
      /\ f.status \in {"PENDING", "FAILED"} => f.retention = "NOT_RETAINED"
      /\ f.status = "DELIVERED" => f.retention = "RETAINED" /\ a = "whole"
      /\ f.status = "EXPIRED" => f.retention \in {"PURGE_PENDING", "PURGED"}
      /\ f.retention = "PURGED" => a = "absent"
      /\ f.status # "PENDING" => f.retry = "none"

\* What a task that has begun knows: its record is the one it began with, and
\* the artifact is the one it wrote or removed.
TaskAgrees(t, f, a) ==
    \/ t.pc = "queued"
    \/ /\ t.kind = "deliver"
       /\ t.pc \in {"attempting", "writing", "written", "failing"}
       /\ f.status = "PENDING"
       /\ t.pc = "written" => a = "whole"
    \/ /\ t.kind = "unavailable"
       /\ t.pc = "failing"
       /\ f.status = "PENDING"
    \/ /\ t.kind = "expire"
       /\ t.pc \in {"purging", "written"}
       /\ f.status = "EXPIRED"
       /\ f.retention = "PURGE_PENDING"
       /\ t.pc = "written" => a = "absent"

\* Only the first task of a chain has begun, and a chain belongs to a record.
ChainSound(q, f, a) ==
    q # <<>> =>
      /\ f \in Records
      /\ TaskAgrees(q[1], f, a)
      /\ \A i \in 2 .. Len(q) : q[i].pc = "queued"

ExportsSound ==
    \A e \in Exports : /\ RecordSound(file[e], artifact[e])
                       /\ ChainSound(chain[e], file[e], artifact[e])

\* A task's caller waits for it, and has no other.
CallersWait ==
    \A e \in Exports : \A c \in Calls : \A i \in 1 .. Len(chain[e]) :
        chain[e][i].by = c =>
          /\ call[c].pc = "delivering"
          /\ call[c].export = e
          /\ \A j \in 1 .. Len(chain[e]) : chain[e][j].by = c => j = i

\* A call that waits for a delivery presented the digest of the record, and a
\* call that creates a record is alone with a file nobody can read yet.
CallsHold ==
    \A c \in Calls :
        /\ call[c].pc = "delivering" =>
             /\ file[call[c].export] \in Records
             /\ file[call[c].export].digest = call[c].digest
        /\ call[c].pc = "creating" =>
             /\ file[call[c].export] = Torn
             /\ \A d \in Calls :
                  call[d].pc = "creating" /\ call[d].export = call[c].export => d = c

\* The items of the worker's round have records.
ItemsHold == \A item \in worker.todo : file[item[2]] \in Records

\* A teardown that began will be counted.
TeardownCounted == process = "QUIESCING" => crashes < MaxCrashes

Inv ==
    /\ TypeOK
    /\ TeardownCounted
    /\ ExportsSound
    /\ CallersWait
    /\ CallsHold
    /\ ItemsHold
    /\ ReceiptsAreDurable

-----------------------------------------------------------------------------
(* What an operation does to the chain of its Export. *)

LEMMA TaskTyped ==
    ASSUME NEW kind \in TaskKinds, NEW by \in Clients
    PROVE  TaskBy(kind, by) \in Tasks
BY DEF TaskBy, Tasks

\* The last task of a chain is new, the others stay.
LEMMA Enqueued ==
    ASSUME TypeOK, NEW e \in Exports, NEW kind \in TaskKinds, NEW by \in Clients,
           Enqueue(e, kind, by)
    PROVE  /\ chain' \in [Exports -> Seq(Tasks)]
           /\ \A x \in Exports : x # e => chain'[x] = chain[x]
           /\ Len(chain'[e]) = Len(chain[e]) + 1
           /\ \A i \in 1 .. Len(chain[e]) : chain'[e][i] = chain[e][i]
           /\ chain'[e][Len(chain[e]) + 1] = TaskBy(kind, by)
<1>1. chain \in [Exports -> Seq(Tasks)] /\ chain[e] \in Seq(Tasks)
  BY DEF TypeOK
<1>2. TaskBy(kind, by) \in Tasks
  BY TaskTyped
<1>3. chain' = [chain EXCEPT ![e] = Append(chain[e], TaskBy(kind, by))]
  BY DEF Enqueue
<1>4. chain'[e] = Append(chain[e], TaskBy(kind, by))
  BY <1>1, <1>3
<1> QED
  BY <1>1, <1>2, <1>3, <1>4

\* The first task of a chain changes, the others stay.
LEMMA HeadSet ==
    ASSUME TypeOK, NEW e \in Exports, chain[e] # <<>>, NEW t \in Tasks,
           chain' = [chain EXCEPT ![e] = [chain[e] EXCEPT ![1] = t]]
    PROVE  /\ chain' \in [Exports -> Seq(Tasks)]
           /\ \A x \in Exports : x # e => chain'[x] = chain[x]
           /\ Len(chain'[e]) = Len(chain[e])
           /\ Len(chain[e]) >= 1
           /\ chain'[e][1] = t
           /\ \A i \in 2 .. Len(chain[e]) : chain'[e][i] = chain[e][i]
<1>1. chain \in [Exports -> Seq(Tasks)] /\ chain[e] \in Seq(Tasks)
  BY DEF TypeOK
<1>2. chain'[e] = [chain[e] EXCEPT ![1] = t]
  BY <1>1
<1>3. [chain[e] EXCEPT ![1] = t] \in Seq(Tasks)
  BY <1>1
<1>4. Len([chain[e] EXCEPT ![1] = t]) = Len(chain[e]) /\ Len(chain[e]) >= 1
  BY <1>1
<1> QED
  BY <1>1, <1>2, <1>3, <1>4

\* The first task of a chain is over, the others move up.
LEMMA HeadGone ==
    ASSUME TypeOK, NEW e \in Exports, chain[e] # <<>>,
           chain' = [chain EXCEPT ![e] = Tail(chain[e])]
    PROVE  /\ chain' \in [Exports -> Seq(Tasks)]
           /\ \A x \in Exports : x # e => chain'[x] = chain[x]
           /\ Len(chain[e]) = Len(chain'[e]) + 1
           /\ \A i \in 1 .. Len(chain'[e]) : chain'[e][i] = chain[e][i + 1]
<1>1. chain \in [Exports -> Seq(Tasks)] /\ chain[e] \in Seq(Tasks)
  BY DEF TypeOK
<1>2. chain'[e] = Tail(chain[e])
  BY <1>1
<1> QED
  BY <1>1, <1>2

LEMMA RunningTyped ==
    ASSUME TypeOK, NEW e \in Exports, chain[e] # <<>>
    PROVE  Running(e) = chain[e][1] /\ Running(e) \in Tasks
BY DEF TypeOK, Running

LEMMA StepTyped ==
    ASSUME TypeOK, NEW e \in Exports, chain[e] # <<>>,
           NEW pc \in {"queued", "attempting", "writing", "written", "failing", "purging"},
           Step(e, pc)
    PROVE  /\ [chain[e][1] EXCEPT !.pc = pc] \in Tasks
           /\ chain' = [chain EXCEPT ![e] = [chain[e] EXCEPT
                                               ![1] = [chain[e][1] EXCEPT !.pc = pc]]]
<1>1. chain[e][1] \in Tasks
  BY RunningTyped
<1> QED
  BY <1>1 DEF Step, Tasks

LEMMA StepFailingTyped ==
    ASSUME TypeOK, NEW e \in Exports, chain[e] # <<>>,
           NEW code \in {"SOURCE_SUBMISSION_UNAVAILABLE", "ARTIFACT_IO_ERROR",
                         "ARTIFACT_INTEGRITY_CONFLICT"},
           StepFailing(e, code)
    PROVE  /\ [chain[e][1] EXCEPT !.pc = "failing", !.code = code] \in Tasks
           /\ chain' = [chain EXCEPT ![e] = [chain[e] EXCEPT
                  ![1] = [chain[e][1] EXCEPT !.pc = "failing", !.code = code]]]
<1>1. chain[e][1] \in Tasks
  BY RunningTyped
<1>2. chain \in [Exports -> Seq(Tasks)] /\ chain[e] \in Seq(Tasks) /\ 1 \in DOMAIN chain[e]
  BY DEF TypeOK
<1> QED
  BY <1>1, <1>2 DEF StepFailing, Tasks

\* What a step of the running task does to the chains.
LEMMA Stepped ==
    ASSUME TypeOK, NEW e \in Exports, chain[e] # <<>>,
           NEW pc \in {"queued", "attempting", "writing", "written", "failing", "purging"},
           Step(e, pc)
    PROVE  /\ chain' \in [Exports -> Seq(Tasks)]
           /\ \A x \in Exports : x # e => chain'[x] = chain[x]
           /\ Len(chain'[e]) = Len(chain[e])
           /\ Len(chain[e]) >= 1
           /\ chain'[e][1] = [chain[e][1] EXCEPT !.pc = pc]
           /\ \A i \in 2 .. Len(chain[e]) : chain'[e][i] = chain[e][i]
<1> DEFINE t == [chain[e][1] EXCEPT !.pc = pc]
<1>2. t \in Tasks /\ chain' = [chain EXCEPT ![e] = [chain[e] EXCEPT ![1] = t]]
  BY StepTyped
<1> HIDE DEF t
<1>3. /\ chain' \in [Exports -> Seq(Tasks)]
      /\ \A x \in Exports : x # e => chain'[x] = chain[x]
      /\ Len(chain'[e]) = Len(chain[e])
      /\ Len(chain[e]) >= 1
      /\ chain'[e][1] = t
      /\ \A i \in 2 .. Len(chain[e]) : chain'[e][i] = chain[e][i]
  BY <1>2, HeadSet
<1> QED
  BY <1>3 DEF t

LEMMA SteppedFailing ==
    ASSUME TypeOK, NEW e \in Exports, chain[e] # <<>>,
           NEW code \in {"SOURCE_SUBMISSION_UNAVAILABLE", "ARTIFACT_IO_ERROR",
                         "ARTIFACT_INTEGRITY_CONFLICT"},
           StepFailing(e, code)
    PROVE  /\ chain' \in [Exports -> Seq(Tasks)]
           /\ \A x \in Exports : x # e => chain'[x] = chain[x]
           /\ Len(chain'[e]) = Len(chain[e])
           /\ Len(chain[e]) >= 1
           /\ chain'[e][1] = [chain[e][1] EXCEPT !.pc = "failing", !.code = code]
           /\ \A i \in 2 .. Len(chain[e]) : chain'[e][i] = chain[e][i]
<1> DEFINE t == [chain[e][1] EXCEPT !.pc = "failing", !.code = code]
<1>2. t \in Tasks /\ chain' = [chain EXCEPT ![e] = [chain[e] EXCEPT ![1] = t]]
  BY StepFailingTyped
<1> HIDE DEF t
<1>3. /\ chain' \in [Exports -> Seq(Tasks)]
      /\ \A x \in Exports : x # e => chain'[x] = chain[x]
      /\ Len(chain'[e]) = Len(chain[e])
      /\ Len(chain[e]) >= 1
      /\ chain'[e][1] = t
      /\ \A i \in 2 .. Len(chain[e]) : chain'[e][i] = chain[e][i]
  BY <1>2, HeadSet
<1> QED
  BY <1>3 DEF t

-----------------------------------------------------------------------------
(* Type correctness. *)

LEMMA InitTyped == Init => TypeOK
BY ExportBounds DEF Init, TypeOK, Idle, WorkerSteps

\* A call that is under way has an Export and a digest.
LEMMA CallTyped ==
    ASSUME TypeOK, NEW c \in Calls, call[c] # Idle
    PROVE  /\ call[c] \in [pc: CallSteps \ {"idle"}, export: Exports, digest: Digests]
           /\ call[c].export \in Exports
           /\ call[c].digest \in Digests
           /\ \A pc \in CallSteps \ {"idle"} :
                [call EXCEPT ![c].pc = pc] \in
                  [Calls -> {Idle} \cup [pc: CallSteps \ {"idle"}, export: Exports,
                                         digest: Digests]]
<1>1. call[c] \in [pc: CallSteps \ {"idle"}, export: Exports, digest: Digests]
  BY DEF TypeOK
<1>2. ASSUME NEW pc \in CallSteps \ {"idle"}
      PROVE  [call[c] EXCEPT !.pc = pc] \in
               [pc: CallSteps \ {"idle"}, export: Exports, digest: Digests]
  BY <1>1, <1>2
<1> QED
  BY <1>1, <1>2 DEF TypeOK

LEMMA NotIdle ==
    ASSUME NEW c \in Calls, call[c].pc # "idle"
    PROVE  call[c] # Idle
BY DEF Idle

LEMMA FaultTyped ==
    ASSUME TypeOK, Fault
    PROVE  faults' \in 0 .. MaxFaults
BY ExportBounds DEF TypeOK, Fault

\* The caller of a task that ends is free again, with a receipt or without.
LEMMA CallerTyped ==
    ASSUME TypeOK, NEW by \in Clients,
           call' = IF by \in Calls THEN [call EXCEPT ![by] = Idle] ELSE call
    PROVE  call' \in [Calls -> {Idle} \cup [pc: CallSteps \ {"idle"}, export: Exports,
                                            digest: Digests]]
BY DEF TypeOK

LEMMA EndTyped ==
    ASSUME TypeOK, NEW e \in Exports, chain[e] # <<>>, End(e),
           \A c \in Calls : Running(e).by = c => call[c] # Idle
    PROVE  /\ chain' \in [Exports -> Seq(Tasks)]
           /\ call' \in [Calls -> {Idle} \cup [pc: CallSteps \ {"idle"}, export: Exports,
                                               digest: Digests]]
           /\ worker' \in [pc: WorkerSteps, todo: SUBSET ({"deliver", "expire"} \X Exports)]
           /\ receipts' \subseteq Exports \X Digests
<1> DEFINE by == Running(e).by
<1>1. by \in Clients
  BY RunningTyped DEF Tasks
<1>2. /\ chain' = [chain EXCEPT ![e] = Tail(chain[e])]
      /\ worker' = IF by = "worker" THEN [worker EXCEPT !.pc = "working"] ELSE worker
      /\ call' = IF by \in Calls THEN [call EXCEPT ![by] = Idle] ELSE call
      /\ receipts' = IF by \in Calls
                     THEN receipts \cup {<<e, call[by].digest>>} ELSE receipts
  BY DEF End
<1>3. chain' \in [Exports -> Seq(Tasks)]
  BY <1>2, HeadGone
<1>4. call' \in [Calls -> {Idle} \cup [pc: CallSteps \ {"idle"}, export: Exports,
                                       digest: Digests]]
  BY <1>1, <1>2, CallerTyped
<1>5. worker' \in [pc: WorkerSteps, todo: SUBSET ({"deliver", "expire"} \X Exports)]
  BY <1>2 DEF TypeOK, WorkerSteps
<1>6. receipts' \subseteq Exports \X Digests
  <2>1. CASE by \in Calls
    <3>1. call[by].digest \in Digests
      BY <2>1, CallTyped
    <3> QED
      BY <1>2, <2>1, <3>1 DEF TypeOK
  <2>2. CASE by \notin Calls
    BY <1>2, <2>2 DEF TypeOK
  <2> QED
    BY <2>1, <2>2
<1> QED
  BY <1>3, <1>4, <1>5, <1>6

LEMMA AcceptedTyped ==
    ASSUME NEW d \in Digests
    PROVE  Accepted(d) \in Records
BY AttemptsAssumption DEF Accepted, Records

LEMMA UnreadableTyped == Absent \notin Records /\ Torn \notin Records /\ Absent # Torn
<1>1. \A f \in Records : f.status # "absent" /\ f.status # "torn"
  BY DEF Records
<1>2. Absent.status = "absent" /\ Torn.status = "torn"
  BY DEF Absent, Torn
<1> QED
  BY <1>1, <1>2

\* What the actions write to a record is a record.
LEMMA WriteTyped ==
    ASSUME TypeOK, NEW e \in Exports, NEW f \in Records \cup {Absent, Torn},
           file' = [file EXCEPT ![e] = f]
    PROVE  /\ file' \in [Exports -> Records \cup {Absent, Torn}]
           /\ file'[e] = f
           /\ \A x \in Exports : x # e => file'[x] = file[x]
BY DEF TypeOK

LEMMA PreparedTyped ==
    ASSUME NEW f \in Records
    PROVE  [f EXCEPT !.attempts = Least(f.attempts + 1, MaxAttempts), !.retry = "none"]
             \in Records
<1>1. f.attempts \in 0 .. MaxAttempts
  BY DEF Records
<1>2. Least(f.attempts + 1, MaxAttempts) \in 0 .. MaxAttempts
  BY <1>1, AttemptsAssumption DEF Least
<1> QED
  BY <1>2 DEF Records

LEMMA DeliveredTyped ==
    ASSUME NEW f \in Records
    PROVE  [f EXCEPT !.status = "DELIVERED", !.retry = "none", !.retention = "RETAINED"]
             \in Records
BY DEF Records

LEMMA FailedTyped ==
    ASSUME NEW f \in Records,
           NEW status \in {"FAILED", "PENDING"}, NEW retry \in {"none", "waiting"},
           NEW code \in {"none", "SOURCE_SUBMISSION_UNAVAILABLE", "ARTIFACT_IO_ERROR",
                         "ARTIFACT_INTEGRITY_CONFLICT"}
    PROVE  [f EXCEPT !.status = status, !.failure = code, !.retry = retry] \in Records
BY DEF Records

LEMMA ExpiredTyped ==
    ASSUME NEW f \in Records
    PROVE  /\ [f EXCEPT !.status = "EXPIRED", !.retention = "PURGE_PENDING"] \in Records
           /\ [f EXCEPT !.retention = "PURGED"] \in Records
           /\ [f EXCEPT !.retry = "due"] \in Records
BY DEF Records

\* The caller of the running task waits for it.
LEMMA CallerIsBusy ==
    ASSUME TypeOK, CallersWait, NEW e \in Exports, chain[e] # <<>>
    PROVE  \A c \in Calls : Running(e).by = c =>
             /\ call[c].pc = "delivering"
             /\ call[c].export = e
             /\ call[c] # Idle
<1>1. chain[e] \in Seq(Tasks) /\ 1 \in 1 .. Len(chain[e]) /\ Running(e) = chain[e][1]
  BY DEF TypeOK, Running
<1> QED
  BY <1>1, NotIdle DEF CallersWait

LEMMA HeadIsRecord ==
    ASSUME TypeOK, ExportsSound, NEW e \in Exports, chain[e] # <<>>
    PROVE  /\ file[e] \in Records
           /\ Running(e) = chain[e][1]
           /\ TaskAgrees(Running(e), file[e], artifact[e])
BY DEF ExportsSound, ChainSound, Running

\* A task that ends leaves every variable typed when the record it wrote is.
LEMMA EndKeepsType ==
    ASSUME TypeOK, CallersWait, NEW e \in Exports, chain[e] # <<>>, End(e),
           file' \in [Exports -> Records \cup {Absent, Torn}],
           faults' \in 0 .. MaxFaults,
           UNCHANGED <<artifact, lapsed, process, crashes>>
    PROVE  TypeOK'
<1>1. \A c \in Calls : Running(e).by = c => call[c] # Idle
  BY CallerIsBusy
<1>2. /\ chain' \in [Exports -> Seq(Tasks)]
      /\ call' \in [Calls -> {Idle} \cup [pc: CallSteps \ {"idle"}, export: Exports,
                                          digest: Digests]]
      /\ worker' \in [pc: WorkerSteps, todo: SUBSET ({"deliver", "expire"} \X Exports)]
      /\ receipts' \subseteq Exports \X Digests
  BY <1>1, EndTyped
<1>3. /\ artifact' \in [Exports -> {"absent", "torn", "whole"}]
      /\ lapsed' \in [Exports -> BOOLEAN]
      /\ process' \in {"ACTIVE", "QUIESCING", "STOPPED"}
      /\ crashes' \in 0 .. MaxCrashes
  BY DEF TypeOK
<1> QED
  BY <1>2, <1>3, Zenon DEF TypeOK

\* A record's file that is written, or left alone, holds what a file may hold.
LEMMA FileTyped ==
    ASSUME TypeOK, NEW e \in Exports, NEW f \in Records,
           file' = [file EXCEPT ![e] = f] \/ file' = file
    PROVE  file' \in [Exports -> Records \cup {Absent, Torn}]
BY DEF TypeOK

LEMMA TypeKept ==
    ASSUME TypeOK, ExportsSound, CallersWait, TeardownCounted, [Next]_vars
    PROVE  TypeOK'
<1> USE DEF disk
<1>1. ASSUME NEW c \in Calls, NEW e \in Exports, NEW d \in Digests, VerifyRequest(c, e, d)
      PROVE  TypeOK'
  BY <1>1 DEF VerifyRequest, TypeOK, CallSteps
<1>2. ASSUME NEW c \in Calls, ReadExisting(c)
      PROVE  TypeOK'
  <2>1. call[c] # Idle
    BY <1>2, NotIdle DEF ReadExisting
  <2>2. ASSUME NEW pc \in CallSteps \ {"idle"}, call' = [call EXCEPT ![c].pc = pc]
        PROVE  call' \in [Calls -> {Idle} \cup [pc: CallSteps \ {"idle"}, export: Exports,
                                                digest: Digests]]
    BY <2>1, <2>2, CallTyped
  <2>3. ASSUME Enqueue(call[c].export, "deliver", c)
        PROVE  chain' \in [Exports -> Seq(Tasks)]
    BY <2>1, <2>3, CallTyped, Enqueued DEF TaskKinds, Clients
  <2>4. /\ call' \in [Calls -> {Idle} \cup [pc: CallSteps \ {"idle"}, export: Exports,
                                            digest: Digests]]
        /\ chain' \in [Exports -> Seq(Tasks)]
    BY <1>2, <2>2, <2>3 DEF ReadExisting, Replay, TypeOK, CallSteps
  <2> QED
    BY <1>2, <2>4 DEF ReadExisting, TypeOK
<1>3. ASSUME NEW c \in Calls, CreateRecord(c)
      PROVE  TypeOK'
  <2>1. call[c] # Idle
    BY <1>3, NotIdle DEF CreateRecord
  <2>2. /\ call' \in [Calls -> {Idle} \cup [pc: CallSteps \ {"idle"}, export: Exports,
                                            digest: Digests]]
        /\ file' \in [Exports -> Records \cup {Absent, Torn}]
    <3>1. file' = [file EXCEPT ![call[c].export] = Torn] \/ file' = file
      BY <1>3 DEF CreateRecord
    <3>2. \E pc \in CallSteps \ {"idle"} : call' = [call EXCEPT ![c].pc = pc]
      BY <1>3 DEF CreateRecord, CallSteps
    <3> QED
      <4>1. call' \in [Calls -> {Idle} \cup [pc: CallSteps \ {"idle"}, export: Exports,
                                             digest: Digests]]
        BY <2>1, <3>2, CallTyped
      <4>2. file' \in [Exports -> Records \cup {Absent, Torn}]
        BY <3>1 DEF TypeOK
      <4> QED
        BY <4>1, <4>2
  <2> QED
    BY <1>3, <2>2 DEF CreateRecord, TypeOK
<1>4. ASSUME NEW c \in Calls, CommitRecord(c)
      PROVE  TypeOK'
  <2>1. call[c] # Idle
    BY <1>4, NotIdle DEF CommitRecord
  <2>2. /\ call' \in [Calls -> {Idle} \cup [pc: CallSteps \ {"idle"}, export: Exports,
                                            digest: Digests]]
        /\ file' \in [Exports -> Records \cup {Absent, Torn}]
    BY <1>4, <2>1, CallTyped, AcceptedTyped DEF CommitRecord, CallSteps, TypeOK
  <2>3. chain' \in [Exports -> Seq(Tasks)]
    BY <1>4, <2>1, CallTyped, Enqueued DEF CommitRecord, TaskKinds, Clients
  <2> QED
    BY <1>4, <2>2, <2>3 DEF CommitRecord, TypeOK
<1>5. ASSUME NEW c \in Calls, FailCreate(c)
      PROVE  TypeOK'
  <2>1. call[c] # Idle
    BY <1>5, NotIdle DEF FailCreate
  <2>2. /\ call' \in [Calls -> {Idle} \cup [pc: CallSteps \ {"idle"}, export: Exports,
                                            digest: Digests]]
        /\ file' \in [Exports -> Records \cup {Absent, Torn}]
    <3>1. \/ file' = file
          \/ file' = [file EXCEPT ![call[c].export] = Accepted(call[c].digest)]
      BY <1>5 DEF FailCreate
    <3>2. Accepted(call[c].digest) \in Records /\ call[c].export \in Exports
      BY <2>1, CallTyped, AcceptedTyped
    <3>3. call' = [call EXCEPT ![c] = Idle]
      BY <1>5 DEF FailCreate
    <3> QED
      <4>1. call' \in [Calls -> {Idle} \cup [pc: CallSteps \ {"idle"}, export: Exports,
                                             digest: Digests]]
        BY <3>3 DEF TypeOK
      <4>2. file' \in [Exports -> Records \cup {Absent, Torn}]
        BY <3>1, <3>2, FileTyped
      <4> QED
        BY <4>1, <4>2
  <2>3. /\ Fault
        /\ UNCHANGED <<artifact, lapsed, receipts, process, chain, worker, crashes>>
    BY <1>5 DEF FailCreate
  <2>4. faults' \in 0 .. MaxFaults
    BY <2>3, FaultTyped
  <2> QED
    BY <2>2, <2>3, <2>4 DEF TypeOK
<1>6. ASSUME NEW e \in Exports, PrepareAttempt(e)
      PROVE  TypeOK'
  <2>1. chain[e] # <<>> /\ file[e] \in Records
    BY <1>6 DEF PrepareAttempt, Runs
  <2>2. CASE Startable(file[e])
    <3>1. file' \in [Exports -> Records \cup {Absent, Torn}]
      <4>1. file' = [file EXCEPT ![e] = [file[e] EXCEPT
                        !.attempts = Least(file[e].attempts + 1, MaxAttempts),
                        !.retry = "none"]]
        BY <1>6, <2>1, <2>2 DEF PrepareAttempt, TypeOK
      <4> QED
        BY <2>1, <4>1, PreparedTyped DEF TypeOK
    <3>2. chain' \in [Exports -> Seq(Tasks)]
      <4>1. Step(e, "attempting") \/ StepFailing(e, "SOURCE_SUBMISSION_UNAVAILABLE")
        BY <1>6, <2>2 DEF PrepareAttempt
      <4> QED
        BY <2>1, <4>1, Stepped, SteppedFailing
    <3> QED
      BY <1>6, <2>2, <3>1, <3>2 DEF PrepareAttempt, TypeOK
  <2>3. CASE ~Startable(file[e])
    <3>1. End(e) /\ UNCHANGED file
      BY <1>6, <2>3 DEF PrepareAttempt
    <3>2. UNCHANGED <<artifact, lapsed, process, faults, crashes>>
      BY <1>6 DEF PrepareAttempt
    <3>3. file' \in [Exports -> Records \cup {Absent, Torn}] /\ faults' \in 0 .. MaxFaults
      BY <3>1, <3>2 DEF TypeOK
    <3> QED
      BY <2>1, <3>1, <3>2, <3>3, EndKeepsType
  <2> QED
    BY <2>2, <2>3
<1>7. ASSUME NEW e \in Exports, CreateArtifact(e)
      PROVE  TypeOK'
  <2>1. chain' \in [Exports -> Seq(Tasks)]
    BY <1>7, Stepped DEF CreateArtifact, Runs
  <2> QED
    BY <1>7, <2>1 DEF CreateArtifact, TypeOK
<1>8. ASSUME NEW e \in Exports, CompareArtifact(e)
      PROVE  TypeOK'
  <2>1. chain' \in [Exports -> Seq(Tasks)]
    <3>1. chain[e] # <<>>
      BY <1>8 DEF CompareArtifact, Runs
    <3>2. Step(e, "written") \/ StepFailing(e, "ARTIFACT_INTEGRITY_CONFLICT")
      BY <1>8 DEF CompareArtifact
    <3> QED
      BY <3>1, <3>2, Stepped, SteppedFailing
  <2> QED
    BY <1>8, <2>1 DEF CompareArtifact, TypeOK
<1>9. ASSUME NEW e \in Exports, WriteArtifact(e)
      PROVE  TypeOK'
  <2>1. chain' \in [Exports -> Seq(Tasks)]
    BY <1>9, Stepped DEF WriteArtifact, Runs
  <2> QED
    BY <1>9, <2>1 DEF WriteArtifact, TypeOK
<1>10. ASSUME NEW e \in Exports, FailArtifact(e)
       PROVE  TypeOK'
  <2>1. chain' \in [Exports -> Seq(Tasks)]
    BY <1>10, SteppedFailing DEF FailArtifact, Runs
  <2> QED
    BY <1>10, <2>1, FaultTyped DEF FailArtifact, TypeOK
<1>11. ASSUME NEW e \in Exports, RecordDelivered(e)
       PROVE  TypeOK'
  <2>1. chain[e] # <<>> /\ file[e] \in Records
    BY <1>11, HeadIsRecord DEF RecordDelivered, Runs
  <2> DEFINE f == [file[e] EXCEPT !.status = "DELIVERED", !.retry = "none",
                                  !.retention = "RETAINED"]
  <2>2. file' = [file EXCEPT ![e] = f]
    BY <1>11 DEF RecordDelivered, TypeOK
  <2>3. f \in Records
    BY <2>1, DeliveredTyped
  <2>4. End(e) /\ UNCHANGED <<artifact, lapsed, process, faults, crashes>>
    BY <1>11 DEF RecordDelivered
  <2> HIDE DEF f
  <2>5. file' \in [Exports -> Records \cup {Absent, Torn}]
    BY <2>2, <2>3, FileTyped
  <2>6. faults' \in 0 .. MaxFaults
    BY <2>4 DEF TypeOK
  <2> QED
    BY <2>1, <2>4, <2>5, <2>6, EndKeepsType
<1>12. ASSUME NEW e \in Exports, FailAttempt(e)
       PROVE  TypeOK'
  <2>1. chain[e] # <<>> /\ file[e] \in Records
    BY <1>12, HeadIsRecord DEF FailAttempt, Runs
  <2>2. Running(e).code \in {"none", "SOURCE_SUBMISSION_UNAVAILABLE", "ARTIFACT_IO_ERROR",
                             "ARTIFACT_INTEGRITY_CONFLICT"}
    BY <2>1, RunningTyped DEF Tasks
  <2> DEFINE code == Running(e).code
             exhausted == Exhausted(file[e], code)
             status == IF exhausted THEN "FAILED" ELSE "PENDING"
             retry == IF exhausted THEN "none" ELSE "waiting"
             f == [file[e] EXCEPT !.status = status, !.failure = code, !.retry = retry]
  <2>3. f \in Records
    <3>1. status \in {"FAILED", "PENDING"} /\ retry \in {"none", "waiting"}
      OBVIOUS
    <3> HIDE DEF status, retry, code
    <3>2. code \in {"none", "SOURCE_SUBMISSION_UNAVAILABLE", "ARTIFACT_IO_ERROR",
                    "ARTIFACT_INTEGRITY_CONFLICT"}
      BY <2>2 DEF code
    <3> QED
      BY <2>1, <3>1, <3>2, FailedTyped
  <2>4. file' = [file EXCEPT ![e] = f]
    BY <1>12 DEF FailAttempt, TypeOK
  <2>5. End(e) /\ UNCHANGED <<artifact, lapsed, process, faults, crashes>>
    BY <1>12 DEF FailAttempt
  <2> HIDE DEF f
  <2>6. file' \in [Exports -> Records \cup {Absent, Torn}]
    BY <2>3, <2>4, FileTyped
  <2>7. faults' \in 0 .. MaxFaults
    BY <2>5 DEF TypeOK
  <2> QED
    BY <2>1, <2>5, <2>6, <2>7, EndKeepsType
<1>13. ASSUME NEW e \in Exports, ExpireArtifact(e)
       PROVE  TypeOK'
  <2>1. chain[e] # <<>> /\ file[e] \in Records
    BY <1>13 DEF ExpireArtifact, Runs
  <2>2. CASE UNCHANGED <<receipts, call, worker>> /\ Step(e, "purging")
    <3>1. chain' \in [Exports -> Seq(Tasks)]
      BY <2>1, <2>2, Stepped
    <3> DEFINE f == [file[e] EXCEPT !.status = "EXPIRED", !.retention = "PURGE_PENDING"]
    <3>2. file' \in [Exports -> Records \cup {Absent, Torn}]
      <4>1. file' = [file EXCEPT ![e] = f] \/ file' = file
        BY <1>13 DEF ExpireArtifact, TypeOK
      <4>2. f \in Records
        BY <2>1, ExpiredTyped
      <4> HIDE DEF f
      <4> QED
        BY <4>1, <4>2, FileTyped
    <3> QED
      BY <1>13, <2>2, <3>1, <3>2 DEF ExpireArtifact, TypeOK
  <2>3. CASE End(e) /\ UNCHANGED file
    <3>1. UNCHANGED <<artifact, lapsed, process, faults, crashes>>
      BY <1>13 DEF ExpireArtifact
    <3>2. file' \in [Exports -> Records \cup {Absent, Torn}] /\ faults' \in 0 .. MaxFaults
      BY <2>3, <3>1 DEF TypeOK
    <3> QED
      BY <2>1, <2>3, <3>1, <3>2, EndKeepsType
  <2> QED
    BY <1>13, <2>2, <2>3 DEF ExpireArtifact
<1>14. ASSUME NEW e \in Exports, RemoveArtifact(e)
       PROVE  TypeOK'
  <2>1. chain' \in [Exports -> Seq(Tasks)]
    BY <1>14, Stepped DEF RemoveArtifact, Runs
  <2> QED
    BY <1>14, <2>1 DEF RemoveArtifact, TypeOK
<1>15. ASSUME NEW e \in Exports, FailRemoval(e)
       PROVE  TypeOK'
  <2>1. chain[e] # <<>> /\ End(e) /\ Fault
    BY <1>15 DEF FailRemoval, Runs
  <2>2. faults' \in 0 .. MaxFaults
    BY <2>1, FaultTyped
  <2>3. UNCHANGED <<file, artifact, lapsed, process, crashes>>
    BY <1>15 DEF FailRemoval
  <2>4. file' \in [Exports -> Records \cup {Absent, Torn}]
    BY <2>3 DEF TypeOK
  <2> QED
    BY <2>1, <2>2, <2>3, <2>4, EndKeepsType
<1>16. ASSUME NEW e \in Exports, RecordPurged(e)
       PROVE  TypeOK'
  <2>1. chain[e] # <<>> /\ file[e] \in Records
    BY <1>16, HeadIsRecord DEF RecordPurged, Runs
  <2> DEFINE f == [file[e] EXCEPT !.retention = "PURGED"]
  <2>2. file' = [file EXCEPT ![e] = f]
    BY <1>16 DEF RecordPurged, TypeOK
  <2>3. f \in Records
    BY <2>1, ExpiredTyped
  <2>4. End(e) /\ UNCHANGED <<artifact, lapsed, process, faults, crashes>>
    BY <1>16 DEF RecordPurged
  <2> HIDE DEF f
  <2>5. file' \in [Exports -> Records \cup {Absent, Torn}]
    BY <2>2, <2>3, FileTyped
  <2>6. faults' \in 0 .. MaxFaults
    BY <2>4 DEF TypeOK
  <2> QED
    BY <2>1, <2>4, <2>5, <2>6, EndKeepsType
<1>17. ASSUME NEW e \in Exports, TaskThrows(e)
       PROVE  TypeOK'
  <2>1. Running(e).by \in Clients
    BY <1>17, RunningTyped DEF TaskThrows, Tasks
  <2>2. call' \in [Calls -> {Idle} \cup [pc: CallSteps \ {"idle"}, export: Exports,
                                         digest: Digests]]
    BY <1>17, <2>1, CallerTyped DEF TaskThrows
  <2>3. chain' \in [Exports -> Seq(Tasks)]
    BY <1>17, HeadGone DEF TaskThrows
  <2> QED
    BY <1>17, <2>2, <2>3, FaultTyped DEF TaskThrows, TypeOK, WorkerSteps
<1>18. ASSUME NEW e \in Exports, ReadStatus(e)
       PROVE  TypeOK'
  <2>1. chain' \in [Exports -> Seq(Tasks)]
    BY <1>18, Enqueued DEF ReadStatus, TaskKinds, Clients
  <2> QED
    BY <1>18, <2>1 DEF ReadStatus, TypeOK
<1>19. ASSUME NEW e \in Exports, RetryFallsDue(e)
       PROVE  TypeOK'
  BY <1>19, ExpiredTyped DEF RetryFallsDue, TypeOK
<1>20. ASSUME NEW e \in Exports, LifetimePasses(e)
       PROVE  TypeOK'
  BY <1>20 DEF LifetimePasses, TypeOK
<1>21. CASE ScanExports
  BY <1>21 DEF ScanExports, TypeOK, WorkerSteps, Recoverable, Expirable
<1>22. CASE EndRound \/ WakeWorker
  BY <1>22 DEF EndRound, WakeWorker, TypeOK, WorkerSteps
<1>23. ASSUME NEW e \in Exports, WorkItem(e)
       PROVE  TypeOK'
  <2>1. PICK item \in worker.todo :
          /\ worker' = [pc |-> "awaiting", todo |-> worker.todo \ {item}]
          /\ \/ Enqueue(e, item[1], "worker") /\ UNCHANGED faults
             \/ item[1] = "deliver" /\ Fault /\ Enqueue(e, "unavailable", "worker")
    BY <1>23 DEF WorkItem
  <2>2. item[1] \in TaskKinds /\ worker' \in [pc: WorkerSteps,
                                             todo: SUBSET ({"deliver", "expire"} \X Exports)]
    BY <2>1 DEF TypeOK, TaskKinds, WorkerSteps
  <2>3. chain' \in [Exports -> Seq(Tasks)]
    BY <2>1, <2>2, Enqueued DEF TaskKinds, Clients
  <2>4. faults' \in 0 .. MaxFaults
    BY <2>1, FaultTyped DEF TypeOK
  <2> QED
    BY <1>23, <2>2, <2>3, <2>4 DEF WorkItem, TypeOK
<1>24. CASE Quiesce \/ Boot
  BY <1>24 DEF Quiesce, Boot, TypeOK, WorkerSteps
<1>25. CASE Teardown \/ Crash
  <2>1. Gone
    BY <1>25 DEF Teardown, Crash
  <2>2. crashes < MaxCrashes
    BY <1>25 DEF Teardown, Crash, TeardownCounted
  <2> QED
    BY <2>1, <2>2, ExportBounds DEF Gone, TypeOK, WorkerSteps
<1>26. CASE UNCHANGED vars
  BY <1>26 DEF vars, TypeOK
<1> QED
  BY <1>1, <1>2, <1>3, <1>4, <1>5, <1>6, <1>7, <1>8, <1>9, <1>10, <1>11, <1>12, <1>13, <1>14,
     <1>15, <1>16, <1>17, <1>18, <1>19, <1>20, <1>21, <1>22, <1>23, <1>24, <1>25, <1>26
  DEF Next, CallStep, TaskStep, WorkerStep

-----------------------------------------------------------------------------
(* Records, artifacts and tasks. *)

\* An operation on one Export is sound when it is sound for that Export.
LEMMA OneExport ==
    ASSUME ExportsSound, NEW e \in Exports,
           \A x \in Exports : x # e => /\ file'[x] = file[x]
                                      /\ artifact'[x] = artifact[x]
                                      /\ chain'[x] = chain[x],
           RecordSound(file'[e], artifact'[e]),
           ChainSound(chain'[e], file'[e], artifact'[e])
    PROVE  ExportsSound'
<1>1. SUFFICES ASSUME NEW x \in Exports
               PROVE  RecordSound(file'[x], artifact'[x])
                      /\ ChainSound(chain'[x], file'[x], artifact'[x])
  BY <1>1 DEF ExportsSound
<1>2. CASE x = e
  BY <1>2
<1>3. CASE x # e
  BY <1>3 DEF ExportsSound
<1> QED
  BY <1>2, <1>3

LEMMA EnqueueSound ==
    ASSUME TypeOK, NEW e \in Exports, NEW kind \in TaskKinds, NEW by \in Clients,
           Enqueue(e, kind, by), NEW f, NEW a, f \in Records,
           ChainSound(chain[e], f, a)
    PROVE  ChainSound(chain'[e], f, a)
<1>1. chain[e] \in Seq(Tasks)
  BY DEF TypeOK
<1>2. /\ Len(chain'[e]) = Len(chain[e]) + 1
      /\ \A i \in 1 .. Len(chain[e]) : chain'[e][i] = chain[e][i]
      /\ chain'[e][Len(chain[e]) + 1] = TaskBy(kind, by)
  BY Enqueued
<1> TaskBy(kind, by).pc = "queued"
  BY DEF TaskBy
<1> HIDE DEF TaskBy
<1>3. CASE chain[e] = <<>>
  <2>1. Len(chain[e]) = 0 /\ Len(chain'[e]) = 1
    BY <1>1, <1>2, <1>3
  <2>2. chain'[e][1].pc = "queued"
    BY <1>2, <2>1
  <2>3. TaskAgrees(chain'[e][1], f, a)
    BY <2>2 DEF TaskAgrees
  <2>4. \A i \in 2 .. Len(chain'[e]) : FALSE
    BY <2>1
  <2> QED
    BY <2>3, <2>4 DEF ChainSound
<1>4. CASE chain[e] # <<>>
  <2>1. Len(chain[e]) \in Nat /\ Len(chain[e]) >= 1
    BY <1>1, <1>4
  <2>2. chain'[e][1] = chain[e][1]
    BY <1>2, <2>1
  <2>3. \A i \in 2 .. Len(chain'[e]) : chain'[e][i].pc = "queued"
    BY <1>2, <1>4, <2>1 DEF ChainSound
  <2> QED
    BY <1>4, <2>2, <2>3 DEF ChainSound
<1> QED
  BY <1>3, <1>4

LEMMA TailSound ==
    ASSUME TypeOK, ExportsSound, NEW e \in Exports, chain[e] # <<>>,
           chain' = [chain EXCEPT ![e] = Tail(@)],
           NEW f \in Records, NEW a
    PROVE  ChainSound(chain'[e], f, a)
<1>1. chain[e] \in Seq(Tasks) /\ chain'[e] \in Seq(Tasks)
  BY HeadGone DEF TypeOK
<1>2. /\ Len(chain[e]) = Len(chain'[e]) + 1
      /\ \A i \in 1 .. Len(chain'[e]) : chain'[e][i] = chain[e][i + 1]
  BY HeadGone
<1>3. \A i \in 2 .. Len(chain[e]) : chain[e][i].pc = "queued"
  BY DEF ExportsSound, ChainSound
<1>4. ASSUME NEW i \in 1 .. Len(chain'[e])
      PROVE  chain'[e][i].pc = "queued"
  <2>1. i + 1 \in 2 .. Len(chain[e]) /\ chain'[e][i] = chain[e][i + 1]
    BY <1>1, <1>2
  <2> QED
    BY <1>3, <2>1
<1>5. chain'[e] # <<>> => 1 \in 1 .. Len(chain'[e])
  BY <1>1
<1>6. chain'[e] # <<>> => TaskAgrees(chain'[e][1], f, a)
  BY <1>4, <1>5 DEF TaskAgrees
<1>7. \A i \in 2 .. Len(chain'[e]) : chain'[e][i].pc = "queued"
  <2>1. \A i \in 2 .. Len(chain'[e]) : i \in 1 .. Len(chain'[e])
    BY <1>1
  <2> QED
    BY <1>4, <2>1
<1> QED
  BY <1>6, <1>7 DEF ChainSound

LEMMA HeadSound ==
    ASSUME TypeOK, ExportsSound, NEW e \in Exports, chain[e] # <<>>,
           Len(chain'[e]) = Len(chain[e]),
           \A i \in 2 .. Len(chain[e]) : chain'[e][i] = chain[e][i],
           NEW f \in Records, NEW a, TaskAgrees(chain'[e][1], f, a)
    PROVE  ChainSound(chain'[e], f, a)
BY DEF ExportsSound, ChainSound

LEMMA ExportsKept ==
    ASSUME TypeOK, ExportsSound, CallersWait, CallsHold, ItemsHold, [Next]_vars
    PROVE  ExportsSound'
<1> USE DEF disk
<1>1. ASSUME NEW c \in Calls, NEW e \in Exports, NEW d \in Digests, VerifyRequest(c, e, d)
      PROVE  ExportsSound'
  BY <1>1 DEF VerifyRequest, ExportsSound
<1>2. ASSUME NEW c \in Calls, ReadExisting(c)
      PROVE  ExportsSound'
  <2> DEFINE e == call[c].export
  <2>1. call[c] # Idle /\ e \in Exports
    BY <1>2, NotIdle, CallTyped DEF ReadExisting
  <2>2. UNCHANGED disk
    BY <1>2 DEF ReadExisting
  <2>3. CASE UNCHANGED chain
    BY <2>2, <2>3 DEF ExportsSound
  <2>4. CASE file[e] \in Records /\ Enqueue(e, "deliver", c)
    <3>1. "deliver" \in TaskKinds /\ c \in Clients
      BY DEF TaskKinds, Clients
    <3>2. ChainSound(chain'[e], file[e], artifact[e])
      BY <2>1, <2>4, <3>1, EnqueueSound DEF ExportsSound
    <3>3. \A x \in Exports : x # e => chain'[x] = chain[x]
      BY <2>1, <2>4, <3>1, Enqueued
    <3> HIDE DEF e
    <3> QED
      BY <2>1, <2>2, <3>2, <3>3 DEF ExportsSound
  <2> QED
    BY <1>2, <2>3, <2>4 DEF ReadExisting, Replay
<1>3. ASSUME NEW c \in Calls, CreateRecord(c)
      PROVE  ExportsSound'
  <2> DEFINE e == call[c].export
  <2>1. call[c] # Idle /\ e \in Exports
    BY <1>3, NotIdle, CallTyped DEF CreateRecord
  <2>2. UNCHANGED <<artifact, chain>>
    BY <1>3 DEF CreateRecord
  <2>3. CASE UNCHANGED file
    BY <2>2, <2>3 DEF ExportsSound
  <2>4. CASE file[e] = Absent /\ file' = [file EXCEPT ![e] = Torn]
    <3>1. chain[e] = <<>>
      BY <2>1, <2>4, UnreadableTyped DEF ExportsSound, ChainSound
    <3> HIDE DEF e
    <3>2. file'[e] = Torn /\ \A x \in Exports : x # e => file'[x] = file[x]
      BY <2>1, <2>4 DEF TypeOK
    <3>3. RecordSound(file'[e], artifact'[e]) /\ ChainSound(chain'[e], file'[e], artifact'[e])
      BY <2>2, <3>1, <3>2, UnreadableTyped DEF RecordSound, ChainSound
    <3> QED
      BY <2>1, <2>2, <3>2, <3>3, OneExport
  <2> QED
    BY <1>3, <2>3, <2>4 DEF CreateRecord
<1>4. ASSUME NEW c \in Calls, NEW e \in Exports, e = call[c].export,
             call[c] # Idle, call[c].pc = "creating", UNCHANGED artifact,
             file' = [file EXCEPT ![e] = Accepted(call[c].digest)],
             Enqueue(e, "deliver", c) \/ UNCHANGED chain
      PROVE  ExportsSound'
  <2>1. file[e] = Torn /\ chain[e] = <<>>
    BY <1>4, UnreadableTyped DEF CallsHold, ExportsSound, ChainSound
  <2>2. Accepted(call[c].digest) \in Records
    BY <1>4, CallTyped, AcceptedTyped
  <2>3. file'[e] = Accepted(call[c].digest) /\ \A x \in Exports : x # e => file'[x] = file[x]
    BY <1>4 DEF TypeOK
  <2>4. RecordSound(file'[e], artifact'[e])
    BY <2>3 DEF RecordSound, Accepted
  <2>5. ChainSound(chain[e], file'[e], artifact'[e])
    BY <2>1 DEF ChainSound
  <2>6. "deliver" \in TaskKinds /\ c \in Clients
    BY DEF TaskKinds, Clients
  <2>7. ChainSound(chain'[e], file'[e], artifact'[e])
    BY <1>4, <2>2, <2>3, <2>5, <2>6, EnqueueSound
  <2>8. \A x \in Exports : x # e => chain'[x] = chain[x]
    BY <1>4, <2>6, Enqueued
  <2> QED
    BY <1>4, <2>3, <2>4, <2>7, <2>8, OneExport
<1>5. ASSUME NEW c \in Calls, CommitRecord(c)
      PROVE  ExportsSound'
  <2>1. call[c] # Idle /\ call[c].export \in Exports
    BY <1>5, NotIdle, CallTyped DEF CommitRecord
  <2> QED
    BY <1>4, <1>5, <2>1 DEF CommitRecord
<1>6. ASSUME NEW c \in Calls, FailCreate(c)
      PROVE  ExportsSound'
  <2>1. call[c] # Idle /\ call[c].export \in Exports
    BY <1>6, NotIdle, CallTyped DEF FailCreate
  <2>2. CASE UNCHANGED file
    BY <1>6, <2>2 DEF FailCreate, ExportsSound
  <2>3. CASE ~ UNCHANGED file
    BY <1>4, <1>6, <2>1, <2>3 DEF FailCreate
  <2> QED
    BY <2>2, <2>3
<1>7. ASSUME NEW e \in Exports, chain[e] # <<>>,
             \A x \in Exports : x # e => file'[x] = file[x] /\ artifact'[x] = artifact[x],
             file'[e] \in Records, RecordSound(file'[e], artifact'[e]), End(e)
      PROVE  ExportsSound'
  <2>1. chain' = [chain EXCEPT ![e] = Tail(@)]
    BY <1>7 DEF End
  <2>2. ChainSound(chain'[e], file'[e], artifact'[e])
    BY <1>7, <2>1, TailSound
  <2>3. \A x \in Exports : x # e => chain'[x] = chain[x]
    BY <2>1 DEF TypeOK
  <2> QED
    BY <1>7, <2>2, <2>3, OneExport
<1>8. ASSUME NEW e \in Exports, chain[e] # <<>>,
             \A x \in Exports : x # e => file'[x] = file[x] /\ artifact'[x] = artifact[x],
             file'[e] \in Records, RecordSound(file'[e], artifact'[e]),
             \/ \E pc \in {"attempting", "writing", "written", "failing", "purging"} :
                  Step(e, pc) /\ TaskAgrees([chain[e][1] EXCEPT !.pc = pc],
                                            file'[e], artifact'[e])
             \/ /\ \E code \in {"SOURCE_SUBMISSION_UNAVAILABLE", "ARTIFACT_IO_ERROR",
                                 "ARTIFACT_INTEGRITY_CONFLICT"} : StepFailing(e, code)
                /\ Running(e).kind \in {"deliver", "unavailable"}
                /\ file'[e].status = "PENDING"
      PROVE  ExportsSound'
  <2>1. /\ \A x \in Exports : x # e => chain'[x] = chain[x]
        /\ Len(chain'[e]) = Len(chain[e])
        /\ \A i \in 2 .. Len(chain[e]) : chain'[e][i] = chain[e][i]
    <3>1. CASE \E pc \in {"attempting", "writing", "written", "failing", "purging"} : Step(e, pc)
      BY <1>8, <3>1, Stepped
    <3>2. CASE \E code \in {"SOURCE_SUBMISSION_UNAVAILABLE", "ARTIFACT_IO_ERROR",
                             "ARTIFACT_INTEGRITY_CONFLICT"} : StepFailing(e, code)
      BY <1>8, <3>2, SteppedFailing
    <3> QED
      BY <1>8, <3>1, <3>2
  <2>2. CASE \E pc \in {"attempting", "writing", "written", "failing", "purging"} :
               Step(e, pc) /\ TaskAgrees([chain[e][1] EXCEPT !.pc = pc],
                                         file'[e], artifact'[e])
    <3>1. TaskAgrees(chain'[e][1], file'[e], artifact'[e])
      <4>1. PICK pc \in {"attempting", "writing", "written", "failing", "purging"} :
              Step(e, pc) /\ TaskAgrees([chain[e][1] EXCEPT !.pc = pc], file'[e], artifact'[e])
        BY <2>2
      <4>2. pc \in {"queued", "attempting", "writing", "written", "failing", "purging"}
        OBVIOUS
      <4>3. chain'[e][1] = [chain[e][1] EXCEPT !.pc = pc]
        BY <1>8, <4>1, <4>2, Stepped
      <4> QED
        BY <4>1, <4>3
    <3> QED
      BY <1>8, <2>1, <3>1, HeadSound, OneExport
  <2>3. CASE /\ \E code \in {"SOURCE_SUBMISSION_UNAVAILABLE", "ARTIFACT_IO_ERROR",
                              "ARTIFACT_INTEGRITY_CONFLICT"} : StepFailing(e, code)
             /\ Running(e).kind \in {"deliver", "unavailable"}
             /\ file'[e].status = "PENDING"
    <3>1. PICK code \in {"SOURCE_SUBMISSION_UNAVAILABLE", "ARTIFACT_IO_ERROR",
                         "ARTIFACT_INTEGRITY_CONFLICT"} :
            chain'[e][1] = [chain[e][1] EXCEPT !.pc = "failing", !.code = code]
      BY <1>8, <2>3, SteppedFailing
    <3>2. chain[e][1] \in Tasks /\ chain[e][1].kind \in {"deliver", "unavailable"}
      BY <1>8, <2>3, RunningTyped
    <3>3. chain'[e][1].pc = "failing" /\ chain'[e][1].kind = chain[e][1].kind
      BY <3>1, <3>2 DEF Tasks
    <3>4. TaskAgrees(chain'[e][1], file'[e], artifact'[e])
      BY <2>3, <3>2, <3>3 DEF TaskAgrees
    <3> QED
      BY <1>8, <2>1, <3>4, HeadSound, OneExport
  <2> QED
    BY <1>8, <2>2, <2>3
<1>9. ASSUME NEW e \in Exports, chain[e] # <<>>
      PROVE  /\ file[e] \in Records
             /\ Running(e) = chain[e][1]
             /\ chain[e][1] \in Tasks
             /\ TaskAgrees(chain[e][1], file[e], artifact[e])
             /\ RecordSound(file[e], artifact[e])
  BY <1>9, HeadIsRecord, RunningTyped DEF ExportsSound
<1>10. ASSUME NEW e \in Exports, PrepareAttempt(e)
       PROVE  ExportsSound'
  <2>1. chain[e] # <<>> /\ Running(e).kind \in {"deliver", "unavailable"}
    BY <1>10 DEF PrepareAttempt, Runs
  <2>2. UNCHANGED artifact
    BY <1>10 DEF PrepareAttempt
  <2>3. CASE ~Startable(file[e])
    BY <1>7, <1>9, <1>10, <2>1, <2>2, <2>3 DEF PrepareAttempt
  <2>4. CASE Startable(file[e])
    <3> DEFINE f == [file[e] EXCEPT !.attempts = Least(file[e].attempts + 1, MaxAttempts),
                                    !.retry = "none"]
    <3>1. file' = [file EXCEPT ![e] = f]
      BY <1>10, <2>4 DEF PrepareAttempt, TypeOK
    <3>2. f \in Records
      BY <1>9, <2>1, PreparedTyped
    <3>3. f.status = "PENDING" /\ f.retention = "NOT_RETAINED"
      BY <1>9, <2>1, <2>4 DEF Startable, RecordSound, Records
    <3> HIDE DEF f
    <3>4. file'[e] = f /\ \A x \in Exports : x # e => file'[x] = file[x]
      BY <3>1 DEF TypeOK
    <3>5. RecordSound(file'[e], artifact'[e])
      BY <3>3, <3>4 DEF RecordSound
    <3>6. CASE Running(e).kind = "deliver"
      <4>1. Step(e, "attempting")
        BY <1>10, <2>4, <3>6 DEF PrepareAttempt
      <4>2. TaskAgrees([chain[e][1] EXCEPT !.pc = "attempting"], file'[e], artifact'[e])
        BY <1>9, <2>1, <3>3, <3>4, <3>6 DEF TaskAgrees, Tasks
      <4> QED
        BY <1>8, <2>1, <2>2, <3>2, <3>4, <3>5, <4>1, <4>2
    <3>7. CASE Running(e).kind # "deliver"
      BY <1>8, <1>10, <2>1, <2>2, <2>4, <3>2, <3>3, <3>4, <3>5, <3>7 DEF PrepareAttempt
    <3> QED
      BY <3>6, <3>7
  <2> QED
    BY <2>3, <2>4
<1>11. ASSUME NEW e \in Exports,
              Runs(e, {"deliver"}, "attempting") \/ Runs(e, {"deliver"}, "writing")
                \/ Runs(e, {"deliver"}, "written"),
              UNCHANGED file, NEW a, artifact' = [artifact EXCEPT ![e] = a],
              \/ \E pc \in {"writing", "written"} : Step(e, pc) /\ (pc = "written" => a = "whole")
              \/ \E code \in {"ARTIFACT_IO_ERROR", "ARTIFACT_INTEGRITY_CONFLICT"} :
                   StepFailing(e, code)
       PROVE  ExportsSound'
  <2>1. chain[e] # <<>> /\ Running(e).kind = "deliver" /\ Running(e).pc # "queued"
    BY <1>11 DEF Runs
  <2>2. file[e].status = "PENDING"
    BY <1>9, <2>1 DEF TaskAgrees
  <2>3. artifact'[e] = a /\ \A x \in Exports : x # e => artifact'[x] = artifact[x]
    BY <1>11 DEF TypeOK
  <2>4. RecordSound(file'[e], artifact'[e])
    BY <1>9, <1>11, <2>1, <2>2, <2>3 DEF RecordSound
  <2>5. ASSUME NEW pc \in {"writing", "written"}, pc = "written" => a = "whole"
        PROVE  TaskAgrees([chain[e][1] EXCEPT !.pc = pc], file'[e], artifact'[e])
    BY <1>9, <1>11, <2>1, <2>2, <2>3, <2>5 DEF TaskAgrees, Tasks
  <2>6. /\ file'[e] \in Records
        /\ file'[e].status = "PENDING"
        /\ \A x \in Exports : x # e => file'[x] = file[x] /\ artifact'[x] = artifact[x]
        /\ Running(e).kind \in {"deliver", "unavailable"}
    BY <1>9, <1>11, <2>1, <2>2, <2>3
  <2>7. \/ \E pc \in {"attempting", "writing", "written", "failing", "purging"} :
             Step(e, pc) /\ TaskAgrees([chain[e][1] EXCEPT !.pc = pc], file'[e], artifact'[e])
        \/ \E code \in {"SOURCE_SUBMISSION_UNAVAILABLE", "ARTIFACT_IO_ERROR",
                         "ARTIFACT_INTEGRITY_CONFLICT"} : StepFailing(e, code)
    BY <1>11, <2>5
  <2> QED
    BY <1>8, <2>1, <2>4, <2>6, <2>7
<1>12. ASSUME NEW e \in Exports,
              CreateArtifact(e) \/ CompareArtifact(e) \/ WriteArtifact(e) \/ FailArtifact(e)
       PROVE  ExportsSound'
  <2>1. artifact = [artifact EXCEPT ![e] = artifact[e]]
    BY DEF TypeOK
  <2>2. CASE CreateArtifact(e)
    BY <1>11, <2>2 DEF CreateArtifact
  <2>3. CASE CompareArtifact(e)
    BY <1>11, <2>1, <2>3 DEF CompareArtifact
  <2>4. CASE WriteArtifact(e)
    BY <1>11, <2>4 DEF WriteArtifact
  <2>5. CASE FailArtifact(e)
    BY <1>11, <2>1, <2>5 DEF FailArtifact
  <2> QED
    BY <1>12, <2>2, <2>3, <2>4, <2>5
<1>13. ASSUME NEW e \in Exports, RecordDelivered(e)
       PROVE  ExportsSound'
  <2> DEFINE f == [file[e] EXCEPT !.status = "DELIVERED", !.retry = "none",
                                  !.retention = "RETAINED"]
  <2>1. chain[e] # <<>> /\ Running(e).kind = "deliver" /\ Running(e).pc = "written"
    BY <1>13 DEF RecordDelivered, Runs
  <2>2. artifact[e] = "whole"
    BY <1>9, <2>1 DEF TaskAgrees
  <2>3. file' = [file EXCEPT ![e] = f] /\ f \in Records
    BY <1>9, <1>13, <2>1, DeliveredTyped DEF RecordDelivered, TypeOK
  <2>4. RecordSound(f, artifact[e])
    BY <1>9, <2>1, <2>2 DEF RecordSound, Records
  <2> HIDE DEF f
  <2>5. file'[e] = f /\ \A x \in Exports : x # e => file'[x] = file[x]
    BY <2>3 DEF TypeOK
  <2> QED
    BY <1>7, <1>13, <2>1, <2>3, <2>4, <2>5 DEF RecordDelivered
<1>14. ASSUME NEW e \in Exports, FailAttempt(e)
       PROVE  ExportsSound'
  <2> DEFINE code == Running(e).code
             out == Exhausted(file[e], code)
             f == [file[e] EXCEPT !.status = IF out THEN "FAILED" ELSE "PENDING",
                                  !.failure = code,
                                  !.retry = IF out THEN "none" ELSE "waiting"]
  <2>1. /\ chain[e] # <<>>
        /\ Running(e).kind \in {"deliver", "unavailable"}
        /\ Running(e).pc = "failing"
    BY <1>14 DEF FailAttempt, Runs
  <2>2. file[e].status = "PENDING" /\ file[e].retention = "NOT_RETAINED"
    BY <1>9, <2>1 DEF TaskAgrees, RecordSound
  <2>3. code \in {"none", "SOURCE_SUBMISSION_UNAVAILABLE", "ARTIFACT_IO_ERROR",
                  "ARTIFACT_INTEGRITY_CONFLICT"}
    BY <1>9, <2>1 DEF Tasks
  <2>4. file' = [file EXCEPT ![e] = f]
    BY <1>14 DEF FailAttempt, TypeOK
  <2>5. f \in Records
    BY <1>9, <2>1, <2>3, FailedTyped
  <2>6. RecordSound(f, artifact[e])
    BY <1>9, <2>1, <2>2 DEF RecordSound, Records
  <2> HIDE DEF f
  <2>7. file'[e] = f /\ \A x \in Exports : x # e => file'[x] = file[x]
    BY <2>4 DEF TypeOK
  <2> QED
    BY <1>7, <1>14, <2>1, <2>5, <2>6, <2>7 DEF FailAttempt
<1>15. ASSUME NEW e \in Exports, ExpireArtifact(e)
       PROVE  ExportsSound'
  <2>1. chain[e] # <<>> /\ Running(e).kind = "expire" /\ UNCHANGED artifact
    BY <1>15 DEF ExpireArtifact, Runs
  <2>2. CASE End(e) /\ UNCHANGED file
    BY <1>7, <1>9, <2>1, <2>2
  <2>3. CASE Step(e, "purging") /\ UNCHANGED file /\ file[e].retention = "PURGE_PENDING"
    <3>1. file[e].status = "EXPIRED"
      BY <1>9, <2>1, <2>3 DEF RecordSound, Records
    <3>2. TaskAgrees([chain[e][1] EXCEPT !.pc = "purging"], file'[e], artifact'[e])
      BY <1>9, <2>1, <2>3, <3>1 DEF TaskAgrees, Tasks
    <3> QED
      BY <1>8, <1>9, <2>1, <2>3, <3>2
  <2>4. CASE /\ Step(e, "purging")
             /\ file[e].status = "DELIVERED"
             /\ file' = [file EXCEPT ![e].status = "EXPIRED", ![e].retention = "PURGE_PENDING"]
    <3> DEFINE f == [file[e] EXCEPT !.status = "EXPIRED", !.retention = "PURGE_PENDING"]
    <3>1. file' = [file EXCEPT ![e] = f] /\ f \in Records
      BY <1>9, <2>1, <2>4, ExpiredTyped DEF TypeOK
    <3>2. /\ RecordSound(f, artifact[e])
          /\ f.status = "EXPIRED"
          /\ f.retention = "PURGE_PENDING"
      BY <1>9, <2>1, <2>4 DEF RecordSound, Records
    <3> HIDE DEF f
    <3>3. file'[e] = f /\ \A x \in Exports : x # e => file'[x] = file[x]
      BY <3>1 DEF TypeOK
    <3>4. TaskAgrees([chain[e][1] EXCEPT !.pc = "purging"], file'[e], artifact'[e])
      BY <1>9, <2>1, <3>2, <3>3 DEF TaskAgrees, Tasks
    <3> QED
      BY <1>8, <2>1, <2>4, <3>1, <3>2, <3>3, <3>4
  <2> QED
    BY <1>15, <2>2, <2>3, <2>4 DEF ExpireArtifact
<1>16. ASSUME NEW e \in Exports, RemoveArtifact(e)
       PROVE  ExportsSound'
  <2>1. chain[e] # <<>> /\ Running(e).kind = "expire" /\ Running(e).pc = "purging"
    BY <1>16 DEF RemoveArtifact, Runs
  <2>2. file[e].status = "EXPIRED" /\ file[e].retention = "PURGE_PENDING"
    BY <1>9, <2>1 DEF TaskAgrees
  <2>3. /\ artifact'[e] = "absent"
        /\ \A x \in Exports : x # e => artifact'[x] = artifact[x]
        /\ file' = file
        /\ Step(e, "written")
    BY <1>16 DEF RemoveArtifact, TypeOK
  <2>4. RecordSound(file'[e], artifact'[e])
    BY <1>9, <2>1, <2>2, <2>3 DEF RecordSound
  <2>5. TaskAgrees([chain[e][1] EXCEPT !.pc = "written"], file'[e], artifact'[e])
    BY <1>9, <2>1, <2>2, <2>3 DEF TaskAgrees, Tasks
  <2> QED
    BY <1>8, <1>9, <2>1, <2>3, <2>4, <2>5
<1>17. ASSUME NEW e \in Exports, FailRemoval(e)
       PROVE  ExportsSound'
  BY <1>7, <1>9, <1>17 DEF FailRemoval, Runs
<1>18. ASSUME NEW e \in Exports, RecordPurged(e)
       PROVE  ExportsSound'
  <2> DEFINE f == [file[e] EXCEPT !.retention = "PURGED"]
  <2>1. chain[e] # <<>> /\ Running(e).kind = "expire" /\ Running(e).pc = "written"
    BY <1>18 DEF RecordPurged, Runs
  <2>2. file[e].status = "EXPIRED" /\ artifact[e] = "absent"
    BY <1>9, <2>1 DEF TaskAgrees
  <2>3. file' = [file EXCEPT ![e] = f] /\ f \in Records
    BY <1>9, <1>18, <2>1, ExpiredTyped DEF RecordPurged, TypeOK
  <2>4. RecordSound(f, artifact[e])
    BY <1>9, <2>1, <2>2 DEF RecordSound, Records
  <2> HIDE DEF f
  <2>5. file'[e] = f /\ \A x \in Exports : x # e => file'[x] = file[x]
    BY <2>3 DEF TypeOK
  <2> QED
    BY <1>7, <1>18, <2>1, <2>3, <2>4, <2>5 DEF RecordPurged
<1>19. ASSUME NEW e \in Exports, TaskThrows(e)
       PROVE  ExportsSound'
  <2>1. chain[e] # <<>> /\ UNCHANGED disk /\ chain' = [chain EXCEPT ![e] = Tail(@)]
    BY <1>19 DEF TaskThrows
  <2>2. ChainSound(chain'[e], file[e], artifact[e])
    BY <1>9, <2>1, TailSound
  <2>3. \A x \in Exports : x # e => chain'[x] = chain[x]
    BY <2>1 DEF TypeOK
  <2> QED
    BY <1>9, <2>1, <2>2, <2>3, OneExport
<1>20. ASSUME NEW e \in Exports, NEW kind \in TaskKinds, NEW by \in Clients,
              file[e] \in Records, Enqueue(e, kind, by), UNCHANGED disk
       PROVE  ExportsSound'
  <2>1. ChainSound(chain'[e], file[e], artifact[e])
    BY <1>20, EnqueueSound DEF ExportsSound
  <2>2. \A x \in Exports : x # e => chain'[x] = chain[x]
    BY <1>20, Enqueued
  <2> QED
    BY <1>20, <2>1, <2>2, OneExport DEF ExportsSound
<1>21. ASSUME NEW e \in Exports, ReadStatus(e)
       PROVE  ExportsSound'
  <2>1. file[e] \in Records
    <3>1. file[e] # Absent /\ file[e] # Torn
      BY <1>21 DEF ReadStatus, Absent, Torn
    <3> QED
      BY <3>1 DEF TypeOK
  <2> QED
    BY <1>20, <1>21, <2>1 DEF ReadStatus, TaskKinds, Clients
<1>22. ASSUME NEW e \in Exports, WorkItem(e)
       PROVE  ExportsSound'
  <2>1. PICK item \in worker.todo :
          /\ item[2] = e
          /\ Enqueue(e, item[1], "worker") \/ Enqueue(e, "unavailable", "worker")
    BY <1>22 DEF WorkItem
  <2>2. file[e] \in Records /\ item[1] \in TaskKinds
    BY <2>1 DEF ItemsHold, TypeOK, TaskKinds
  <2> QED
    BY <1>20, <1>22, <2>1, <2>2 DEF WorkItem, TaskKinds, Clients
<1>23. ASSUME NEW e \in Exports, RetryFallsDue(e)
       PROVE  ExportsSound'
  <2> DEFINE f == [file[e] EXCEPT !.retry = "due"]
  <2>1. file[e] \in Records /\ UNCHANGED <<artifact, chain>> /\ file[e].retry = "waiting"
    BY <1>23 DEF RetryFallsDue
  <2>2. RecordSound(file[e], artifact[e]) /\ ChainSound(chain[e], file[e], artifact[e])
    BY DEF ExportsSound
  <2>3. file' = [file EXCEPT ![e] = f] /\ f \in Records
    BY <1>23, <2>1, ExpiredTyped DEF RetryFallsDue, TypeOK
  <2>4. /\ f.status = file[e].status
        /\ f.retention = file[e].retention
        /\ f.status = "PENDING"
    BY <2>1, <2>2 DEF RecordSound, Records
  <2> HIDE DEF f
  <2>5. file'[e] = f /\ \A x \in Exports : x # e => file'[x] = file[x]
    BY <2>3 DEF TypeOK
  <2>6. RecordSound(f, artifact[e])
    BY <2>1, <2>2, <2>4 DEF RecordSound
  <2>7. ChainSound(chain[e], f, artifact[e])
    BY <2>1, <2>2, <2>3, <2>4 DEF ChainSound, TaskAgrees
  <2> QED
    BY <2>1, <2>5, <2>6, <2>7, OneExport
<1>24. CASE Teardown \/ Crash
  BY <1>24 DEF Teardown, Crash, Gone, ExportsSound, ChainSound
<1>25. CASE \/ \E e \in Exports : LifetimePasses(e)
            \/ ScanExports \/ EndRound \/ WakeWorker \/ Quiesce \/ Boot \/ UNCHANGED vars
  <2>1. UNCHANGED <<file, artifact, chain>>
    BY <1>25 DEF LifetimePasses, ScanExports, EndRound, WakeWorker, Quiesce, Boot, vars
  <2> QED
    BY <2>1 DEF ExportsSound
<1> QED
  BY <1>1, <1>2, <1>3, <1>5, <1>6, <1>10, <1>12, <1>13, <1>14, <1>15, <1>16, <1>17, <1>18,
     <1>19, <1>21, <1>22, <1>23, <1>24, <1>25
  DEF Next, CallStep, TaskStep, WorkerStep

-----------------------------------------------------------------------------
(* Records move forward. *)

\* One step of StatusMovesForward.
RecordsMove ==
    \A e \in Exports :
        file[e] \in Records =>
          /\ file'[e] \in Records
          /\ file'[e].digest = file[e].digest
          /\ file'[e].attempts >= file[e].attempts
          /\ file[e].status # "PENDING" /\ file'[e].status # file[e].status
               => file[e].status = "DELIVERED" /\ file'[e].status = "EXPIRED"
          /\ file[e].retention = "PURGED" => file'[e] = file[e]

\* A file that is not a record is changed by the call that creates it alone.
OnlyRecordsMove == \A e \in Exports : file'[e] = file[e] \/ file[e] \in Records

LEMMA AttemptsTyped ==
    ASSUME NEW f \in Records
    PROVE  f.attempts \in Nat /\ f.attempts >= f.attempts
BY AttemptsAssumption DEF Records

LEMMA TasksMoveRecords ==
    ASSUME TypeOK, ExportsSound, NEW e \in Exports,
           TaskStep(e) \/ TaskThrows(e) \/ FailArtifact(e) \/ FailRemoval(e)
             \/ ReadStatus(e) \/ RetryFallsDue(e) \/ LifetimePasses(e)
    PROVE  RecordsMove /\ OnlyRecordsMove
<1>1. CASE UNCHANGED file
  BY <1>1, AttemptsTyped DEF RecordsMove, OnlyRecordsMove
<1>2. ASSUME file[e] \in Records, NEW f \in Records, file' = [file EXCEPT ![e] = f],
             f.digest = file[e].digest, f.attempts >= file[e].attempts,
             file[e].status # "PENDING" /\ f.status # file[e].status
               => file[e].status = "DELIVERED" /\ f.status = "EXPIRED",
             file[e].retention = "PURGED" => f = file[e]
      PROVE  RecordsMove /\ OnlyRecordsMove
  <2>1. file'[e] = f /\ \A x \in Exports : x # e => file'[x] = file[x]
    BY <1>2 DEF TypeOK
  <2> QED
    BY <1>2, <2>1, AttemptsTyped DEF RecordsMove, OnlyRecordsMove
<1>3. chain[e] # <<>> => /\ file[e] \in Records
                        /\ TaskAgrees(Running(e), file[e], artifact[e])
                        /\ Running(e) \in Tasks
  BY HeadIsRecord, RunningTyped
<1>4. RecordSound(file[e], artifact[e])
  BY DEF ExportsSound
<1>5. CASE PrepareAttempt(e) /\ Startable(file[e])
  <2> DEFINE f == [file[e] EXCEPT !.attempts = Least(file[e].attempts + 1, MaxAttempts),
                                  !.retry = "none"]
  <2>1. file[e] \in Records /\ file' = [file EXCEPT ![e] = f]
    BY <1>5 DEF PrepareAttempt, TypeOK
  <2>2. f \in Records
    BY <2>1, PreparedTyped
  <2>3. /\ f.digest = file[e].digest
        /\ f.status = file[e].status
        /\ f.attempts = Least(file[e].attempts + 1, MaxAttempts)
        /\ file[e].attempts \in 0 .. MaxAttempts
    BY <2>1 DEF Records
  <2>4. f.attempts >= file[e].attempts
    BY <2>3, AttemptsAssumption DEF Least
  <2>5. file[e].retention # "PURGED"
    BY <1>4, <1>5, <2>1 DEF RecordSound, Startable
  <2> HIDE DEF f
  <2> QED
    BY <1>2, <2>1, <2>2, <2>3, <2>4, <2>5
<1>6. CASE RecordDelivered(e)
  <2> DEFINE f == [file[e] EXCEPT !.status = "DELIVERED", !.retry = "none",
                                  !.retention = "RETAINED"]
  <2>1. chain[e] # <<>> /\ Running(e).kind = "deliver" /\ Running(e).pc = "written"
    BY <1>6 DEF RecordDelivered, Runs
  <2>2. file[e] \in Records /\ file[e].status = "PENDING" /\ file[e].retention # "PURGED"
    BY <1>3, <1>4, <2>1 DEF TaskAgrees, RecordSound
  <2>3. f \in Records /\ file' = [file EXCEPT ![e] = f]
    BY <1>6, <2>2, DeliveredTyped DEF RecordDelivered, TypeOK
  <2>4. f.digest = file[e].digest /\ f.attempts = file[e].attempts
    BY <2>2 DEF Records
  <2> HIDE DEF f
  <2> QED
    BY <1>2, <2>2, <2>3, <2>4, AttemptsTyped
<1>7. CASE FailAttempt(e)
  <2> DEFINE code == Running(e).code
             out == Exhausted(file[e], code)
             f == [file[e] EXCEPT !.status = IF out THEN "FAILED" ELSE "PENDING",
                                  !.failure = code,
                                  !.retry = IF out THEN "none" ELSE "waiting"]
  <2>1. /\ chain[e] # <<>>
        /\ Running(e).kind \in {"deliver", "unavailable"}
        /\ Running(e).pc = "failing"
    BY <1>7 DEF FailAttempt, Runs
  <2>2. file[e] \in Records /\ file[e].status = "PENDING" /\ file[e].retention # "PURGED"
    BY <1>3, <1>4, <2>1 DEF TaskAgrees, RecordSound
  <2>3. code \in {"none", "SOURCE_SUBMISSION_UNAVAILABLE", "ARTIFACT_IO_ERROR",
                  "ARTIFACT_INTEGRITY_CONFLICT"}
    BY <1>3, <2>1 DEF Tasks
  <2>4. f \in Records
    BY <2>2, <2>3, FailedTyped
  <2>5. file' = [file EXCEPT ![e] = f]
    BY <1>7 DEF FailAttempt, TypeOK
  <2>6. f.digest = file[e].digest /\ f.attempts = file[e].attempts
    BY <2>2 DEF Records
  <2> HIDE DEF f
  <2> QED
    BY <1>2, <2>2, <2>4, <2>5, <2>6, AttemptsTyped
<1>8. CASE ExpireArtifact(e) /\ file[e].status = "DELIVERED" /\ lapsed[e]
  <2> DEFINE f == [file[e] EXCEPT !.status = "EXPIRED", !.retention = "PURGE_PENDING"]
  <2>1. file[e] \in Records
    BY <1>8 DEF ExpireArtifact
  <2>2. f \in Records /\ file' = [file EXCEPT ![e] = f]
    BY <1>8, <2>1, ExpiredTyped DEF ExpireArtifact, TypeOK
  <2>3. /\ f.digest = file[e].digest
        /\ f.attempts = file[e].attempts
        /\ f.status = "EXPIRED"
        /\ file[e].retention # "PURGED"
    BY <1>4, <1>8, <2>1 DEF Records, RecordSound
  <2> HIDE DEF f
  <2> QED
    BY <1>2, <1>8, <2>1, <2>2, <2>3, AttemptsTyped
<1>9. CASE RecordPurged(e)
  <2> DEFINE f == [file[e] EXCEPT !.retention = "PURGED"]
  <2>1. chain[e] # <<>>
    BY <1>9 DEF RecordPurged, Runs
  <2>2. file[e] \in Records
    BY <1>3, <2>1
  <2>3. f \in Records /\ file' = [file EXCEPT ![e] = f]
    BY <1>9, <2>2, ExpiredTyped DEF RecordPurged, TypeOK
  <2>4. /\ f.digest = file[e].digest
        /\ f.attempts = file[e].attempts
        /\ f.status = file[e].status
        /\ file[e].retention = "PURGED" => f = file[e]
    BY <2>2 DEF Records
  <2> HIDE DEF f
  <2> QED
    BY <1>2, <2>2, <2>3, <2>4, AttemptsTyped
<1>10. CASE RetryFallsDue(e)
  <2> DEFINE f == [file[e] EXCEPT !.retry = "due"]
  <2>1. file[e] \in Records /\ file[e].retention # "PURGED"
    BY <1>4, <1>10 DEF RetryFallsDue, RecordSound, Records
  <2>2. f \in Records /\ file' = [file EXCEPT ![e] = f]
    BY <1>10, <2>1, ExpiredTyped DEF RetryFallsDue, TypeOK
  <2>3. /\ f.digest = file[e].digest
        /\ f.attempts = file[e].attempts
        /\ f.status = file[e].status
    BY <2>1 DEF Records
  <2> HIDE DEF f
  <2> QED
    BY <1>2, <2>1, <2>2, <2>3, AttemptsTyped
<1>11. CASE TaskThrows(e) \/ FailArtifact(e) \/ FailRemoval(e) \/ ReadStatus(e)
              \/ LifetimePasses(e) \/ CreateArtifact(e) \/ CompareArtifact(e)
              \/ WriteArtifact(e) \/ RemoveArtifact(e)
  BY <1>1, <1>11 DEF TaskThrows, FailArtifact, FailRemoval, ReadStatus, LifetimePasses,
                     CreateArtifact, CompareArtifact, WriteArtifact, RemoveArtifact, disk
<1>12. CASE \/ PrepareAttempt(e) /\ ~Startable(file[e])
            \/ ExpireArtifact(e) /\ ~(file[e].status = "DELIVERED" /\ lapsed[e])
  BY <1>1, <1>12 DEF PrepareAttempt, ExpireArtifact
<1> QED
  BY <1>5, <1>6, <1>7, <1>8, <1>9, <1>10, <1>11, <1>12 DEF TaskStep

\* What the worker, the clock and the process do leaves the records alone.
LEMMA OthersMoveNothing ==
    ASSUME TypeOK, WorkerStep \/ Quiesce \/ Teardown \/ Crash \/ Boot \/ UNCHANGED vars
    PROVE  RecordsMove /\ OnlyRecordsMove
<1>1. UNCHANGED file
  BY DEF WorkerStep, ScanExports, EndRound, WakeWorker, WorkItem, Quiesce, Teardown, Crash,
         Gone, Boot, vars, disk
<1> QED
  BY <1>1, AttemptsTyped DEF RecordsMove, OnlyRecordsMove

LEMMA CallsMoveNoRecord ==
    ASSUME TypeOK, CallsHold, NEW c \in Calls,
           \/ \E e \in Exports, d \in Digests : VerifyRequest(c, e, d)
           \/ CallStep(c) \/ FailCreate(c)
    PROVE  RecordsMove
<1>1. CASE UNCHANGED file
  BY <1>1, AttemptsTyped DEF RecordsMove
<1>2. ASSUME NEW e \in Exports, NEW f, file[e] \notin Records, file' = [file EXCEPT ![e] = f]
      PROVE  RecordsMove
  <2>1. \A x \in Exports : file[x] \in Records => file'[x] = file[x]
    BY <1>2 DEF TypeOK
  <2> QED
    BY <2>1, AttemptsTyped DEF RecordsMove
<1>3. CASE CreateRecord(c) /\ ~ UNCHANGED file
  <2>1. call[c].export \in Exports
    BY <1>3, NotIdle, CallTyped DEF CreateRecord
  <2> QED
    BY <1>2, <1>3, <2>1, UnreadableTyped DEF CreateRecord
<1>4. CASE (CommitRecord(c) \/ FailCreate(c)) /\ ~ UNCHANGED file
  <2>1. call[c].pc = "creating" /\ call[c].export \in Exports
    BY <1>4, NotIdle, CallTyped DEF CommitRecord, FailCreate
  <2> QED
    BY <1>2, <1>4, <2>1, UnreadableTyped DEF CommitRecord, FailCreate, CallsHold
<1>5. CASE ReadExisting(c) \/ \E e \in Exports, d \in Digests : VerifyRequest(c, e, d)
  BY <1>1, <1>5 DEF ReadExisting, VerifyRequest, disk
<1> QED
  BY <1>1, <1>3, <1>4, <1>5 DEF CallStep

LEMMA RecordsKept ==
    ASSUME TypeOK, ExportsSound, CallsHold, [Next]_vars
    PROVE  RecordsMove
BY TasksMoveRecords, OthersMoveNothing, CallsMoveNoRecord DEF Next

-----------------------------------------------------------------------------
(* Callers and their tasks. *)

\* What the caller of each task is told when a chain of tasks is left alone, or
\* its first task takes a step: nothing.
LEMMA SameCallers ==
    ASSUME TypeOK, CallersWait,
           \A e \in Exports : /\ Len(chain'[e]) = Len(chain[e])
                              /\ \A i \in 1 .. Len(chain[e]) : chain'[e][i].by = chain[e][i].by,
           \A c \in Calls : call[c].pc = "delivering" => call'[c] = call[c]
    PROVE  CallersWait'
BY DEF CallersWait

LEMMA StepCallers ==
    ASSUME TypeOK, CallersWait, NEW e \in Exports, chain[e] # <<>>, UNCHANGED call,
           \/ \E pc \in {"attempting", "writing", "written", "failing", "purging"} : Step(e, pc)
           \/ \E code \in {"SOURCE_SUBMISSION_UNAVAILABLE", "ARTIFACT_IO_ERROR",
                            "ARTIFACT_INTEGRITY_CONFLICT"} : StepFailing(e, code)
    PROVE  CallersWait'
<1>1. chain[e][1] \in Tasks
  BY RunningTyped
<1>2. /\ \A x \in Exports : x # e => chain'[x] = chain[x]
      /\ Len(chain'[e]) = Len(chain[e])
      /\ Len(chain[e]) \in Nat
      /\ \A i \in 2 .. Len(chain[e]) : chain'[e][i] = chain[e][i]
  <2>1. Len(chain[e]) \in Nat
    BY DEF TypeOK
  <2>2. CASE \E pc \in {"attempting", "writing", "written", "failing", "purging"} : Step(e, pc)
    BY <2>1, <2>2, Stepped
  <2>3. CASE \E code \in {"SOURCE_SUBMISSION_UNAVAILABLE", "ARTIFACT_IO_ERROR",
                           "ARTIFACT_INTEGRITY_CONFLICT"} : StepFailing(e, code)
    BY <2>1, <2>3, SteppedFailing
  <2> QED
    BY <2>2, <2>3
<1>3. chain'[e][1].by = chain[e][1].by
  <2>1. CASE \E pc \in {"attempting", "writing", "written", "failing", "purging"} : Step(e, pc)
    <3>1. PICK pc : chain'[e][1] = [chain[e][1] EXCEPT !.pc = pc]
      BY <2>1, Stepped
    <3> QED
      BY <1>1, <3>1 DEF Tasks
  <2>2. CASE \E code \in {"SOURCE_SUBMISSION_UNAVAILABLE", "ARTIFACT_IO_ERROR",
                          "ARTIFACT_INTEGRITY_CONFLICT"} : StepFailing(e, code)
    <3>1. PICK code : chain'[e][1] = [chain[e][1] EXCEPT !.pc = "failing", !.code = code]
      BY <2>2, SteppedFailing
    <3> QED
      BY <1>1, <3>1 DEF Tasks
  <2> QED
    BY <2>1, <2>2
<1>4. \A i \in 1 .. Len(chain[e]) : i = 1 \/ i \in 2 .. Len(chain[e])
  BY <1>2
<1>5. \A x \in Exports : /\ Len(chain'[x]) = Len(chain[x])
                         /\ \A i \in 1 .. Len(chain[x]) : chain'[x][i].by = chain[x][i].by
  <2>1. \A i \in 1 .. Len(chain[e]) : chain'[e][i].by = chain[e][i].by
    <3>1. SUFFICES ASSUME NEW i \in 1 .. Len(chain[e])
                   PROVE  chain'[e][i].by = chain[e][i].by
      OBVIOUS
    <3>2. CASE i = 1
      BY <1>3, <3>2
    <3>3. CASE i \in 2 .. Len(chain[e])
      BY <1>2, <3>3
    <3> QED
      BY <1>4, <3>2, <3>3
  <2> QED
    BY <1>2, <2>1
<1> QED
  BY <1>5, SameCallers

\* The first task of a chain is over, and its caller is free.
LEMMA TailCallers ==
    ASSUME TypeOK, CallersWait, NEW e \in Exports, chain[e] # <<>>,
           chain' = [chain EXCEPT ![e] = Tail(@)],
           call' = IF Running(e).by \in Calls THEN [call EXCEPT ![Running(e).by] = Idle]
                   ELSE call
    PROVE  CallersWait'
<1>1. /\ \A x \in Exports : x # e => chain'[x] = chain[x]
      /\ Len(chain[e]) = Len(chain'[e]) + 1
      /\ Len(chain'[e]) \in Nat
      /\ \A i \in 1 .. Len(chain'[e]) : chain'[e][i] = chain[e][i + 1]
      /\ Running(e) = chain[e][1]
  BY HeadGone DEF TypeOK, Running
<1>2. \A c \in Calls : c # chain[e][1].by => call'[c] = call[c]
  BY <1>1 DEF TypeOK
<1>3. SUFFICES ASSUME NEW x \in Exports, NEW c \in Calls, NEW i \in 1 .. Len(chain'[x]),
                      chain'[x][i].by = c
               PROVE  /\ call'[c].pc = "delivering"
                      /\ call'[c].export = x
                      /\ \A j \in 1 .. Len(chain'[x]) : chain'[x][j].by = c => j = i
  BY <1>3 DEF CallersWait
<1>4. 1 \in 1 .. Len(chain[e])
  BY <1>1
<1>5. CASE x = e
  <2>1. i + 1 \in 1 .. Len(chain[e]) /\ chain[e][i + 1].by = c /\ i \in Nat /\ i + 1 # 1
    BY <1>1, <1>3, <1>5
  <2>2. /\ call[c].pc = "delivering"
        /\ call[c].export = e
        /\ \A j \in 1 .. Len(chain[e]) : chain[e][j].by = c => j = i + 1
    BY <2>1 DEF CallersWait
  <2>3. chain[e][1].by # c
    BY <1>4, <2>1, <2>2
  <2>4. ASSUME NEW j \in 1 .. Len(chain'[e]), chain'[e][j].by = c
        PROVE  j = i
    <3>1. j + 1 \in 1 .. Len(chain[e]) /\ chain[e][j + 1].by = c /\ j \in Nat
      BY <1>1, <2>4
    <3>2. j + 1 = i + 1
      BY <2>2, <3>1
    <3> QED
      BY <2>1, <3>1, <3>2
  <2> QED
    BY <1>2, <1>5, <2>2, <2>3, <2>4
<1>6. CASE x # e
  <2>1. /\ call[c].pc = "delivering"
        /\ call[c].export = x
        /\ \A j \in 1 .. Len(chain[x]) : chain[x][j].by = c => j = i
    BY <1>1, <1>3, <1>6 DEF CallersWait
  <2>2. chain[e][1].by # c
    BY <1>4, <1>6, <2>1 DEF CallersWait
  <2> QED
    BY <1>1, <1>2, <1>6, <2>1, <2>2
<1> QED
  BY <1>5, <1>6

\* A task joins a chain: its caller, if it is a call, had none and waits for it.
LEMMA EnqueueCallers ==
    ASSUME TypeOK, CallersWait, NEW e \in Exports, NEW kind \in TaskKinds, NEW by \in Clients,
           Enqueue(e, kind, by),
           \A c \in Calls \ {by} : call'[c] = call[c],
           by \in Calls => /\ call[by].pc # "delivering"
                          /\ call'[by].pc = "delivering"
                          /\ call'[by].export = e
    PROVE  CallersWait'
<1>1. /\ \A x \in Exports : x # e => chain'[x] = chain[x]
      /\ Len(chain'[e]) = Len(chain[e]) + 1
      /\ Len(chain[e]) \in Nat
      /\ \A i \in 1 .. Len(chain[e]) : chain'[e][i] = chain[e][i]
      /\ chain'[e][Len(chain[e]) + 1] = TaskBy(kind, by)
  BY Enqueued DEF TypeOK
<1>2. TaskBy(kind, by).by = by
  BY DEF TaskBy
<1>3. SUFFICES ASSUME NEW x \in Exports, NEW c \in Calls, NEW i \in 1 .. Len(chain'[x]),
                      chain'[x][i].by = c
               PROVE  /\ call'[c].pc = "delivering"
                      /\ call'[c].export = x
                      /\ \A j \in 1 .. Len(chain'[x]) : chain'[x][j].by = c => j = i
  BY <1>3 DEF CallersWait
<1>4. \A i2 \in 1 .. Len(chain'[e]) :
        i2 \in 1 .. Len(chain[e]) \/ i2 = Len(chain[e]) + 1
  BY <1>1
<1>5. CASE c = by
  <2>1. \A y \in Exports : \A j \in 1 .. Len(chain[y]) : chain[y][j].by # by
    BY <1>5 DEF CallersWait
  <2>2. x = e
    BY <1>1, <1>3, <1>5, <2>1
  <2>3. \A j \in 1 .. Len(chain'[e]) : chain'[e][j].by = by => j = Len(chain[e]) + 1
    BY <1>1, <1>4, <2>1
  <2> QED
    BY <1>3, <1>5, <2>2, <2>3
<1>6. CASE c # by
  <2>1. i \in 1 .. Len(chain[x]) /\ chain[x][i].by = c
    <3>1. CASE x = e
      <4>1. i # Len(chain[e]) + 1
        BY <1>1, <1>2, <1>3, <1>6, <3>1
      <4>2. i \in 1 .. Len(chain[e])
        BY <1>3, <1>4, <3>1, <4>1
      <4> QED
        BY <1>1, <1>3, <3>1, <4>2
    <3>2. CASE x # e
      BY <1>1, <1>3, <3>2
    <3> QED
      BY <3>1, <3>2
  <2>2. /\ call[c].pc = "delivering"
        /\ call[c].export = x
        /\ \A j \in 1 .. Len(chain[x]) : chain[x][j].by = c => j = i
    BY <2>1 DEF CallersWait
  <2>3. \A j \in 1 .. Len(chain'[x]) : chain'[x][j].by = c =>
          j \in 1 .. Len(chain[x]) /\ chain[x][j].by = c
    BY <1>1, <1>2, <1>4, <1>6
  <2> QED
    BY <1>6, <2>2, <2>3
<1> QED
  BY <1>5, <1>6

LEMMA CallersKept ==
    ASSUME TypeOK, ExportsSound, CallersWait, [Next]_vars
    PROVE  CallersWait'
<1>1. ASSUME NEW c \in Calls, ReadExisting(c)
      PROVE  CallersWait'
  <2> DEFINE e == call[c].export
  <2>1. /\ call[c] # Idle
        /\ e \in Exports
        /\ call[c].pc # "delivering"
        /\ call[c] \in [pc: CallSteps \ {"idle"}, export: Exports, digest: Digests]
    BY <1>1, NotIdle, CallTyped DEF ReadExisting
  <2> HIDE DEF e
  <2>2. CASE UNCHANGED chain /\ \A d \in Calls : d # c => call'[d] = call[d]
    BY <2>1, <2>2, SameCallers
  <2>3. CASE call' = [call EXCEPT ![c].pc = "delivering"] /\ Enqueue(e, "deliver", c)
    <3>1. /\ call'[c].pc = "delivering"
          /\ call'[c].export = call[c].export
          /\ \A d \in Calls : d # c => call'[d] = call[d]
      BY <2>1, <2>3 DEF TypeOK
    <3>2. "deliver" \in TaskKinds /\ c \in Clients
      BY DEF TaskKinds, Clients
    <3>3. call'[c].export = e
      BY <3>1 DEF e
    <3> QED
      BY <2>1, <2>3, <3>1, <3>2, <3>3, EnqueueCallers
  <2>4. \/ UNCHANGED chain /\ \E r : call' = [call EXCEPT ![c] = r]
        \/ call' = [call EXCEPT ![c].pc = "delivering"] /\ Enqueue(e, "deliver", c)
    BY <1>1 DEF ReadExisting, Replay, e
  <2> QED
    BY <2>2, <2>3, <2>4 DEF TypeOK
<1>2. ASSUME NEW c \in Calls, CommitRecord(c)
      PROVE  CallersWait'
  <2> DEFINE e == call[c].export
  <2>1. /\ call[c] # Idle
        /\ e \in Exports
        /\ call[c].pc # "delivering"
        /\ call[c] \in [pc: CallSteps \ {"idle"}, export: Exports, digest: Digests]
    BY <1>2, NotIdle, CallTyped DEF CommitRecord
  <2>2. call' = [call EXCEPT ![c].pc = "delivering"] /\ Enqueue(e, "deliver", c)
    BY <1>2 DEF CommitRecord
  <2>3. /\ call'[c].pc = "delivering"
        /\ call'[c].export = e
        /\ \A d \in Calls : d # c => call'[d] = call[d]
    BY <2>1, <2>2 DEF TypeOK
  <2>4. "deliver" \in TaskKinds /\ c \in Clients
    BY DEF TaskKinds, Clients
  <2> HIDE DEF e
  <2> QED
    BY <2>1, <2>2, <2>3, <2>4, EnqueueCallers
<1>3. ASSUME NEW c \in Calls,
             \/ \E e \in Exports, d \in Digests : VerifyRequest(c, e, d)
             \/ CreateRecord(c) \/ FailCreate(c)
      PROVE  CallersWait'
  <2>1. UNCHANGED chain /\ call[c].pc # "delivering"
    BY <1>3 DEF VerifyRequest, CreateRecord, FailCreate, Idle
  <2>2. \E r : call' = [call EXCEPT ![c] = r]
    BY <1>3 DEF VerifyRequest, CreateRecord, FailCreate
  <2> QED
    BY <2>1, <2>2, SameCallers DEF TypeOK
<1>4. ASSUME NEW e \in Exports, chain[e] # <<>>, End(e)
      PROVE  CallersWait'
  BY <1>4, TailCallers DEF End
<1>5. ASSUME NEW e \in Exports,
             \/ RecordDelivered(e) \/ FailAttempt(e) \/ RecordPurged(e) \/ FailRemoval(e)
             \/ PrepareAttempt(e) /\ ~Startable(file[e])
             \/ ExpireArtifact(e) /\ End(e)
      PROVE  CallersWait'
  <2>1. chain[e] # <<>> /\ End(e)
    BY <1>5 DEF RecordDelivered, FailAttempt, RecordPurged, FailRemoval, PrepareAttempt,
                ExpireArtifact, Runs
  <2> QED
    BY <1>4, <2>1
<1>6. ASSUME NEW e \in Exports,
             \/ CreateArtifact(e) \/ CompareArtifact(e) \/ WriteArtifact(e) \/ FailArtifact(e)
             \/ RemoveArtifact(e)
             \/ PrepareAttempt(e) /\ Startable(file[e])
             \/ ExpireArtifact(e) /\ ~End(e)
      PROVE  CallersWait'
  <2>1. chain[e] # <<>> /\ UNCHANGED call
    BY <1>6 DEF CreateArtifact, CompareArtifact, WriteArtifact, FailArtifact, RemoveArtifact,
                PrepareAttempt, ExpireArtifact, Runs
  <2>2. \/ \E pc \in {"attempting", "writing", "written", "failing", "purging"} : Step(e, pc)
        \/ \E code \in {"SOURCE_SUBMISSION_UNAVAILABLE", "ARTIFACT_IO_ERROR",
                         "ARTIFACT_INTEGRITY_CONFLICT"} : StepFailing(e, code)
    BY <1>6 DEF CreateArtifact, CompareArtifact, WriteArtifact, FailArtifact, RemoveArtifact,
                PrepareAttempt, ExpireArtifact
  <2> QED
    BY <2>1, <2>2, StepCallers
<1>7. ASSUME NEW e \in Exports, TaskThrows(e)
      PROVE  CallersWait'
  BY <1>7, TailCallers DEF TaskThrows
<1>8. ASSUME NEW e \in Exports, ReadStatus(e) \/ WorkItem(e)
      PROVE  CallersWait'
  <2>1. PICK kind \in TaskKinds : \E by \in {"worker", "reader"} : Enqueue(e, kind, by)
    <3>1. \A item \in worker.todo : item[1] \in TaskKinds
      BY DEF TypeOK, TaskKinds
    <3> QED
      BY <1>8, <3>1 DEF ReadStatus, WorkItem, TaskKinds
  <2>2. UNCHANGED call
    BY <1>8 DEF ReadStatus, WorkItem
  <2> QED
    BY <2>1, <2>2, EnqueueCallers, CallsAssumption DEF Clients
<1>9. CASE Teardown \/ Crash
  BY <1>9 DEF Teardown, Crash, Gone, CallersWait
<1>10. CASE \/ \E e \in Exports : LifetimePasses(e) \/ RetryFallsDue(e)
            \/ ScanExports \/ EndRound \/ WakeWorker \/ Quiesce \/ Boot \/ UNCHANGED vars
  <2>1. UNCHANGED <<chain, call>>
    BY <1>10 DEF LifetimePasses, RetryFallsDue, ScanExports, EndRound, WakeWorker, Quiesce,
                 Boot, vars
  <2> QED
    BY <2>1, SameCallers
<1> QED
  BY <1>1, <1>2, <1>3, <1>5, <1>6, <1>7, <1>8, <1>9, <1>10
  DEF Next, CallStep, TaskStep, WorkerStep

-----------------------------------------------------------------------------
(* Calls, the worker's round and the receipts. *)

\* Calls that go on or end keep what they hold when the records only move forward.
LEMMA CallsGoOn ==
    ASSUME TypeOK, CallsHold, RecordsMove, OnlyRecordsMove,
           \A c \in Calls : call'[c] = call[c] \/ call'[c] = Idle
    PROVE  CallsHold'
<1>1. \A c \in Calls : call'[c].pc \in {"delivering", "creating"} => call'[c] = call[c]
  BY DEF Idle
<1>2. \A c \in Calls : call[c].pc \in {"delivering", "creating"} => call[c].export \in Exports
  BY NotIdle, CallTyped
<1>3. SUFFICES ASSUME NEW c \in Calls
               PROVE  /\ call'[c].pc = "delivering" =>
                           /\ file'[call'[c].export] \in Records
                           /\ file'[call'[c].export].digest = call'[c].digest
                      /\ call'[c].pc = "creating" =>
                           /\ file'[call'[c].export] = Torn
                           /\ \A d \in Calls :
                                call'[d].pc = "creating" /\ call'[d].export = call'[c].export
                                  => d = c
  BY <1>3 DEF CallsHold
<1>4. CASE call'[c].pc = "delivering"
  BY <1>1, <1>2, <1>4 DEF CallsHold, RecordsMove
<1>5. CASE call'[c].pc = "creating"
  <2>1. call'[c] = call[c] /\ file[call[c].export] = Torn /\ call[c].export \in Exports
    BY <1>1, <1>2, <1>5 DEF CallsHold
  <2>2. file'[call[c].export] = Torn
    BY <2>1, UnreadableTyped DEF OnlyRecordsMove
  <2>3. \A d \in Calls : call'[d].pc = "creating" /\ call'[d].export = call'[c].export => d = c
    BY <1>1, <1>5, <2>1 DEF CallsHold
  <2> QED
    BY <1>5, <2>1, <2>2, <2>3
<1> QED
  BY <1>4, <1>5

\* A task's step ends no call but its caller.
LEMMA TasksEndCalls ==
    ASSUME TypeOK, NEW e \in Exports,
           TaskStep(e) \/ TaskThrows(e) \/ FailArtifact(e) \/ FailRemoval(e)
             \/ ReadStatus(e) \/ RetryFallsDue(e) \/ LifetimePasses(e)
    PROVE  \A c \in Calls : call'[c] = call[c] \/ call'[c] = Idle
<1>1. UNCHANGED call \/ \E by \in Calls : call' = [call EXCEPT ![by] = Idle]
  BY DEF TaskStep, TaskThrows, FailArtifact, FailRemoval, ReadStatus, RetryFallsDue,
         LifetimePasses, PrepareAttempt, CreateArtifact, CompareArtifact, WriteArtifact,
         RecordDelivered, FailAttempt, ExpireArtifact, RemoveArtifact, RecordPurged, End
<1> QED
  BY <1>1 DEF TypeOK

LEMMA CallsKept ==
    ASSUME TypeOK, ExportsSound, CallsHold, [Next]_vars
    PROVE  CallsHold'
<1>1. RecordsMove
  BY RecordsKept
<1>2. ASSUME NEW e \in Exports,
             TaskStep(e) \/ TaskThrows(e) \/ FailArtifact(e) \/ FailRemoval(e)
               \/ ReadStatus(e) \/ RetryFallsDue(e) \/ LifetimePasses(e)
      PROVE  CallsHold'
  BY <1>2, TasksMoveRecords, TasksEndCalls, CallsGoOn
<1>3. CASE WorkerStep \/ Quiesce \/ Teardown \/ Crash \/ Boot \/ UNCHANGED vars
  <2>1. \A c \in Calls : call'[c] = call[c] \/ call'[c] = Idle
    BY <1>3 DEF WorkerStep, ScanExports, EndRound, WakeWorker, WorkItem, Quiesce, Teardown,
                Crash, Gone, Boot, vars
  <2> QED
    BY <1>3, <2>1, OthersMoveNothing, CallsGoOn
<1>4. ASSUME NEW c \in Calls, NEW e \in Exports, NEW r,
             call' = [call EXCEPT ![c] = r], \A x \in Exports : x # e => file'[x] = file[x],
             file'[e] = file[e] \/ \A d \in Calls \ {c} : call[d].pc \in {"delivering", "creating"}
                                                        => call[d].export # e,
             r.pc \in {"delivering", "creating"} => r.export = e,
             r.pc = "delivering" => file'[e] \in Records /\ file'[e].digest = r.digest,
             r.pc = "creating" => /\ file'[e] = Torn
                                  /\ \A d \in Calls \ {c} :
                                       call[d].pc = "creating" => call[d].export # e
      PROVE  CallsHold'
  <2>1. call'[c] = r /\ \A d \in Calls : d # c => call'[d] = call[d]
    BY <1>4 DEF TypeOK
  <2>2. \A d \in Calls : call[d].pc \in {"delivering", "creating"} => call[d].export \in Exports
    BY NotIdle, CallTyped
  <2>3. \A d \in Calls \ {c} : call[d].pc \in {"delivering", "creating"}
                              => file'[call[d].export] = file[call[d].export]
    BY <1>4, <2>2
  <2>4. SUFFICES ASSUME NEW d \in Calls
                 PROVE  /\ call'[d].pc = "delivering" =>
                             /\ file'[call'[d].export] \in Records
                             /\ file'[call'[d].export].digest = call'[d].digest
                        /\ call'[d].pc = "creating" =>
                             /\ file'[call'[d].export] = Torn
                             /\ \A other \in Calls :
                                  /\ call'[other].pc = "creating"
                                  /\ call'[other].export = call'[d].export
                                  => other = d
    BY <2>4 DEF CallsHold
  <2>5. CASE d = c
    BY <1>4, <2>1, <2>5
  <2>6. CASE d # c
    <3>1. call'[d] = call[d]
      BY <2>1, <2>6
    <3>2. CASE call[d].pc = "delivering"
      BY <2>3, <2>6, <3>1, <3>2 DEF CallsHold
    <3>3. CASE call[d].pc = "creating"
      <4>1. file'[call[d].export] = Torn
        BY <2>3, <2>6, <3>3 DEF CallsHold
      <4>2. ASSUME NEW other \in Calls, call'[other].pc = "creating",
                   call'[other].export = call[d].export
            PROVE  other = d
        <5>1. CASE other = c
          BY <1>4, <2>1, <2>6, <3>3, <4>2, <5>1
        <5>2. CASE other # c
          BY <2>1, <3>3, <4>2, <5>2 DEF CallsHold
        <5> QED
          BY <5>1, <5>2
      <4> QED
        BY <3>1, <3>3, <4>1, <4>2
    <3> QED
      BY <3>1, <3>2, <3>3
  <2> QED
    BY <2>5, <2>6
<1>5. ASSUME NEW c \in Calls, NEW e \in Exports, NEW d \in Digests, VerifyRequest(c, e, d)
      PROVE  CallsHold'
  <2>1. call' = [call EXCEPT ![c] = [pc |-> "verified", export |-> e, digest |-> d]]
        /\ UNCHANGED file
    BY <1>5 DEF VerifyRequest, disk
  <2> QED
    BY <1>4, <2>1
<1>6. ASSUME NEW c \in Calls, call[c] # Idle
      PROVE  /\ call[c].export \in Exports
             /\ \A pc \in {"absent", "lost", "delivering", "creating"} :
                  LET r == [call[c] EXCEPT !.pc = pc]
                  IN  /\ r.pc = pc
                      /\ r.export = call[c].export
                      /\ r.digest = call[c].digest
                      /\ \A f : f = [call EXCEPT ![c].pc = pc] => f = [call EXCEPT ![c] = r]
  <2>1. call[c] \in [pc: CallSteps \ {"idle"}, export: Exports, digest: Digests]
    BY <1>6, CallTyped
  <2> QED
    BY <2>1
<1>7. ASSUME NEW c \in Calls, call[c] # Idle, UNCHANGED file,
             \/ call' = [call EXCEPT ![c] = Idle]
             \/ call' = [call EXCEPT ![c].pc = "absent"]
             \/ call' = [call EXCEPT ![c].pc = "lost"]
             \/ /\ call' = [call EXCEPT ![c].pc = "delivering"]
                /\ file[call[c].export] \in Records
                /\ file[call[c].export].digest = call[c].digest
      PROVE  CallsHold'
  <2> DEFINE e == call[c].export
  <2>1. e \in Exports
    BY <1>6, <1>7
  <2>2. CASE call' = [call EXCEPT ![c] = Idle]
    <3>1. Idle.pc = "idle"
      BY DEF Idle
    <3> QED
      BY <1>4, <1>7, <2>1, <2>2, <3>1
  <2>3. CASE call' = [call EXCEPT ![c].pc = "absent"] \/ call' = [call EXCEPT ![c].pc = "lost"]
    <3>1. PICK pc \in {"absent", "lost"} : call' = [call EXCEPT ![c].pc = pc]
      BY <2>3
    <3> DEFINE r == [call[c] EXCEPT !.pc = pc]
    <3>2. r.pc = pc /\ call' = [call EXCEPT ![c] = r]
      BY <1>6, <1>7, <3>1
    <3> HIDE DEF r
    <3> QED
      BY <1>4, <1>7, <2>1, <3>2
  <2>4. CASE /\ call' = [call EXCEPT ![c].pc = "delivering"]
             /\ file[e] \in Records
             /\ file[e].digest = call[c].digest
    <3> DEFINE r == [call[c] EXCEPT !.pc = "delivering"]
    <3>1. /\ r.pc = "delivering"
          /\ r.export = e
          /\ r.digest = call[c].digest
          /\ call' = [call EXCEPT ![c] = r]
      BY <1>6, <1>7, <2>4
    <3>2. /\ \A x \in Exports : file'[x] = file[x]
          /\ file'[e] \in Records
          /\ file'[e].digest = r.digest
      BY <1>7, <2>4, <3>1
    <3> HIDE DEF r, e
    <3> QED
      BY <1>4, <2>1, <3>1, <3>2
  <2> QED
    BY <1>7, <2>2, <2>3, <2>4
<1>8. ASSUME NEW c \in Calls, ReadExisting(c)
      PROVE  CallsHold'
  <2>1. call[c] # Idle /\ UNCHANGED file
    BY <1>8, NotIdle DEF ReadExisting, disk
  <2> QED
    BY <1>7, <1>8, <2>1 DEF ReadExisting, Replay
<1>9. ASSUME NEW c \in Calls, CreateRecord(c)
      PROVE  CallsHold'
  <2> DEFINE e == call[c].export
             r == [call[c] EXCEPT !.pc = "creating"]
  <2>1. call[c] # Idle
    BY <1>9, NotIdle DEF CreateRecord
  <2>2. CASE UNCHANGED file /\ call' = [call EXCEPT ![c].pc = "lost"]
    BY <1>7, <2>1, <2>2
  <2>3. CASE /\ file[e] = Absent
             /\ file' = [file EXCEPT ![e] = Torn]
             /\ call' = [call EXCEPT ![c].pc = "creating"]
    <3>1. /\ e \in Exports
          /\ r.pc = "creating"
          /\ r.export = e
          /\ call' = [call EXCEPT ![c] = r]
      BY <1>6, <2>1, <2>3
    <3>2. file'[e] = Torn /\ \A x \in Exports : x # e => file'[x] = file[x]
      BY <2>3, <3>1 DEF TypeOK
    <3>3. \A d \in Calls : call[d].pc \in {"delivering", "creating"} => call[d].export # e
      BY <2>3, UnreadableTyped DEF CallsHold
    <3> HIDE DEF e, r
    <3>4. \A d \in Calls \ {c} : call[d].pc \in {"delivering", "creating"} => call[d].export # e
      BY <3>3
    <3>5. r.pc = "creating" => /\ file'[e] = Torn
                               /\ \A d \in Calls \ {c} :
                                    call[d].pc = "creating" => call[d].export # e
      BY <3>2, <3>4
    <3>6. /\ r.pc \in {"delivering", "creating"} => r.export = e
          /\ r.pc = "delivering" => file'[e] \in Records /\ file'[e].digest = r.digest
      BY <3>1
    <3>7. e \in Exports /\ call' = [call EXCEPT ![c] = r]
      BY <3>1
    <3>8. \A x \in Exports : x # e => file'[x] = file[x]
      BY <3>2
    <3> QED
      BY <1>4, <3>4, <3>5, <3>6, <3>7, <3>8
  <2> QED
    BY <1>9, <2>2, <2>3 DEF CreateRecord
<1>10. ASSUME NEW c \in Calls, CommitRecord(c) \/ FailCreate(c)
       PROVE  CallsHold'
  <2> DEFINE e == call[c].export
             r == [call[c] EXCEPT !.pc = "delivering"]
  <2>1. call[c] # Idle
    BY <1>10, NotIdle DEF CommitRecord, FailCreate
  <2>2. CASE UNCHANGED file /\ call' = [call EXCEPT ![c] = Idle]
    BY <1>7, <2>1, <2>2
  <2>3. CASE /\ call[c].pc = "creating"
             /\ file' = [file EXCEPT ![e] = Accepted(call[c].digest)]
             /\ \/ call' = [call EXCEPT ![c].pc = "delivering"]
                \/ call' = [call EXCEPT ![c] = Idle]
    <3>1. e \in Exports /\ Accepted(call[c].digest) \in Records
      BY <2>1, CallTyped, AcceptedTyped
    <3>2. file'[e] = Accepted(call[c].digest) /\ \A x \in Exports : x # e => file'[x] = file[x]
      BY <2>3, <3>1 DEF TypeOK
    <3>3. Accepted(call[c].digest).digest = call[c].digest
      BY DEF Accepted
    <3>4. \A d \in Calls \ {c} : call[d].pc \in {"delivering", "creating"} => call[d].export # e
      BY <2>3, UnreadableTyped DEF CallsHold
    <3>5. /\ r.pc = "delivering"
          /\ r.export = e
          /\ r.digest = call[c].digest
          /\ call' = [call EXCEPT ![c].pc = "delivering"] => call' = [call EXCEPT ![c] = r]
      BY <1>6, <2>1
    <3>6. Idle.pc = "idle"
      BY DEF Idle
    <3> HIDE DEF e, r
    <3>7. \A x \in Exports : x # e => file'[x] = file[x]
      BY <3>2
    <3>8. CASE call' = [call EXCEPT ![c] = r]
      <4>1. /\ r.pc \in {"delivering", "creating"} => r.export = e
            /\ r.pc = "delivering" => file'[e] \in Records /\ file'[e].digest = r.digest
        BY <3>1, <3>2, <3>3, <3>5
      <4>2. r.pc # "creating"
        BY <3>5
      <4> QED
        BY <1>4, <3>1, <3>4, <3>7, <3>8, <4>1, <4>2
    <3>9. CASE call' = [call EXCEPT ![c] = Idle]
      BY <1>4, <3>1, <3>4, <3>6, <3>7, <3>9
    <3> QED
      BY <2>3, <3>5, <3>8, <3>9
  <2> QED
    BY <1>10, <2>2, <2>3 DEF CommitRecord, FailCreate
<1> QED
  BY <1>2, <1>3, <1>5, <1>8, <1>9, <1>10 DEF Next, CallStep

LEMMA ItemsKept ==
    ASSUME TypeOK, ItemsHold, RecordsMove, [Next]_vars
    PROVE  ItemsHold'
<1>1. CASE worker'.todo \subseteq worker.todo
  BY <1>1 DEF ItemsHold, RecordsMove, TypeOK
<1>2. CASE ScanExports
  <2>1. \A e \in Recoverable \cup Expirable : file[e] \in Records
    <3>1. \A e \in Recoverable \cup Expirable : e \in Exports /\ file[e] # Absent /\ file[e] # Torn
      BY DEF Recoverable, Expirable, Absent, Torn
    <3> QED
      BY <3>1 DEF TypeOK
  <2>2. UNCHANGED file
    BY <1>2 DEF ScanExports, disk
  <2>3. \A item \in worker'.todo : item[2] \in Recoverable \cup Expirable
    BY <1>2 DEF ScanExports
  <2> QED
    BY <2>1, <2>2, <2>3 DEF ItemsHold
<1>3. ASSUME ~ ScanExports
      PROVE  worker'.todo \subseteq worker.todo
  <2>1. ASSUME NEW c \in Calls,
               \/ \E e \in Exports, d \in Digests : VerifyRequest(c, e, d)
               \/ CallStep(c) \/ FailCreate(c)
        PROVE  worker' = worker
    BY <2>1 DEF VerifyRequest, CallStep, ReadExisting, CreateRecord, CommitRecord, FailCreate
  <2>2. ASSUME NEW e \in Exports,
               TaskStep(e) \/ FailArtifact(e) \/ FailRemoval(e)
                 \/ ReadStatus(e) \/ RetryFallsDue(e) \/ LifetimePasses(e)
        PROVE  worker' = worker \/ worker' = [worker EXCEPT !.pc = "working"]
    BY <2>2 DEF TaskStep, FailArtifact, FailRemoval, ReadStatus, RetryFallsDue,
                LifetimePasses, PrepareAttempt, CreateArtifact, CompareArtifact, WriteArtifact,
                RecordDelivered, FailAttempt, ExpireArtifact, RemoveArtifact, RecordPurged, End
  <2>3. ASSUME NEW e \in Exports, TaskThrows(e)
        PROVE  worker' = worker \/ worker'.todo = {}
    BY <2>3 DEF TaskThrows
  <2>4. ASSUME NEW e \in Exports, WorkItem(e)
        PROVE  worker'.todo \subseteq worker.todo
    BY <2>4 DEF WorkItem
  <2>5. CASE EndRound \/ WakeWorker \/ Quiesce \/ Teardown \/ Crash \/ Boot \/ UNCHANGED vars
    <3>1. worker' = worker \/ worker'.todo = {} \/ worker' = [worker EXCEPT !.pc = "scanning"]
      BY <2>5 DEF EndRound, WakeWorker, Quiesce, Teardown, Crash, Gone, Boot, vars
    <3> QED
      BY <3>1 DEF TypeOK
  <2>6. worker.todo \subseteq worker.todo /\ [worker EXCEPT !.pc = "working"].todo = worker.todo
    BY DEF TypeOK
  <2> QED
    BY <1>3, <2>1, <2>2, <2>3, <2>4, <2>5, <2>6 DEF Next, WorkerStep
<1> QED
  BY <1>1, <1>2, <1>3

\* A receipt is given for the record its call waited for.
LEMMA ReceiptsKept ==
    ASSUME TypeOK, CallersWait, CallsHold, ReceiptsAreDurable, RecordsMove, [Next]_vars
    PROVE  ReceiptsAreDurable'
<1>1. \A receipt \in receipts :
        receipt[1] \in Exports /\ file'[receipt[1]] \in Records
          /\ file'[receipt[1]].digest = receipt[2]
  BY DEF TypeOK, ReceiptsAreDurable, RecordsMove
<1>2. CASE receipts' = receipts
  BY <1>1, <1>2 DEF ReceiptsAreDurable
<1>3. ASSUME NEW e \in Exports, chain[e] # <<>>, End(e)
      PROVE  ReceiptsAreDurable'
  <2> DEFINE by == Running(e).by
  <2>1. CASE by \notin Calls
    BY <1>2, <1>3, <2>1 DEF End
  <2>2. CASE by \in Calls
    <3>1. call[by].pc = "delivering" /\ call[by].export = e
      BY <1>3, <2>2, CallerIsBusy
    <3>2. file[e] \in Records /\ file[e].digest = call[by].digest
      BY <2>2, <3>1 DEF CallsHold
    <3>3. file'[e] \in Records /\ file'[e].digest = call[by].digest
      BY <3>2 DEF RecordsMove
    <3>4. receipts' = receipts \cup {<<e, call[by].digest>>}
      BY <1>3, <2>2 DEF End
    <3> HIDE DEF by
    <3> QED
      BY <1>1, <3>3, <3>4 DEF ReceiptsAreDurable
  <2> QED
    BY <2>1, <2>2
<1>4. receipts' = receipts \/ \E e \in Exports : chain[e] # <<>> /\ End(e)
  <2>1. ASSUME NEW c \in Calls,
               \/ \E e \in Exports, d \in Digests : VerifyRequest(c, e, d)
               \/ CallStep(c) \/ FailCreate(c)
        PROVE  receipts' = receipts
    BY <2>1 DEF VerifyRequest, CallStep, ReadExisting, CreateRecord, CommitRecord, FailCreate
  <2>2. ASSUME NEW e \in Exports, TaskStep(e)
        PROVE  receipts' = receipts \/ (chain[e] # <<>> /\ End(e))
    <3>1. CASE CreateArtifact(e) \/ CompareArtifact(e) \/ WriteArtifact(e) \/ RemoveArtifact(e)
      BY <3>1 DEF CreateArtifact, CompareArtifact, WriteArtifact, RemoveArtifact
    <3>2. CASE PrepareAttempt(e)
      BY <3>2 DEF PrepareAttempt, Runs
    <3>3. CASE ExpireArtifact(e)
      BY <3>3 DEF ExpireArtifact, Runs
    <3>4. CASE RecordDelivered(e) \/ FailAttempt(e) \/ RecordPurged(e)
      BY <3>4 DEF RecordDelivered, FailAttempt, RecordPurged, Runs
    <3> QED
      BY <2>2, <3>1, <3>2, <3>3, <3>4 DEF TaskStep
  <2>3. ASSUME NEW e \in Exports,
               \/ TaskThrows(e) \/ FailArtifact(e) \/ FailRemoval(e)
               \/ ReadStatus(e) \/ RetryFallsDue(e) \/ LifetimePasses(e)
        PROVE  receipts' = receipts \/ (chain[e] # <<>> /\ End(e))
    BY <2>3 DEF TaskThrows, FailArtifact, FailRemoval, ReadStatus, RetryFallsDue,
                LifetimePasses, Runs
  <2>4. CASE WorkerStep \/ Quiesce \/ Teardown \/ Crash \/ Boot \/ UNCHANGED vars
    BY <2>4 DEF WorkerStep, ScanExports, EndRound, WakeWorker, WorkItem, Quiesce, Teardown,
                Crash, Gone, Boot, vars
  <2> QED
    BY <2>1, <2>2, <2>3, <2>4, Zenon DEF Next
<1> QED
  BY <1>2, <1>3, <1>4

-----------------------------------------------------------------------------
(* The theorems. *)

LEMMA TeardownKept ==
    ASSUME TeardownCounted, [Next]_vars
    PROVE  TeardownCounted'
<1>1. CASE UNCHANGED <<process, crashes>>
  BY <1>1 DEF TeardownCounted
<1>2. CASE Quiesce \/ Teardown \/ Crash \/ Boot
  BY <1>2 DEF Quiesce, Teardown, Crash, Gone, Boot, TeardownCounted
<1>3. Quiesce \/ Teardown \/ Crash \/ Boot \/ UNCHANGED <<process, crashes>>
  <2>1. ASSUME NEW c \in Calls,
               \/ \E e \in Exports, d \in Digests : VerifyRequest(c, e, d)
               \/ CallStep(c) \/ FailCreate(c)
        PROVE  UNCHANGED <<process, crashes>>
    BY <2>1 DEF VerifyRequest, CallStep, ReadExisting, CreateRecord, CommitRecord, FailCreate
  <2>2. ASSUME NEW e \in Exports, TaskStep(e)
        PROVE  UNCHANGED <<process, crashes>>
    BY <2>2 DEF TaskStep, PrepareAttempt, CreateArtifact, CompareArtifact, WriteArtifact,
                RecordDelivered, FailAttempt, ExpireArtifact, RemoveArtifact, RecordPurged
  <2>3. ASSUME NEW e \in Exports,
               \/ TaskThrows(e) \/ FailArtifact(e) \/ FailRemoval(e)
               \/ ReadStatus(e) \/ RetryFallsDue(e) \/ LifetimePasses(e)
        PROVE  UNCHANGED <<process, crashes>>
    BY <2>3 DEF TaskThrows, FailArtifact, FailRemoval, ReadStatus, RetryFallsDue,
                LifetimePasses
  <2>4. CASE WorkerStep \/ UNCHANGED vars
    BY <2>4 DEF WorkerStep, ScanExports, EndRound, WakeWorker, WorkItem, vars
  <2> QED
    BY <2>1, <2>2, <2>3, <2>4, Zenon DEF Next
<1> QED
  BY <1>1, <1>2, <1>3

LEMMA InvHolds ==
    /\ Init => Inv
    /\ Inv /\ [Next]_vars => Inv'
<1>1. ASSUME Init
      PROVE  Inv
  <2>1. ExportsSound
    BY <1>1, UnreadableTyped DEF Init, ExportsSound, RecordSound, ChainSound
  <2>2. TypeOK /\ TeardownCounted /\ CallersWait /\ CallsHold /\ ItemsHold /\ ReceiptsAreDurable
    BY <1>1, InitTyped DEF Init, TeardownCounted, CallersWait, CallsHold, ItemsHold,
                           ReceiptsAreDurable, Idle
  <2> QED
    BY <2>1, <2>2 DEF Inv
<1>2. ASSUME Inv, [Next]_vars
      PROVE  Inv'
  <2>1. /\ TypeOK /\ TeardownCounted /\ ExportsSound /\ CallersWait
        /\ CallsHold /\ ItemsHold /\ ReceiptsAreDurable
    BY <1>2 DEF Inv
  <2>2. RecordsMove
    BY <1>2, <2>1, RecordsKept
  <2>3. TypeOK' /\ TeardownCounted' /\ ExportsSound'
    BY <1>2, <2>1, TypeKept, TeardownKept, ExportsKept
  <2>4. CallersWait' /\ CallsHold'
    BY <1>2, <2>1, CallersKept, CallsKept
  <2>5. ItemsHold' /\ ReceiptsAreDurable'
    BY <1>2, <2>1, <2>2, ItemsKept, ReceiptsKept
  <2> QED
    BY <2>3, <2>4, <2>5 DEF Inv
<1> QED
  BY <1>1, <1>2

LEMMA Invariance == Spec => []Inv
<1>1. Init => Inv
  BY InvHolds
<1>2. Inv /\ [Next]_vars => Inv'
  BY InvHolds
<1> QED
  BY <1>1, <1>2, PTL DEF Spec

\* Every variable of the Export machinery holds a value of its kind, whatever
\* calls, tasks, failures, teardowns and process deaths interleave.
THEOREM TypeCorrect == Spec => []TypeOK
<1>1. Inv => TypeOK
  BY DEF Inv
<1> QED
  BY <1>1, Invariance, PTL

\* What the record of an Export says of the file at its destination is so: a
\* delivered artifact is there whole, and a purged one is gone for good
\* (ExportDeliveryModule of src/src/internal/export-delivery.ts).
THEOREM ArtifactIsFollowed == Spec => []ArtifactFollowsRecord
<1>1. Inv => ArtifactFollowsRecord
  <2>1. ASSUME Inv, NEW e \in Exports
        PROVE  /\ file[e].status = "DELIVERED" => artifact[e] = "whole"
               /\ file[e] \in Records /\ file[e].retention = "PURGED" => artifact[e] = "absent"
    <3>1. RecordSound(file[e], artifact[e]) /\ file[e] \in Records \cup {Absent, Torn}
      BY <2>1 DEF Inv, ExportsSound, TypeOK
    <3>2. file[e].status = "DELIVERED" => file[e] # Absent /\ file[e] # Torn
      BY DEF Absent, Torn
    <3> QED
      BY <3>1, <3>2 DEF RecordSound
  <2> QED
    BY <2>1 DEF ArtifactFollowsRecord
<1> QED
  BY <1>1, Invariance, PTL

\* A caller's receipt is backed by a durable record of its request, and no two
\* requests are granted one identity, however calls and crashes interleave
\* (begin and replay of src/src/internal/export-delivery.ts).
THEOREM ReceiptsStayDurable == Spec => []ReceiptsAreDurable
<1>1. Inv => ReceiptsAreDurable
  BY DEF Inv
<1> QED
  BY <1>1, Invariance, PTL

\* A record once readable stays readable and keeps its request; its status
\* only moves forward and a purge is final (the status changes of
\* src/src/internal/export-delivery.ts).
THEOREM StatusIsForward == Spec => StatusMovesForward
<1>1. Inv /\ [Next]_vars => [RecordsMove]_vars
  BY RecordsKept DEF Inv
<1>2. RecordsMove =>
        \A e \in Exports :
          file[e] \in Records =>
            /\ file'[e] \in Records
            /\ file'[e].digest = file[e].digest
            /\ file'[e].attempts >= file[e].attempts
            /\ file[e].status # "PENDING" /\ file'[e].status # file[e].status
                 => file[e].status = "DELIVERED" /\ file'[e].status = "EXPIRED"
            /\ file[e].retention = "PURGED" => file'[e] = file[e]
  BY DEF RecordsMove
<1> QED
  BY <1>1, <1>2, Invariance, PTL DEF Spec, StatusMovesForward
-----------------------------------------------------------------------------
(* What is promised of an Export. *)

\* A function that changes at one point.
LEMMA ChangedAt ==
    ASSUME NEW S, NEW e \in S, NEW v, NEW g, NEW h,
           g = [x \in S |-> g[x]], h = [x \in S |-> h[x]],
           \A x \in S : x # e => h[x] = g[x],
           h[e] = v
    PROVE  h = [g EXCEPT ![e] = v]
OBVIOUS

\* What a record that is written shows: the request stays, the outcome is its own.
LEMMA RecordShows ==
    ASSUME TypeOK, NEW e \in Exports, NEW f \in Records, file[e] \in Records,
           file' = [file EXCEPT ![e] = f], f.digest = file[e].digest, UNCHANGED artifact
    PROVE  /\ Requested' = Requested
           /\ Available' = Available
           /\ Outcome' = [Outcome EXCEPT
                            ![e] = IF f.retention = "PURGED" THEN "PURGED" ELSE f.status]
<1>1. file'[e] = f /\ \A x \in Exports : x # e => file'[x] = file[x]
  BY DEF TypeOK
<1>2. Requested' = Requested
  BY <1>1 DEF Requested
<1>3. Available' = Available
  BY DEF Available
<1>4. Outcome' = [Outcome EXCEPT ![e] = IF f.retention = "PURGED" THEN "PURGED" ELSE f.status]
  <2>1. \A x \in Exports : x # e => Outcome'[x] = Outcome[x]
    BY <1>1 DEF Outcome
  <2>2. Outcome'[e] = IF f.retention = "PURGED" THEN "PURGED" ELSE f.status
    BY <1>1 DEF Outcome
  <2>3. /\ Outcome = [x \in Exports |-> Outcome[x]]
        /\ Outcome' = [x \in Exports |-> Outcome'[x]]
    BY DEF Outcome
  <2> QED
    BY <2>1, <2>2, <2>3, ChangedAt
<1> QED
  BY <1>2, <1>3, <1>4

\* What an artifact that is written or removed shows.
LEMMA ArtifactShows ==
    ASSUME TypeOK, NEW e \in Exports, NEW a, artifact' = [artifact EXCEPT ![e] = a],
           UNCHANGED file
    PROVE  /\ Requested' = Requested
           /\ Outcome' = Outcome
           /\ Available' = [Available EXCEPT ![e] = (a = "whole")]
<1>1. artifact'[e] = a /\ \A x \in Exports : x # e => artifact'[x] = artifact[x]
  BY DEF TypeOK
<1>2. Requested' = Requested /\ Outcome' = Outcome
  BY DEF Requested, Outcome
<1>3. Available' = [Available EXCEPT ![e] = (a = "whole")]
  BY <1>1 DEF Available
<1> QED
  BY <1>2, <1>3

\* What a state shows of the Export of a record.
LEMMA Shown ==
    ASSUME NEW e \in Exports, file[e] \in Records
    PROVE  /\ Requested[e] = file[e].digest
           /\ Outcome[e] = IF file[e].retention = "PURGED" THEN "PURGED" ELSE file[e].status
           /\ Available[e] = (artifact[e] = "whole")
           /\ Outcome[e] # "NONE"
BY DEF Requested, Outcome, Available, Records

\* What shows nothing: the files stay as they are, and so do the receipts.
LEMMA Hidden ==
    ASSUME UNCHANGED <<file, artifact, lapsed, receipts>>
    PROVE  UNCHANGED Promise!exported
<1>1. Requested' = Requested
  BY DEF Requested
<1>2. Outcome' = Outcome
  BY DEF Outcome
<1>3. Available' = Available
  BY DEF Available
<1> QED
  BY <1>1, <1>2, <1>3 DEF Promise!exported

\* A task that ends tells its caller of the request it waited for.
LEMMA EndInforms ==
    ASSUME TypeOK, ExportsSound, CallersWait, CallsHold, NEW e \in Exports,
           chain[e] # <<>>, End(e)
    PROVE  /\ Promise!Informed(e)
           /\ file[e] \in Records
           /\ Promise!Granted(e)
<1>1. file[e] \in Records
  BY HeadIsRecord
<1>2. Requested[e] = file[e].digest /\ Outcome[e] # "NONE"
  BY <1>1, Shown
<1> DEFINE by == Running(e).by
<1>3. receipts' = IF by \in Calls THEN receipts \cup {<<e, call[by].digest>>} ELSE receipts
  BY DEF End
<1>4. by \in Calls => call[by].digest = file[e].digest
  <2>1. by \in Calls => call[by].pc = "delivering" /\ call[by].export = e
    BY CallerIsBusy
  <2> QED
    BY <2>1 DEF CallsHold
<1> HIDE DEF by
<1>5. receipts' \in {receipts, receipts \cup {<<e, Requested[e]>>}}
  BY <1>2, <1>3, <1>4
<1> QED
  BY <1>1, <1>2, <1>5 DEF Promise!Informed, Promise!Granted

\* A task that ends and leaves the files alone does no more than that.
LEMMA EndIsPromised ==
    ASSUME TypeOK, ExportsSound, CallersWait, CallsHold, NEW e \in Exports,
           chain[e] # <<>>, End(e), UNCHANGED <<file, artifact, lapsed>>
    PROVE  Promise!Inform(e)
<1>1. Requested' = Requested /\ Outcome' = Outcome /\ Available' = Available
  BY DEF Requested, Outcome, Available
<1> QED
  BY <1>1, EndInforms DEF Promise!Inform

\* The step that makes a record readable grants its identity to its request.
LEMMA CommitIsPromised ==
    ASSUME TypeOK, CallsHold, NEW c \in Calls, call[c].pc = "creating",
           file' = [file EXCEPT ![call[c].export] = Accepted(call[c].digest)],
           UNCHANGED <<artifact, lapsed, receipts>>
    PROVE  Promise!Next
<1> DEFINE e == call[c].export
           d == call[c].digest
           f == Accepted(d)
<1>1. e \in Exports /\ d \in Digests /\ f \in Records
  BY NotIdle, CallTyped, AcceptedTyped
<1>2. f.digest = d /\ f.status = "PENDING" /\ f.retention = "NOT_RETAINED"
  BY DEF Accepted
<1>3. file[e] \notin Records /\ file' = [file EXCEPT ![e] = f]
  BY UnreadableTyped DEF CallsHold
<1> HIDE DEF e, d, f
<1>4. file'[e] = f /\ \A x \in Exports : x # e => file'[x] = file[x]
  BY <1>1, <1>3 DEF TypeOK
<1>5. Requested' = [Requested EXCEPT ![e] = d]
  <2>1. \A x \in Exports : x # e => Requested'[x] = Requested[x]
    BY <1>4 DEF Requested
  <2>2. Requested'[e] = d
    BY <1>1, <1>2, <1>4 DEF Requested
  <2>3. /\ Requested = [x \in Exports |-> Requested[x]]
        /\ Requested' = [x \in Exports |-> Requested'[x]]
    BY DEF Requested
  <2> QED
    BY <1>1, <2>1, <2>2, <2>3, ChangedAt
<1>6. Outcome' = [Outcome EXCEPT ![e] = "PENDING"]
  <2>1. \A x \in Exports : x # e => Outcome'[x] = Outcome[x]
    BY <1>4 DEF Outcome
  <2>2. Outcome'[e] = "PENDING"
    BY <1>1, <1>2, <1>4 DEF Outcome
  <2>3. /\ Outcome = [x \in Exports |-> Outcome[x]]
        /\ Outcome' = [x \in Exports |-> Outcome'[x]]
    BY DEF Outcome
  <2> QED
    BY <1>1, <2>1, <2>2, <2>3, ChangedAt
<1>7. Available' = Available /\ Outcome[e] = "NONE"
  BY <1>1, <1>3 DEF Available, Outcome
<1>8. Promise!Accept(e, d)
  BY <1>5, <1>6, <1>7 DEF Promise!Accept, Promise!Granted
<1> QED
  BY <1>1, <1>8 DEF Promise!Next

\* What a call does.
LEMMA CallsArePromised ==
    ASSUME TypeOK, CallsHold, NEW c \in Calls,
           \/ \E e \in Exports, d \in Digests : VerifyRequest(c, e, d)
           \/ CallStep(c) \/ FailCreate(c)
    PROVE  [Promise!Next]_(Promise!exported)
<1>1. CASE UNCHANGED <<file, artifact, lapsed, receipts>>
  BY <1>1, Hidden
<1>2. CASE ReadExisting(c) \/ \E e \in Exports, d \in Digests : VerifyRequest(c, e, d)
  <2>1. UNCHANGED <<file, artifact, lapsed, receipts>>
    BY <1>2 DEF ReadExisting, VerifyRequest, disk
  <2> QED
    BY <1>1, <2>1
<1>3. CASE /\ CreateRecord(c)
           /\ ~ UNCHANGED file
  <2> DEFINE e == call[c].export
  <2>1. /\ call[c].pc = "absent"
        /\ file[e] = Absent
        /\ file' = [file EXCEPT ![e] = Torn]
        /\ UNCHANGED <<artifact, lapsed, receipts>>
    BY <1>3 DEF CreateRecord
  <2>2. e \in Exports
    BY <2>1, NotIdle, CallTyped
  <2> HIDE DEF e
  <2>3. file'[e] = Torn /\ \A x \in Exports : x # e => file'[x] = file[x]
    BY <2>1, <2>2 DEF TypeOK
  <2>4. \A x \in Exports : \/ file'[x] = file[x]
                           \/ file[x] \notin Records /\ file'[x] \notin Records
    BY <2>1, <2>3, UnreadableTyped
  <2>5. Requested' = Requested
    BY <2>4 DEF Requested
  <2>6. Outcome' = Outcome
    BY <2>4 DEF Outcome
  <2>7. Available' = Available
    BY <2>1 DEF Available
  <2> QED
    BY <2>1, <2>5, <2>6, <2>7 DEF Promise!exported
<1>4. CASE (CommitRecord(c) \/ FailCreate(c)) /\ ~ UNCHANGED file
  <2>1. /\ call[c].pc = "creating"
        /\ file' = [file EXCEPT ![call[c].export] = Accepted(call[c].digest)]
        /\ UNCHANGED <<artifact, lapsed, receipts>>
    BY <1>4 DEF CommitRecord, FailCreate
  <2> QED
    BY <2>1, CommitIsPromised
<1>5. CASE (CreateRecord(c) \/ CommitRecord(c) \/ FailCreate(c)) /\ UNCHANGED file
  <2>1. UNCHANGED <<artifact, lapsed, receipts>>
    BY <1>5 DEF CreateRecord, CommitRecord, FailCreate
  <2> QED
    BY <1>1, <1>5, <2>1
<1> QED
  BY <1>2, <1>3, <1>4, <1>5 DEF CallStep

\* What a task of a chain does, one action of it after the other.
LEMMA TasksArePromised ==
    ASSUME TypeOK, ExportsSound, CallersWait, CallsHold, NEW e \in Exports,
           TaskStep(e) \/ FailRemoval(e)
    PROVE  [Promise!Next]_(Promise!exported)
<1>1. CASE UNCHANGED <<file, artifact, lapsed, receipts>>
  BY <1>1, Hidden
<1>2. CASE chain[e] # <<>> /\ End(e) /\ UNCHANGED <<file, artifact, lapsed>>
  BY <1>2, EndIsPromised DEF Promise!Next
<1>3. chain[e] # <<>> => /\ file[e] \in Records
                        /\ TaskAgrees(Running(e), file[e], artifact[e])
                        /\ Running(e) \in Tasks
  BY HeadIsRecord, RunningTyped
<1>4. RecordSound(file[e], artifact[e])
  BY DEF ExportsSound
<1>5. chain[e] # <<>> =>
        /\ Requested[e] = file[e].digest
        /\ Outcome[e] = IF file[e].retention = "PURGED" THEN "PURGED" ELSE file[e].status
        /\ Available[e] = (artifact[e] = "whole")
        /\ Outcome[e] # "NONE"
  BY <1>3, Shown
<1>6. chain[e] # <<>> /\ End(e) => Promise!Informed(e)
  BY EndInforms
<1>7. CASE PrepareAttempt(e)
  <2>1. chain[e] # <<>> /\ UNCHANGED <<artifact, lapsed>>
    BY <1>7 DEF PrepareAttempt, Runs
  <2>2. CASE Startable(file[e])
    <3> DEFINE f == [file[e] EXCEPT !.attempts = Least(file[e].attempts + 1, MaxAttempts),
                                    !.retry = "none"]
    <3>1. file[e] \in Records /\ file' = [file EXCEPT ![e] = f] /\ UNCHANGED receipts
      BY <1>7, <2>2 DEF PrepareAttempt, TypeOK
    <3>2. f \in Records
      BY <3>1, PreparedTyped
    <3>3. f.digest = file[e].digest /\ f.status = file[e].status
            /\ f.retention = file[e].retention
      BY <3>1 DEF Records
    <3> HIDE DEF f
    <3>4. /\ Requested' = Requested
          /\ Available' = Available
          /\ Outcome' = [Outcome EXCEPT
                           ![e] = IF f.retention = "PURGED" THEN "PURGED" ELSE f.status]
      BY <2>1, <3>1, <3>2, <3>3, RecordShows
    <3>5. Outcome' = Outcome
      BY <1>5, <2>1, <3>3, <3>4 DEF Outcome
    <3> QED
      BY <2>1, <3>1, <3>4, <3>5 DEF Promise!exported
  <2>3. CASE ~ Startable(file[e])
    BY <1>2, <1>7, <2>1, <2>3 DEF PrepareAttempt
  <2> QED
    BY <2>2, <2>3
<1>8. CASE CreateArtifact(e) \/ (CompareArtifact(e) /\ artifact[e] # "whole")
  <2>1. PICK a \in {"torn", "absent"} : artifact' = [artifact EXCEPT ![e] = a]
    BY <1>8 DEF CreateArtifact, CompareArtifact
  <2>2. chain[e] # <<>> /\ UNCHANGED <<file, lapsed, receipts>> /\ artifact[e] # "whole"
    BY <1>8 DEF CreateArtifact, CompareArtifact, Runs
  <2>3. /\ Requested' = Requested
        /\ Outcome' = Outcome
        /\ Available' = [Available EXCEPT ![e] = (a = "whole")]
    BY <2>1, <2>2, ArtifactShows
  <2>4. Available' = Available
    BY <1>5, <2>1, <2>2, <2>3 DEF Available
  <2> QED
    BY <2>2, <2>3, <2>4 DEF Promise!exported
<1>9. CASE CompareArtifact(e) /\ artifact[e] = "whole"
  <2>1. UNCHANGED <<file, artifact, lapsed, receipts>>
    BY <1>9 DEF CompareArtifact
  <2> QED
    BY <1>1, <2>1
<1>10. CASE WriteArtifact(e)
  <2>1. /\ chain[e] # <<>>
        /\ Running(e).kind = "deliver"
        /\ Running(e).pc = "writing"
        /\ artifact' = [artifact EXCEPT ![e] = "whole"]
        /\ UNCHANGED <<file, lapsed, receipts>>
    BY <1>10 DEF WriteArtifact, Runs
  <2>2. file[e].status = "PENDING" /\ file[e].retention # "PURGED"
    BY <1>3, <1>4, <2>1 DEF TaskAgrees, RecordSound
  <2>3. /\ Requested' = Requested
        /\ Outcome' = Outcome
        /\ Available' = [Available EXCEPT ![e] = ("whole" = "whole")]
    BY <2>1, ArtifactShows
  <2>4. Available' = [Available EXCEPT ![e] = TRUE] /\ Outcome[e] = "PENDING"
    BY <1>5, <2>1, <2>2, <2>3
  <2>5. CASE Available[e]
    <3>1. Available' = Available
      BY <2>4, <2>5 DEF Available
    <3> QED
      BY <2>1, <2>3, <3>1 DEF Promise!exported
  <2>6. CASE ~Available[e]
    <3>1. Promise!Place(e)
      BY <2>1, <2>3, <2>4, <2>6 DEF Promise!Place
    <3> QED
      BY <3>1 DEF Promise!Next
  <2> QED
    BY <2>5, <2>6
<1>11. CASE RecordDelivered(e)
  <2> DEFINE f == [file[e] EXCEPT !.status = "DELIVERED", !.retry = "none",
                                  !.retention = "RETAINED"]
  <2>1. /\ chain[e] # <<>>
        /\ Running(e).kind = "deliver"
        /\ Running(e).pc = "written"
        /\ End(e)
        /\ UNCHANGED <<artifact, lapsed>>
    BY <1>11 DEF RecordDelivered, Runs
  <2>2. /\ file[e] \in Records
        /\ file[e].status = "PENDING"
        /\ file[e].retention # "PURGED"
        /\ artifact[e] = "whole"
    BY <1>3, <1>4, <2>1 DEF TaskAgrees, RecordSound
  <2>3. f \in Records /\ file' = [file EXCEPT ![e] = f]
    BY <1>11, <2>2, DeliveredTyped DEF RecordDelivered, TypeOK
  <2>4. f.digest = file[e].digest /\ f.status = "DELIVERED" /\ f.retention = "RETAINED"
    BY <2>2 DEF Records
  <2> HIDE DEF f
  <2>5. /\ Requested' = Requested
        /\ Available' = Available
        /\ Outcome' = [Outcome EXCEPT
                         ![e] = IF f.retention = "PURGED" THEN "PURGED" ELSE f.status]
    BY <2>1, <2>2, <2>3, <2>4, RecordShows
  <2>6. Promise!Deliver(e)
    BY <1>5, <1>6, <2>1, <2>2, <2>4, <2>5 DEF Promise!Deliver
  <2> QED
    BY <2>6 DEF Promise!Next
<1>12. CASE FailAttempt(e)
  <2> DEFINE code == Running(e).code
             out == Exhausted(file[e], code)
             status == IF out THEN "FAILED" ELSE "PENDING"
             f == [file[e] EXCEPT !.status = status,
                                  !.failure = code,
                                  !.retry = IF out THEN "none" ELSE "waiting"]
  <2>1. /\ chain[e] # <<>>
        /\ Running(e).kind \in {"deliver", "unavailable"}
        /\ Running(e).pc = "failing"
        /\ End(e)
        /\ UNCHANGED <<artifact, lapsed>>
    BY <1>12 DEF FailAttempt, Runs
  <2>2. file[e] \in Records /\ file[e].status = "PENDING" /\ file[e].retention # "PURGED"
    BY <1>3, <1>4, <2>1 DEF TaskAgrees, RecordSound
  <2>3. code \in {"none", "SOURCE_SUBMISSION_UNAVAILABLE", "ARTIFACT_IO_ERROR",
                  "ARTIFACT_INTEGRITY_CONFLICT"}
    BY <1>3, <2>1 DEF Tasks
  <2>4. f \in Records
    BY <2>2, <2>3, FailedTyped
  <2>5. file' = [file EXCEPT ![e] = f]
    BY <1>12 DEF FailAttempt, TypeOK
  <2>6. f.digest = file[e].digest /\ f.status = status /\ f.retention = file[e].retention
    BY <2>2 DEF Records
  <2>7. status \in {"FAILED", "PENDING"}
    OBVIOUS
  <2> HIDE DEF f, status
  <2>8. /\ Requested' = Requested
        /\ Available' = Available
        /\ Outcome' = [Outcome EXCEPT
                         ![e] = IF f.retention = "PURGED" THEN "PURGED" ELSE f.status]
    BY <2>1, <2>2, <2>4, <2>5, <2>6, RecordShows
  <2>9. Outcome[e] = "PENDING" /\ Outcome' = [Outcome EXCEPT ![e] = status]
    BY <1>5, <2>1, <2>2, <2>6, <2>8
  <2>10. CASE status = "FAILED"
    <3>1. Promise!GiveUp(e)
      BY <1>6, <2>1, <2>8, <2>9, <2>10 DEF Promise!GiveUp
    <3> QED
      BY <3>1 DEF Promise!Next
  <2>11. CASE status = "PENDING"
    <3>1. Outcome' = Outcome
      BY <2>9, <2>11 DEF Outcome
    <3>2. Promise!Inform(e)
      BY <1>6, <2>1, <2>8, <2>9, <3>1 DEF Promise!Inform, Promise!Granted
    <3> QED
      BY <3>2 DEF Promise!Next
  <2> QED
    BY <2>7, <2>10, <2>11
<1>13. CASE ExpireArtifact(e)
  <2>1. chain[e] # <<>> /\ file[e] \in Records /\ UNCHANGED <<artifact, lapsed>>
    BY <1>13 DEF ExpireArtifact, Runs
  <2>2. CASE file[e].status = "DELIVERED" /\ lapsed[e]
    <3> DEFINE f == [file[e] EXCEPT !.status = "EXPIRED", !.retention = "PURGE_PENDING"]
    <3>1. f \in Records /\ file' = [file EXCEPT ![e] = f] /\ UNCHANGED receipts
      BY <1>13, <2>1, <2>2, ExpiredTyped DEF ExpireArtifact, TypeOK
    <3>2. /\ f.digest = file[e].digest
          /\ f.status = "EXPIRED"
          /\ f.retention = "PURGE_PENDING"
          /\ file[e].retention # "PURGED"
      BY <1>4, <2>1, <2>2 DEF Records, RecordSound
    <3> HIDE DEF f
    <3>3. /\ Requested' = Requested
          /\ Available' = Available
          /\ Outcome' = [Outcome EXCEPT
                           ![e] = IF f.retention = "PURGED" THEN "PURGED" ELSE f.status]
      BY <2>1, <3>1, <3>2, RecordShows
    <3>4. Promise!Expire(e)
      BY <1>5, <2>1, <2>2, <3>1, <3>2, <3>3 DEF Promise!Expire
    <3> QED
      BY <3>4 DEF Promise!Next
  <2>3. CASE /\ ~(file[e].status = "DELIVERED" /\ lapsed[e])
             /\ file[e].retention = "PURGE_PENDING"
    BY <1>1, <1>13, <2>1, <2>3 DEF ExpireArtifact
  <2>4. CASE /\ ~(file[e].status = "DELIVERED" /\ lapsed[e])
             /\ file[e].retention # "PURGE_PENDING"
    BY <1>2, <1>13, <2>1, <2>4 DEF ExpireArtifact
  <2> QED
    BY <2>2, <2>3, <2>4
<1>14. CASE RemoveArtifact(e)
  <2>1. /\ chain[e] # <<>>
        /\ Running(e).kind = "expire"
        /\ Running(e).pc = "purging"
        /\ artifact' = [artifact EXCEPT ![e] = "absent"]
        /\ UNCHANGED <<file, lapsed, receipts>>
    BY <1>14 DEF RemoveArtifact, Runs
  <2>2. file[e].status = "EXPIRED" /\ file[e].retention = "PURGE_PENDING"
    BY <1>3, <2>1 DEF TaskAgrees
  <2>3. /\ Requested' = Requested
        /\ Outcome' = Outcome
        /\ Available' = [Available EXCEPT ![e] = ("absent" = "whole")]
    BY <2>1, ArtifactShows
  <2>4. Available' = [Available EXCEPT ![e] = FALSE] /\ Outcome[e] = "EXPIRED"
    BY <1>5, <2>1, <2>2, <2>3
  <2>5. CASE ~Available[e]
    <3>1. Available' = Available
      BY <2>4, <2>5 DEF Available
    <3> QED
      BY <2>1, <2>3, <3>1 DEF Promise!exported
  <2>6. CASE Available[e]
    <3>1. Promise!Remove(e)
      BY <2>1, <2>3, <2>4, <2>6 DEF Promise!Remove
    <3> QED
      BY <3>1 DEF Promise!Next
  <2> QED
    BY <2>5, <2>6
<1>15. CASE FailRemoval(e)
  <2>1. chain[e] # <<>> /\ End(e) /\ UNCHANGED <<file, artifact, lapsed>>
    BY <1>15 DEF FailRemoval, Runs, disk
  <2> QED
    BY <1>2, <2>1
<1>16. CASE RecordPurged(e)
  <2> DEFINE f == [file[e] EXCEPT !.retention = "PURGED"]
  <2>1. /\ chain[e] # <<>>
        /\ Running(e).kind = "expire"
        /\ Running(e).pc = "written"
        /\ End(e)
        /\ UNCHANGED <<artifact, lapsed>>
    BY <1>16 DEF RecordPurged, Runs
  <2>2. /\ file[e] \in Records
        /\ file[e].status = "EXPIRED"
        /\ file[e].retention = "PURGE_PENDING"
        /\ artifact[e] = "absent"
    BY <1>3, <2>1 DEF TaskAgrees
  <2>3. f \in Records /\ file' = [file EXCEPT ![e] = f]
    BY <1>16, <2>2, ExpiredTyped DEF RecordPurged, TypeOK
  <2>4. f.digest = file[e].digest /\ f.retention = "PURGED"
    BY <2>2 DEF Records
  <2> HIDE DEF f
  <2>5. /\ Requested' = Requested
        /\ Available' = Available
        /\ Outcome' = [Outcome EXCEPT
                         ![e] = IF f.retention = "PURGED" THEN "PURGED" ELSE f.status]
    BY <2>1, <2>2, <2>3, <2>4, RecordShows
  <2>6. Promise!Purge(e)
    BY <1>5, <1>6, <2>1, <2>2, <2>4, <2>5 DEF Promise!Purge
  <2> QED
    BY <2>6 DEF Promise!Next
<1> QED
  BY <1>7, <1>8, <1>9, <1>10, <1>11, <1>12, <1>13, <1>14, <1>15, <1>16 DEF TaskStep

\* What failures, readers and the clock do.
LEMMA ClockIsPromised ==
    ASSUME TypeOK, ExportsSound, NEW e \in Exports,
           TaskThrows(e) \/ FailArtifact(e) \/ ReadStatus(e)
             \/ RetryFallsDue(e) \/ LifetimePasses(e)
    PROVE  [Promise!Next]_(Promise!exported)
<1>1. CASE TaskThrows(e) \/ FailArtifact(e) \/ ReadStatus(e)
  <2>1. UNCHANGED <<file, artifact, lapsed, receipts>>
    BY <1>1 DEF TaskThrows, FailArtifact, ReadStatus, disk
  <2> QED
    BY <2>1, Hidden
<1>2. CASE RetryFallsDue(e)
  <2> DEFINE f == [file[e] EXCEPT !.retry = "due"]
  <2>1. file[e] \in Records /\ UNCHANGED <<artifact, lapsed, receipts>>
    BY <1>2 DEF RetryFallsDue
  <2>2. f \in Records /\ file' = [file EXCEPT ![e] = f]
    BY <1>2, <2>1, ExpiredTyped DEF RetryFallsDue, TypeOK
  <2>3. /\ f.digest = file[e].digest
        /\ f.status = file[e].status
        /\ f.retention = file[e].retention
    BY <2>1 DEF Records
  <2> HIDE DEF f
  <2>4. /\ Requested' = Requested
        /\ Available' = Available
        /\ Outcome' = [Outcome EXCEPT
                         ![e] = IF f.retention = "PURGED" THEN "PURGED" ELSE f.status]
    BY <2>1, <2>2, <2>3, RecordShows
  <2>5. Outcome[e] = IF file[e].retention = "PURGED" THEN "PURGED" ELSE file[e].status
    BY <2>1, Shown
  <2>6. Outcome' = Outcome
    BY <2>3, <2>4, <2>5 DEF Outcome
  <2> QED
    BY <2>1, <2>4, <2>6 DEF Promise!exported
<1>3. CASE LifetimePasses(e)
  <2>1. /\ file[e] \in Records
        /\ ~lapsed[e]
        /\ lapsed' = [lapsed EXCEPT ![e] = TRUE]
        /\ UNCHANGED <<file, artifact, receipts>>
    BY <1>3 DEF LifetimePasses, disk
  <2>2. Requested' = Requested /\ Outcome' = Outcome /\ Available' = Available
    BY <2>1 DEF Requested, Outcome, Available
  <2>3. Outcome[e] # "NONE"
    BY <2>1, Shown
  <2>4. Promise!Lapse(e)
    BY <2>1, <2>2, <2>3 DEF Promise!Lapse, Promise!Granted
  <2> QED
    BY <2>4 DEF Promise!Next
<1> QED
  BY <1>1, <1>2, <1>3

\* What the worker and the process do shows nothing.
LEMMA OthersAreHidden ==
    ASSUME WorkerStep \/ Quiesce \/ Teardown \/ Crash \/ Boot \/ UNCHANGED vars
    PROVE  UNCHANGED Promise!exported
<1>1. UNCHANGED <<file, artifact, lapsed, receipts>>
  BY DEF WorkerStep, ScanExports, EndRound, WakeWorker, WorkItem, Quiesce, Teardown, Crash,
         Gone, Boot, vars, disk
<1> QED
  BY <1>1, Hidden

\* The deliveries implement the promise of OfficialExport, through every crash, torn write,
\* retry and race: an identity is granted once and for good, the outcome only moves forward,
\* a delivered artifact is there whole until its expiry, and receipts tell the request
\* granted (ExportDeliveryModule of src/src/internal/export-delivery.ts).
THEOREM DeliveryImplementsPromise == Spec => ImplementsPromise
<1>1. Init => Promise!Init
  <2> SUFFICES ASSUME Init PROVE Promise!Init
    OBVIOUS
  <2>1. \A e \in Exports : file[e] \notin Records /\ artifact[e] = "absent"
    BY UnreadableTyped DEF Init
  <2>2. Requested = [e \in Exports |-> "none"]
    BY <2>1 DEF Requested
  <2>3. Outcome = [e \in Exports |-> "NONE"]
    BY <2>1 DEF Outcome
  <2>4. Available = [e \in Exports |-> FALSE]
    BY <2>1 DEF Available
  <2>5. lapsed = [e \in Exports |-> FALSE] /\ receipts = {}
    BY DEF Init
  <2> QED
    BY <2>2, <2>3, <2>4, <2>5 DEF Promise!Init
<1>2. Inv /\ [Next]_vars => [Promise!Next]_(Promise!exported)
  <2> SUFFICES ASSUME Inv, [Next]_vars
               PROVE  [Promise!Next]_(Promise!exported)
    OBVIOUS
  <2>1. TypeOK /\ ExportsSound /\ CallersWait /\ CallsHold
    BY DEF Inv
  <2>2. CASE \E c \in Calls :
               \/ \E e \in Exports, d \in Digests : VerifyRequest(c, e, d)
               \/ CallStep(c) \/ FailCreate(c)
    BY <2>1, <2>2, CallsArePromised
  <2>3. CASE \E e \in Exports : TaskStep(e) \/ FailRemoval(e)
    BY <2>1, <2>3, TasksArePromised
  <2>4. CASE \E e \in Exports : \/ TaskThrows(e) \/ FailArtifact(e) \/ ReadStatus(e)
                                \/ RetryFallsDue(e) \/ LifetimePasses(e)
    BY <2>1, <2>4, ClockIsPromised
  <2>5. CASE WorkerStep \/ Quiesce \/ Teardown \/ Crash \/ Boot \/ UNCHANGED vars
    BY <2>5, OthersAreHidden
  <2> QED
    BY <2>2, <2>3, <2>4, <2>5, Zenon DEF Next
<1> QED
  BY <1>1, <1>2, Invariance, PTL DEF Spec, ImplementsPromise, Promise!Spec
=============================================================================
