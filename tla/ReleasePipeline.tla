--------------------------- MODULE ReleasePipeline ---------------------------
(***************************************************************************)
(* The commands a release goes through (src/release-*.ts, src/internal/    *)
(* release-file-verification.ts): bind, the runs and their proof records,  *)
(* collect, assemble, qualify and hand off.  Each is a process that reads  *)
(* files one after the other and links one new file at its end, while the  *)
(* team edits, commits, packs again, reruns and takes files away.          *)
(*                                                                         *)
(* The dependency lock is a tracked file: it is the one of HEAD, or, in a  *)
(* tree that is not clean, another.  The tree only moves on: an edit ends  *)
(* in a commit.  A process may stop at any step (Stop).                    *)
(***************************************************************************)
EXTENDS ReleaseEvidence

CONSTANTS Artifacts,   \* what a pack of the candidate can yield
          Processes,   \* commands that run at once
          Merit,       \* the merits an artifact may turn out to have
          MaxRuns,     \* runs in the ledger
          MaxEffort,   \* acts of the team
          Edited       \* the lock of a tree that is not clean

ASSUME MeritsAreMeasured == Merit \subseteq Merits

\* The merits of a release that may go out: no defect of any kind.
Good ==
  [registered |-> TRUE, calibrated |-> TRUE, complete |-> TRUE, conformance |-> "PASSED",
   counts |-> {}, exact |-> TRUE, bundled |-> TRUE, matched |-> TRUE, measured |-> TRUE,
   planned |-> TRUE, samePlan |-> TRUE, inferiority |-> "PASSED", below |-> {}, unmeasured |-> {}]

Outputs == {"bindings", "index", "input", "portfolio", "receipt"}
Drifts == {"VERSION", "DOCUMENTATION", "BEHAVIOR"}

VARIABLES head, dirty, packed,  \* the repository, and the candidate's tarball
          stable,               \* the tarball proposed as stable: what of, what drift
          merit,                \* what each artifact merits
          ledger, replaced,     \* the runs so far, and what replaces a failed one
          testing, records,     \* per kind, the snapshot under test and its proof record
          evaluation, published,\* the draft: what it evaluates, and what it publishes of it
          file,                 \* the outputs of the commands
          process,              \* per process, its command, step and what it has read
          effort

team == <<head, dirty, packed, stable, merit, ledger, replaced, testing, records,
          evaluation, published, effort>>
releaseVars == <<team, file, process>>

Lock == IF dirty THEN Edited ELSE head
Idle == [command |-> Absent, step |-> 0, read |-> Absent]

ReleaseInit ==
  /\ head = 1 /\ dirty = FALSE
  /\ packed \in Artifacts /\ stable = Absent
  /\ merit \in [Artifacts -> Merit]
  /\ ledger = <<>> /\ replaced = <<>>
  /\ testing = [k \in Kinds |-> Absent] /\ records = [k \in Kinds |-> Absent]
  /\ evaluation = Absent /\ published = Absent
  /\ file = [f \in Outputs |-> Absent]
  /\ process = [p \in Processes |-> Idle]
  /\ effort = 0

-----------------------------------------------------------------------------
(* The team.                                                               *)

Act == effort < MaxEffort /\ effort' = effort + 1

Edit ==
  /\ Act /\ ~dirty /\ dirty' = TRUE
  /\ UNCHANGED <<head, packed, stable, merit, ledger, replaced, testing, records,
                 evaluation, published, file, process>>
Commit ==
  /\ Act /\ dirty /\ head' = head + 1 /\ dirty' = FALSE
  /\ UNCHANGED <<packed, stable, merit, ledger, replaced, testing, records,
                 evaluation, published, file, process>>
Pack ==
  /\ Act /\ packed' \in Artifacts \ {packed}
  /\ UNCHANGED <<head, dirty, stable, merit, ledger, replaced, testing, records,
                 evaluation, published, file, process>>
PackStable ==
  /\ Act /\ stable' \in [of : {packed}, drift : Drifts] \ {stable}
  /\ UNCHANGED <<head, dirty, packed, merit, ledger, replaced, testing, records,
                 evaluation, published, file, process>>
TakeAway(f) ==
  /\ Act /\ file[f] # Absent /\ file' = [file EXCEPT ![f] = Absent]
  /\ UNCHANGED <<head, dirty, packed, stable, merit, ledger, replaced, testing, records,
                 evaluation, published, process>>
TakeRecordAway(k) ==
  /\ Act /\ records[k] # Absent /\ records' = [records EXCEPT ![k] = Absent]
  /\ UNCHANGED <<head, dirty, packed, stable, merit, ledger, replaced, testing,
                 evaluation, published, file, process>>

\* A runner installs a private snapshot of the candidate.
StartRun(k) ==
  /\ testing[k] = Absent
  /\ Len(ledger) + Cardinality({j \in Kinds : testing[j] # Absent}) < MaxRuns
  /\ testing' = [testing EXCEPT ![k] = packed]
  /\ UNCHANGED <<head, dirty, packed, stable, merit, ledger, replaced, records,
                 evaluation, published, effort, file, process>>

\* A run of a kind that failed on the same artifact is a diagnostic rerun.
RerunOf(k, artifact) ==
  LET failed == {i \in Failures(ledger, k) : ledger[i].artifact = artifact}
  IN  IF failed = {} THEN 0 ELSE CHOOSE i \in failed : TRUE

\* The record is of the tested snapshot, and is written only while the candidate
\* that was retained still is that snapshot.  A run that fails throws before it.
Record(k, status) ==
  records' = [records EXCEPT ![k] =
    IF status # "FAILED" /\ packed = testing[k] /\ @ = Absent
    THEN [artifact |-> testing[k], status |-> status, at |-> Len(ledger) + 1]
    ELSE @]

FinishRun(k) ==
  /\ testing[k] # Absent
  /\ \E status \in {"PASSED", "FAILED", "INCONCLUSIVE"} :
       /\ ledger' = Append(ledger, Run(k, testing[k], status, RerunOf(k, testing[k])))
       /\ Record(k, status)
  /\ testing' = [testing EXCEPT ![k] = Absent]
  /\ UNCHANGED <<head, dirty, packed, stable, merit, replaced, evaluation, published,
                 effort, file, process>>

\* The team says which run replaces a failed one, rightly or not.
Resolve ==
  /\ \E o \in DOMAIN ledger \ DOMAIN replaced, r \in DOMAIN ledger :
       /\ ledger[o].status = "FAILED" /\ r > o
       /\ replaced' =
            [i \in DOMAIN replaced \cup {o} |-> IF i = o THEN r ELSE replaced[i]]
  /\ Act
  /\ UNCHANGED <<head, dirty, packed, stable, merit, ledger, testing, records,
                 evaluation, published, file, process>>

\* The draft evaluates the candidate that is bound, on what is known of it now.
Evaluate ==
  /\ file["bindings"] # Absent /\ ledger # <<>>
  /\ evaluation' =
       [artifact |-> file["bindings"].artifact, source |-> file["bindings"].source,
        lock |-> file["bindings"].lock, merit |-> merit[file["bindings"].artifact],
        history |-> ledger, replaced |-> replaced,
        platforms |-> [k \in Kinds \cap Platforms |-> records[k]]]
  /\ evaluation' # evaluation
  /\ Act
  /\ UNCHANGED <<head, dirty, packed, stable, merit, ledger, replaced, testing, records,
                 published, file, process>>

Evaluable(e) == LegalHistory(e.history, e.replaced, e.artifact)

\* The scorecard and the declared proofs, of the evaluation as it is now.
Publish ==
  /\ evaluation # Absent /\ Evaluable(evaluation)
  /\ published' =
       [scorecard |-> Scorecard(evaluation),
        proofs |-> [kind \in Declared |->
          [status |-> IF Expected(kind, Decision(evaluation)) = Absent THEN "PASSED"
                      ELSE Expected(kind, Decision(evaluation)),
           artifact |-> evaluation.artifact,
           source |-> IF HasSource(kind) THEN Source(kind, evaluation) ELSE Absent]]]
  /\ published' # published
  /\ Act
  /\ UNCHANGED <<head, dirty, packed, stable, merit, ledger, replaced, testing, records,
                 evaluation, file, process>>

-----------------------------------------------------------------------------
(* The commands.                                                           *)

Start(p, command, output, read) ==
  /\ process[p] = Idle /\ file[output] = Absent
  /\ process' = [process EXCEPT ![p] = [command |-> command, step |-> 1, read |-> read]]
  /\ UNCHANGED <<team, file>>
At(p, command, step) == process[p].command = command /\ process[p].step = step
Read(p) == process[p].read
Continue(p, read) ==
  /\ process' = [process EXCEPT ![p].step = @ + 1, ![p].read = read]
  /\ UNCHANGED <<team, file>>
\* The output is linked from a staging directory, and never over another.
Link(p, output, content) ==
  /\ file[output] = Absent
  /\ file' = [file EXCEPT ![output] = content]
  /\ process' = [process EXCEPT ![p] = Idle]
  /\ UNCHANGED team
Stop(p) ==
  /\ process[p] # Idle
  /\ process' = [process EXCEPT ![p] = Idle]
  /\ UNCHANGED <<team, file>>

\* inspectCleanSourceRevision is two commands of git: which revision, compared here with the
\* one it must be, and then whether the tree is clean.  Both may be true of no one moment.
FindRevision(p, command, step, source) ==
  At(p, command, step) /\ head = source /\ Continue(p, Read(p))
FindClean(p, command, step) == At(p, command, step) /\ ~dirty /\ Continue(p, Read(p))

\* bind: the clean revision, the digests, and the clean revision again.  Tarball and lock
\* change apart from each other, so that both digests are one step.
BindSource(p) == Start(p, "bind", "bindings", head)
BindFiles(p) ==
  /\ At(p, "bind", 2)
  /\ Continue(p, [source |-> Read(p), artifact |-> packed, lock |-> Lock])
BindConfirm(p) == At(p, "bind", 4) /\ ~dirty /\ Link(p, "bindings", Read(p))

\* collect: the bindings, then the records, all of the bound candidate.
CollectBindings(p) ==
  file["bindings"] # Absent /\ Start(p, "collect", "index", file["bindings"])
CollectRecords(p) ==
  /\ At(p, "collect", 1)
  /\ \E ks \in SUBSET {k \in Kinds : records[k] # Absent} \ {{}} :
       /\ \A k \in ks : records[k].artifact = Read(p).artifact
       /\ Continue(p, [bindings |-> Read(p), records |-> [k \in ks |-> records[k]]])
CollectLink(p) == At(p, "collect", 2) /\ Link(p, "index", Read(p))

\* assemble: the draft, the index, the records again, the bindings again.
AssembleDraft(p) ==
  /\ evaluation # Absent /\ published # Absent
  /\ Start(p, "assemble", "input", [evaluation |-> evaluation, published |-> published])
AssembleIndex(p) ==
  /\ At(p, "assemble", 1) /\ file["index"] # Absent
  /\ Continue(p, [index |-> file["index"], evaluation |-> Read(p).evaluation,
                  published |-> Read(p).published])
AssembleRecords(p) ==
  /\ At(p, "assemble", 2)
  /\ \A k \in DOMAIN Read(p).index.records : records[k] = Read(p).index.records[k]
  /\ Continue(p, Read(p))
AssembleBindings(p) ==
  LET index == Read(p).index IN
  /\ At(p, "assemble", 3)
  /\ file["bindings"] = index.bindings
  /\ Read(p).evaluation.artifact = index.bindings.artifact /\ Read(p).evaluation.merit.exact
  /\ Continue(p,
       [evaluation |-> Read(p).evaluation, scorecard |-> Read(p).published.scorecard,
        proofs |-> [kind \in Kinds \cup Declared |->
          IF kind \in Declared THEN Read(p).published.proofs[kind]
          ELSE IF kind \in DOMAIN index.records
          THEN [status |-> index.records[kind].status,
                artifact |-> index.records[kind].artifact, source |-> index.records[kind]]
          ELSE Absent]])
AssembleLink(p) == At(p, "assemble", 4) /\ Link(p, "input", Read(p))

\* qualify: the input and the bindings; then, against both, the clean revision, the
\* bytes and the clean revision again; then the manifest and its verdict.
QualifyInput(p) == file["input"] # Absent /\ Start(p, "qualify", "portfolio", file["input"])
QualifyBindings(p) ==
  /\ At(p, "qualify", 1) /\ file["bindings"] # Absent
  /\ Continue(p, [input |-> Read(p), bindings |-> file["bindings"]])
QualifySource(p, step) ==
  /\ FindRevision(p, "qualify", step, Read(p).bindings.source)
  /\ head = Read(p).input.evaluation.source
QualifyFiles(p) ==
  LET e == Read(p).input.evaluation IN
  /\ At(p, "qualify", 4)
  /\ packed = Read(p).bindings.artifact /\ packed = e.artifact /\ e.merit.exact
  /\ Lock = Read(p).bindings.lock /\ Lock = e.lock
  /\ Continue(p, Read(p))
Manifest(input) ==
  [evaluation |-> input.evaluation,
   verdict |-> Qualification(input.evaluation, input.scorecard, input.proofs)]
QualifyConfirm(p) ==
  LET input == Read(p).input IN
  /\ At(p, "qualify", 6) /\ ~dirty
  /\ Evaluable(input.evaluation) /\ Discloses(input.scorecard)
  /\ Link(p, "portfolio", Manifest(input))

\* hand off: a portfolio that promotes, then both tarballs.
HandoffPortfolio(p) ==
  /\ file["portfolio"] # Absent /\ file["portfolio"].verdict = "PROMOTE"
  /\ Start(p, "handoff", "receipt", file["portfolio"])

\* As if the retained tarball were taken for the qualified one.
BugTrustsRetained(candidate, proposed, e) ==
  proposed.of = candidate /\ proposed.drift # "BEHAVIOR"

Equivalent(candidate, proposed, e) ==
  /\ candidate = e.artifact
  /\ proposed.of = candidate /\ proposed.drift # "BEHAVIOR"
HandoffArtifacts(p) ==
  /\ At(p, "handoff", 1) /\ stable # Absent
  /\ Equivalent(packed, stable, Read(p).evaluation)
  /\ Continue(p, [evaluation |-> Read(p).evaluation, candidate |-> packed, stable |-> stable])
HandoffLink(p) == At(p, "handoff", 2) /\ Link(p, "receipt", Read(p))

-----------------------------------------------------------------------------

ReleaseNext ==
  \/ Edit \/ Commit \/ Pack \/ PackStable \/ Resolve \/ Evaluate \/ Publish
  \/ \E f \in Outputs : TakeAway(f)
  \/ \E k \in Kinds : TakeRecordAway(k) \/ StartRun(k) \/ FinishRun(k)
  \/ \E p \in Processes :
       \/ Stop(p)
       \/ BindSource(p) \/ FindClean(p, "bind", 1) \/ BindFiles(p)
       \/ FindRevision(p, "bind", 3, Read(p).source) \/ BindConfirm(p)
       \/ CollectBindings(p) \/ CollectRecords(p) \/ CollectLink(p)
       \/ AssembleDraft(p) \/ AssembleIndex(p) \/ AssembleRecords(p) \/ AssembleBindings(p)
       \/ AssembleLink(p)
       \/ QualifyInput(p) \/ QualifyBindings(p) \/ QualifySource(p, 2)
       \/ FindClean(p, "qualify", 3) \/ QualifyFiles(p) \/ QualifySource(p, 5) \/ QualifyConfirm(p)
       \/ HandoffPortfolio(p) \/ HandoffArtifacts(p) \/ HandoffLink(p)

ReleaseSpec == ReleaseInit /\ [][ReleaseNext]_releaseVars

\* A receipt is for a stable tarball that differs from the candidate only by its
\* version and documents; the candidate merits it and passed every proof there is;
\* and it is bound to a commit and its lock: what goes out is the exact build that
\* was proven (ADR 0087, 0313, 0317).
ReceiptIsProven ==
  LET receipt == file["receipt"] IN
  receipt # Absent =>
    /\ receipt.stable.of = receipt.candidate
    /\ receipt.stable.drift \in {"VERSION", "DOCUMENTATION"}
    /\ merit[receipt.candidate] = Good
    /\ receipt.evaluation.lock = receipt.evaluation.source
    /\ \A k \in Kinds : \E i \in DOMAIN ledger :
         /\ ledger[i].kind = k /\ ledger[i].status = "PASSED"
         /\ ledger[i].artifact = receipt.candidate

\* No rerun, and no other pass, erases a failure: none that a receipt's evaluation
\* knew is of its candidate, and each is replaced by name, by a later qualification
\* of the candidate that passed (ADR 0234).
NoFailureIsErased ==
  LET receipt == file["receipt"] IN
  receipt # Absent =>
    \A i \in DOMAIN receipt.evaluation.history :
      ledger[i].of = 0 /\ ledger[i].status = "FAILED" =>
        /\ ledger[i].artifact # receipt.candidate
        /\ i \in DOMAIN receipt.evaluation.replaced
        /\ LET j == receipt.evaluation.replaced[i] IN
             /\ j > i /\ ledger[j].kind = ledger[i].kind /\ ledger[j].of = 0
             /\ ledger[j].artifact = receipt.candidate /\ ledger[j].status = "PASSED"
=============================================================================
