---------------------------- MODULE ReleaseProofs ----------------------------
(***************************************************************************)
(* What a release receipt stands for, proved of ReleasePipeline for every  *)
(* set of artifacts, processes and kinds of run, every bound, and every    *)
(* merit an artifact may turn out to have.                                 *)
(*                                                                         *)
(* A command trusts what it has read: the invariant says of each file, and *)
(* of what each process has in hand at each step, what it is evidence of.  *)
(* The ledger only grows and merits do not change, so that evidence which  *)
(* was sound stays sound whatever the team does meanwhile.  The revision   *)
(* and its lock do change, and a look at them takes two commands of git,   *)
(* between which the team may edit and commit: what is bound has the lock  *)
(* of its revision, or one that is no longer the revision of the tree.     *)
(***************************************************************************)
EXTENDS ReleasePipeline, TLAPS

-----------------------------------------------------------------------------
(* Release: the inductive invariant.                                       *)

Runs ==
  [kind : Kinds, artifact : Artifacts, status : {"PASSED", "FAILED", "INCONCLUSIVE"}, of : Nat]

\* A proof record comes from a run of its kind, which did not fail.
FromRun(k, r) ==
  /\ r.status \in {"PASSED", "INCONCLUSIVE"}
  /\ \E i \in DOMAIN ledger : /\ ledger[i].kind = k /\ ledger[i].status = r.status
                              /\ ledger[i].artifact = r.artifact

\* The lock is the one of the revision, unless the tree has gone on from that revision since.
Settled(b) == b.lock = b.source \/ head > b.source

\* What is evaluated is what the ledger said at some moment of an artifact, and its merits.
EvaluationSound(e) ==
  /\ e.artifact \in Artifacts /\ e.source \in Nat /\ Settled(e)
  /\ e.merit = merit[e.artifact]
  /\ DOMAIN e.history \subseteq DOMAIN ledger
  /\ \A i \in DOMAIN e.history : e.history[i] = ledger[i]
  /\ \A o \in DOMAIN e.replaced : e.replaced[o] \in DOMAIN e.history

BindingsSound(b) == b.artifact \in Artifacts /\ b.source \in Nat /\ Settled(b)
IndexSound(index) ==
  \A k \in DOMAIN index.records : FromRun(k, index.records[k])
InputSound(input) ==
  /\ EvaluationSound(input.evaluation)
  /\ Kinds \subseteq DOMAIN input.proofs
  /\ \A k \in Kinds : input.proofs[k] # Absent => FromRun(k, input.proofs[k])

\* A failed qualification of the history is of another artifact, and is replaced.
Replaces(e, i) ==
  /\ e.history[i].artifact # e.artifact
  /\ i \in DOMAIN e.replaced
  /\ LET j == e.replaced[i] IN
       /\ j > i /\ e.history[j].kind = e.history[i].kind /\ e.history[j].of = 0
       /\ e.history[j].artifact = e.artifact /\ e.history[j].status = "PASSED"
Proven(e) ==
  /\ EvaluationSound(e)
  /\ e.merit = Good /\ e.lock = e.source
  /\ \A k \in Kinds : \E i \in DOMAIN ledger :
       ledger[i].kind = k /\ ledger[i].status = "PASSED" /\ ledger[i].artifact = e.artifact
  /\ \A i \in DOMAIN e.history :
       e.history[i].of = 0 /\ e.history[i].status = "FAILED" => Replaces(e, i)
ReceiptSound(receipt) ==
  /\ Proven(receipt.evaluation) /\ receipt.candidate = receipt.evaluation.artifact
  /\ receipt.stable.of = receipt.candidate
  /\ receipt.stable.drift \in {"VERSION", "DOCUMENTATION"}

TeamSound ==
  /\ head \in Nat /\ dirty \in BOOLEAN /\ packed \in Artifacts
  /\ stable # Absent => stable \in [of : Artifacts, drift : Drifts]
  /\ merit \in [Artifacts -> Merit] /\ ledger \in Seq(Runs)
  /\ \A o \in DOMAIN replaced : replaced[o] \in DOMAIN ledger
  /\ testing = [k \in Kinds |-> testing[k]] /\ records = [k \in Kinds |-> records[k]]
  /\ \A k \in Kinds : /\ testing[k] # Absent => testing[k] \in Artifacts
                      /\ records[k] # Absent => FromRun(k, records[k])
  /\ evaluation # Absent => EvaluationSound(evaluation)

FilesSound ==
  /\ file = [f \in Outputs |-> file[f]]
  /\ file["bindings"] # Absent => BindingsSound(file["bindings"])
  /\ file["index"] # Absent => IndexSound(file["index"])
  /\ file["input"] # Absent => InputSound(file["input"])
  /\ file["portfolio"] # Absent /\ file["portfolio"].verdict = "PROMOTE" =>
       Proven(file["portfolio"].evaluation)
  /\ file["receipt"] # Absent => ReceiptSound(file["receipt"])

\* Until bind has found the tree clean again, the lock may also be of a tree that is not.
Binding(b) ==
  /\ b.artifact \in Artifacts /\ b.source \in Nat
  /\ head >= b.source
  /\ Settled(b) \/ dirty

ProcessSound(c) ==
  /\ DOMAIN c = {"command", "step", "read"} /\ c.step \in Nat
  /\ c.command = "bind" /\ c.step \in {1, 2} => c.read \in Nat /\ head >= c.read
  /\ c.command = "bind" /\ c.step \in {3, 4} => Binding(c.read)
  /\ c.command = "collect" /\ c.step = 2 => IndexSound(c.read)
  /\ c.command = "assemble" /\ c.step \in 1 .. 3 => EvaluationSound(c.read.evaluation)
  /\ c.command = "assemble" /\ c.step \in {2, 3} => IndexSound(c.read.index)
  /\ c.command = "assemble" /\ c.step = 4 => InputSound(c.read)
  /\ c.command = "qualify" /\ c.step = 1 => InputSound(c.read)
  /\ c.command = "qualify" /\ c.step \in 2 .. 6 => InputSound(c.read.input)
  /\ c.command = "qualify" /\ c.step \in 3 .. 6 =>
       c.read.input.evaluation.lock = c.read.input.evaluation.source
  /\ c.command = "handoff" /\ c.step = 1 => Proven(c.read.evaluation)
  /\ c.command = "handoff" /\ c.step = 2 => ReceiptSound(c.read)

ReleaseInv ==
  /\ TeamSound /\ FilesSound
  /\ process = [p \in Processes |-> process[p]]
  /\ \A p \in Processes : ProcessSound(process[p])

-----------------------------------------------------------------------------
(* Release: one step.                                                      *)

\* The ledger only grows, the revision only moves on and merits do not change: what was
\* sound of evidence stays so.
Grows ==
  /\ head \in Nat /\ head' \in Nat /\ head' >= head
  /\ merit' = merit
  /\ DOMAIN ledger \subseteq DOMAIN ledger'
  /\ \A i \in DOMAIN ledger : ledger'[i] = ledger[i]

LEMMA EvidenceStays ==
    ASSUME Grows
    PROVE  /\ \A k, r : FromRun(k, r) => FromRun(k, r)'
           /\ \A e : EvaluationSound(e) => EvaluationSound(e)'
           /\ \A b : BindingsSound(b) => BindingsSound(b)'
           /\ \A index : IndexSound(index) => IndexSound(index)'
           /\ \A input : InputSound(input) => InputSound(input)'
           /\ \A e : Proven(e) => Proven(e)'
           /\ \A receipt : ReceiptSound(receipt) => ReceiptSound(receipt)'
<1>1. \A k, r : FromRun(k, r) => FromRun(k, r)'
  BY DEF FromRun, Grows
<1>2. \A b : b.source \in Nat /\ Settled(b) => Settled(b)'
  BY DEF Settled, Grows
<1>3. \A e : EvaluationSound(e) => EvaluationSound(e)'
  BY <1>2 DEF EvaluationSound, Grows
<1>4. \A b : BindingsSound(b) => BindingsSound(b)'
  BY <1>2 DEF BindingsSound
<1>5. \A index : IndexSound(index) => IndexSound(index)'
  BY <1>1 DEF IndexSound
<1>6. \A input : InputSound(input) => InputSound(input)'
  BY <1>1, <1>3 DEF InputSound
<1>7. ASSUME NEW e, Proven(e)
      PROVE  Proven(e)'
  <2>1. EvaluationSound(e)'
    BY <1>3, <1>7 DEF Proven
  <2>2. \A k \in Kinds : \E i \in DOMAIN ledger' :
          ledger'[i].kind = k /\ ledger'[i].status = "PASSED" /\ ledger'[i].artifact = e.artifact
    BY <1>7 DEF Proven, Grows
  <2>3. \A i : Replaces(e, i)' <=> Replaces(e, i)
    BY DEF Replaces
  <2> QED
    BY <1>7, <2>1, <2>2, <2>3 DEF Proven
<1>8. \A receipt : ReceiptSound(receipt) => ReceiptSound(receipt)'
  BY <1>7 DEF ReceiptSound
<1> QED
  BY <1>1, <1>3, <1>4, <1>5, <1>6, <1>7, <1>8

\* An edit ends in a commit: a tree that was not clean is so no more only at a later revision.
MovesOn == head' >= head /\ (dirty => dirty' \/ head' > head)

LEMMA ProcessStays ==
    ASSUME Grows, MovesOn, NEW c, ProcessSound(c)
    PROVE  ProcessSound(c)'
<1>1. c.command = "bind" /\ c.step \in {1, 2} => c.read \in Nat /\ head' >= c.read
  BY DEF ProcessSound, Grows
<1>2. \A b : Binding(b) => Binding(b)'
  BY DEF Binding, Settled, Grows, MovesOn
<1> QED
  BY <1>1, <1>2, EvidenceStays DEF ProcessSound

\* A step of the team: the processes and the files, if it takes none away, are as before.
LEMMA TeamStep ==
    ASSUME ReleaseInv, Grows, MovesOn, TeamSound',
           process' = process,
           \/ file' = file
           \/ \E f \in Outputs : file' = [file EXCEPT ![f] = Absent]
    PROVE  ReleaseInv'
<1>1. ASSUME NEW p \in Processes
      PROVE  ProcessSound(process[p])'
  <2>1. PICK c : c = process[p]
    OBVIOUS
  <2>2. ProcessSound(c)'
    BY <2>1, ProcessStays DEF ReleaseInv
  <2> QED
    BY <2>1, <2>2
<1>2. FilesSound'
  <2>1. /\ file' = [f \in Outputs |-> file'[f]]
        /\ \A f \in Outputs : file'[f] = file[f] \/ file'[f] = Absent
    BY DEF ReleaseInv, FilesSound
  <2>2. \A f \in {"bindings", "index", "input", "portfolio", "receipt"} :
          file'[f] = file[f] \/ file'[f] = Absent
    BY <2>1 DEF Outputs
  <2> QED
    BY <2>1, <2>2, EvidenceStays DEF ReleaseInv, FilesSound
<1> QED
  BY <1>1, <1>2 DEF ReleaseInv

\* A proof record that is left alone keeps its run.
LEMMA RecordsStay ==
    ASSUME ReleaseInv, Grows, NEW k \in Kinds, records'[k] # Absent, records'[k] = records[k]
    PROVE  FromRun(k, records[k])'
<1>1. PICK r : r = records[k] /\ FromRun(k, r)
  BY DEF ReleaseInv, TeamSound
<1>2. FromRun(k, r)'
  BY <1>1, EvidenceStays
<1> QED
  BY <1>1, <1>2

\* A step of a command: the team rests.
LEMMA CommandStep ==
    ASSUME ReleaseInv, NEW p \in Processes, NEW new,
           UNCHANGED team, process' = [process EXCEPT ![p] = new],
           ProcessSound(new), FilesSound'
    PROVE  ReleaseInv'
<1>1. Grows /\ MovesOn
  BY DEF team, Grows, MovesOn, ReleaseInv, TeamSound
<1>2. TeamSound'
  <2>1. ASSUME NEW k \in Kinds, records'[k] # Absent
        PROVE  FromRun(k, records[k])'
    BY <1>1, <2>1, RecordsStay DEF team
  <2>2. evaluation' # Absent => EvaluationSound(evaluation)'
    BY <1>1, EvidenceStays DEF ReleaseInv, TeamSound, team
  <2> QED
    BY <2>1, <2>2 DEF ReleaseInv, TeamSound, team
<1>3. ASSUME NEW q \in Processes
      PROVE  ProcessSound(process[q])'
  <2>1. PICK c : c = process'[q] /\ ProcessSound(c)
    BY DEF ReleaseInv
  <2>2. ProcessSound(c)'
    BY <1>1, <2>1, ProcessStays
  <2> QED
    BY <2>1, <2>2
<1> QED
  BY <1>2, <1>3 DEF ReleaseInv

\* What a step of the team that neither runs nor evaluates keeps of the rest.
LEMMA TeamRest ==
    ASSUME ReleaseInv, MovesOn,
           merit' = merit, ledger' = ledger, evaluation' = evaluation, testing' = testing,
           records' = records, replaced' = replaced,
           head' \in Nat, dirty' \in BOOLEAN, packed' \in Artifacts,
           stable' # Absent => stable' \in [of : Artifacts, drift : Drifts]
    PROVE  Grows /\ TeamSound'
<1>1. Grows
  BY DEF Grows, MovesOn, ReleaseInv, TeamSound
<1>2. ASSUME NEW k \in Kinds, records'[k] # Absent
      PROVE  FromRun(k, records[k])'
  BY <1>1, <1>2, RecordsStay
<1>3. evaluation' # Absent => EvaluationSound(evaluation)'
  BY <1>1, EvidenceStays DEF ReleaseInv, TeamSound
<1> QED
  BY <1>1, <1>2, <1>3 DEF ReleaseInv, TeamSound

LEMMA TeamActs ==
    ASSUME ReleaseInv, Edit \/ Commit \/ Pack \/ PackStable \/ Publish
    PROVE  ReleaseInv'
<1>1. /\ head' \in Nat /\ dirty' \in BOOLEAN /\ packed' \in Artifacts
      /\ stable' # Absent => stable' \in [of : Artifacts, drift : Drifts]
      /\ MovesOn
  <2>1. CASE Edit
    <3>1. head' = head /\ dirty' = TRUE /\ stable' = stable /\ packed' = packed
      BY <2>1 DEF Edit
    <3> QED
      BY <3>1 DEF ReleaseInv, TeamSound, MovesOn
  <2>4. CASE Commit
    <3>1. head' = head + 1 /\ dirty' = FALSE /\ stable' = stable /\ packed' = packed
      BY <2>4 DEF Commit
    <3>2. head \in Nat /\ packed \in Artifacts
      BY DEF ReleaseInv, TeamSound
    <3>3. head' \in Nat /\ head' > head /\ head' >= head
      BY <3>1, <3>2
    <3>4. MovesOn
      BY <3>3 DEF MovesOn
    <3> QED
      BY <3>1, <3>2, <3>3, <3>4 DEF ReleaseInv, TeamSound
  <2>3. CASE Pack \/ Publish
    <3>1. head' = head /\ dirty' = dirty /\ stable' = stable /\ packed' \in Artifacts
      BY <2>3 DEF ReleaseInv, TeamSound, Pack, Publish
    <3> QED
      BY <3>1 DEF ReleaseInv, TeamSound, MovesOn
  <2>2. CASE PackStable
    <3>1. packed \in Artifacts
      BY DEF ReleaseInv, TeamSound
    <3>2. stable' \in [of : Artifacts, drift : Drifts]
      BY <2>2, <3>1 DEF PackStable
    <3> QED
      BY <2>2, <3>1, <3>2 DEF ReleaseInv, TeamSound, PackStable, MovesOn
  <2> QED
    BY <2>1, <2>2, <2>3, <2>4
<1>2. /\ merit' = merit /\ ledger' = ledger /\ evaluation' = evaluation /\ testing' = testing
      /\ records' = records /\ replaced' = replaced /\ process' = process /\ file' = file
  BY DEF Edit, Commit, Pack, PackStable, Publish
<1> QED
  BY <1>1, <1>2, TeamRest, TeamStep

LEMMA TakeAwayKeeps ==
    ASSUME ReleaseInv, NEW f \in Outputs, TakeAway(f)
    PROVE  ReleaseInv'
<1>1. /\ head' \in Nat /\ dirty' \in BOOLEAN /\ packed' \in Artifacts
      /\ stable' # Absent => stable' \in [of : Artifacts, drift : Drifts]
      /\ MovesOn
  BY DEF ReleaseInv, TeamSound, TakeAway, MovesOn
<1> QED
  BY <1>1, TeamRest, TeamStep DEF TakeAway

LEMMA TakeRecordAwayKeeps ==
    ASSUME ReleaseInv, NEW k \in Kinds, TakeRecordAway(k)
    PROVE  ReleaseInv'
<1>1. Grows /\ MovesOn
  BY DEF ReleaseInv, TeamSound, TakeRecordAway, Grows, MovesOn
<1>2. /\ records' = [j \in Kinds |-> records'[j]]
      /\ \A j \in Kinds : records'[j] # Absent => records'[j] = records[j]
  BY DEF ReleaseInv, TeamSound, TakeRecordAway
<1>3. ASSUME NEW j \in Kinds, records'[j] # Absent
      PROVE  FromRun(j, records[j])'
  BY <1>1, <1>2, <1>3, RecordsStay
<1>4. evaluation' # Absent => EvaluationSound(evaluation)'
  BY <1>1, EvidenceStays DEF ReleaseInv, TeamSound, TakeRecordAway
<1>5. TeamSound'
  BY <1>2, <1>3, <1>4 DEF ReleaseInv, TeamSound, TakeRecordAway
<1> QED
  BY <1>1, <1>5, TeamStep DEF TakeRecordAway

LEMMA StartRunKeeps ==
    ASSUME ReleaseInv, NEW k \in Kinds, StartRun(k)
    PROVE  ReleaseInv'
<1>1. Grows /\ MovesOn
  BY DEF ReleaseInv, TeamSound, StartRun, Grows, MovesOn
<1>2. /\ testing' = [j \in Kinds |-> testing'[j]]
      /\ \A j \in Kinds : testing'[j] # Absent => testing'[j] \in Artifacts
  BY DEF ReleaseInv, TeamSound, StartRun
<1>3. ASSUME NEW j \in Kinds, records'[j] # Absent
      PROVE  FromRun(j, records[j])'
  BY <1>1, <1>3, RecordsStay DEF StartRun
<1>4. evaluation' # Absent => EvaluationSound(evaluation)'
  BY <1>1, EvidenceStays DEF ReleaseInv, TeamSound, StartRun
<1>5. TeamSound'
  BY <1>2, <1>3, <1>4 DEF ReleaseInv, TeamSound, StartRun
<1> QED
  BY <1>1, <1>5, TeamStep DEF StartRun

\* A run ends: the ledger has one run more, of the snapshot that was tested.
LEMMA FinishRunKeeps ==
    ASSUME ReleaseInv, NEW k \in Kinds, FinishRun(k)
    PROVE  ReleaseInv'
<1> DEFINE n == Len(ledger)
<1>1. PICK status \in {"PASSED", "FAILED", "INCONCLUSIVE"} :
        /\ ledger' = Append(ledger, Run(k, testing[k], status, RerunOf(k, testing[k])))
        /\ Record(k, status)
  BY DEF FinishRun
<1>2. /\ ledger \in Seq(Runs) /\ n \in Nat
      /\ testing[k] \in Artifacts
  BY DEF ReleaseInv, TeamSound, FinishRun
<1>3. RerunOf(k, testing[k]) \in Nat
  <2>1. \A i \in Failures(ledger, k) : i \in Nat
    BY <1>2 DEF Failures
  <2> QED
    BY <2>1 DEF RerunOf
<1>4. PICK run \in Runs : /\ ledger' = Append(ledger, run)
                          /\ run.kind = k /\ run.status = status /\ run.artifact = testing[k]
  BY <1>1, <1>2, <1>3 DEF Run, Runs
<1>5. /\ ledger' \in Seq(Runs) /\ DOMAIN ledger = 1 .. n /\ DOMAIN ledger' = 1 .. n + 1
      /\ \A i \in 1 .. n : ledger'[i] = ledger[i]
      /\ ledger'[n + 1] = run
  BY <1>2, <1>4
<1> HIDE DEF n
<1>6. Grows /\ MovesOn
  BY <1>2, <1>5 DEF ReleaseInv, TeamSound, FinishRun, Grows, MovesOn
<1>7. /\ records' = [j \in Kinds |-> records'[j]]
      /\ \A j \in Kinds : j # k => records'[j] = records[j]
      /\ \/ records'[k] = records[k]
         \/ status # "FAILED" /\ \E at : records'[k] = [artifact |-> testing[k], status |-> status, at |-> at]
  BY <1>1 DEF ReleaseInv, TeamSound, Record
<1>8. ASSUME NEW j \in Kinds, records'[j] # Absent
      PROVE  FromRun(j, records[j])'
  <2>1. CASE records'[j] = records[j]
    BY <1>6, <1>8, <2>1, RecordsStay
  <2>2. CASE records'[j] # records[j]
    <3>1. /\ j = k /\ status \in {"PASSED", "INCONCLUSIVE"}
          /\ records'[j].artifact = testing[k] /\ records'[j].status = status
      BY <1>7, <2>2
    <3>2. n + 1 \in DOMAIN ledger'
      BY <1>2, <1>5
    <3> QED
      BY <1>4, <1>5, <3>1, <3>2 DEF FromRun
  <2> QED
    BY <2>1, <2>2
<1>9. evaluation' # Absent => EvaluationSound(evaluation)'
  BY <1>6, EvidenceStays DEF ReleaseInv, TeamSound, FinishRun
<1>10. /\ testing' = [j \in Kinds |-> testing'[j]]
       /\ \A j \in Kinds : testing'[j] # Absent => testing'[j] \in Artifacts
  BY DEF ReleaseInv, TeamSound, FinishRun
<1>11. \A o \in DOMAIN replaced' : replaced'[o] \in DOMAIN ledger'
  BY <1>6 DEF ReleaseInv, TeamSound, FinishRun, Grows
<1>12. TeamSound'
  BY <1>5, <1>7, <1>8, <1>9, <1>10, <1>11 DEF ReleaseInv, TeamSound, FinishRun
<1> QED
  BY <1>6, <1>12, TeamStep DEF FinishRun

LEMMA ResolveKeeps ==
    ASSUME ReleaseInv, Resolve
    PROVE  ReleaseInv'
<1>1. Grows /\ MovesOn
  BY DEF ReleaseInv, TeamSound, Resolve, Grows, MovesOn
<1>2. \A o \in DOMAIN replaced' : replaced'[o] \in DOMAIN ledger'
  BY DEF ReleaseInv, TeamSound, Resolve
<1>3. ASSUME NEW j \in Kinds, records'[j] # Absent
      PROVE  FromRun(j, records[j])'
  BY <1>1, <1>3, RecordsStay DEF Resolve
<1>4. evaluation' # Absent => EvaluationSound(evaluation)'
  BY <1>1, EvidenceStays DEF ReleaseInv, TeamSound, Resolve
<1>5. TeamSound'
  BY <1>2, <1>3, <1>4 DEF ReleaseInv, TeamSound, Resolve
<1> QED
  BY <1>1, <1>5, TeamStep DEF Resolve

LEMMA EvaluateKeeps ==
    ASSUME ReleaseInv, Evaluate
    PROVE  ReleaseInv'
<1>1. Grows /\ MovesOn
  BY DEF ReleaseInv, TeamSound, Evaluate, Grows, MovesOn
<1>2. EvaluationSound(evaluation)'
  <2>1. BindingsSound(file["bindings"])
    BY DEF ReleaseInv, FilesSound, Evaluate
  <2>2. /\ evaluation'.artifact \in Artifacts /\ evaluation'.source \in Nat
        /\ evaluation'.merit = merit[evaluation'.artifact]
        /\ evaluation'.history = ledger /\ evaluation'.replaced = replaced
    BY <2>1 DEF Evaluate, BindingsSound
  <2>3. Settled(evaluation)'
    BY <2>1 DEF Evaluate, BindingsSound, Settled
  <2> QED
    BY <1>1, <2>2, <2>3 DEF EvaluationSound, Grows, ReleaseInv, TeamSound
<1>3. ASSUME NEW j \in Kinds, records'[j] # Absent
      PROVE  FromRun(j, records[j])'
  BY <1>1, <1>3, RecordsStay DEF Evaluate
<1>4. TeamSound'
  BY <1>2, <1>3 DEF ReleaseInv, TeamSound, Evaluate
<1> QED
  BY <1>1, <1>4, TeamStep DEF Evaluate

-----------------------------------------------------------------------------
(* Release: the commands.                                                  *)

\* While the team rests nothing of the evidence changes its meaning.
LEMMA EvidenceRests ==
    ASSUME TeamSound, FilesSound, UNCHANGED team,
           NEW output, NEW content,
           file' = file \/ file' = [file EXCEPT ![output] = content],
           output = "bindings" => BindingsSound(content),
           output = "index" => IndexSound(content),
           output = "input" => InputSound(content),
           output = "portfolio" /\ content.verdict = "PROMOTE" => Proven(content.evaluation),
           output = "receipt" => ReceiptSound(content)
    PROVE  FilesSound'
<1>1. Grows
  BY DEF Grows, team, TeamSound
<1>2. /\ file' = [f \in Outputs |-> file'[f]]
      /\ \A f \in Outputs : file'[f] = file[f] \/ (f = output /\ file'[f] = content)
  BY DEF FilesSound
<1>3. \A f \in {"bindings", "index", "input", "portfolio", "receipt"} :
        file'[f] = file[f] \/ (f = output /\ file'[f] = content)
  BY <1>2 DEF Outputs
<1> QED
  BY <1>1, <1>2, <1>3, EvidenceStays DEF FilesSound

LEMMA StopKeeps ==
    ASSUME ReleaseInv, NEW p \in Processes, Stop(p)
    PROVE  ReleaseInv'
<1>1. ProcessSound(Idle)
  BY DEF Idle, ProcessSound
<1>2. FilesSound'
  BY EvidenceRests DEF Stop, ReleaseInv
<1> QED
  BY <1>1, <1>2, CommandStep DEF Stop

\* A command begins with what it reads first.
LEMMA StartKeeps ==
    ASSUME ReleaseInv, NEW p \in Processes, NEW command, NEW output, NEW read,
           Start(p, command, output, read),
           ProcessSound([command |-> command, step |-> 1, read |-> read])
    PROVE  ReleaseInv'
<1>1. FilesSound'
  BY EvidenceRests DEF Start, ReleaseInv
<1> QED
  BY <1>1, CommandStep DEF Start

\* A command goes on with what it has read.
LEMMA ContinueKeeps ==
    ASSUME ReleaseInv, NEW p \in Processes, NEW command, NEW step \in Nat, NEW read,
           At(p, command, step), Continue(p, read),
           ProcessSound([command |-> command, step |-> step + 1, read |-> read])
    PROVE  ReleaseInv'
<1>1. FilesSound'
  BY EvidenceRests DEF Continue, ReleaseInv
<1>2. PICK new : new = [process[p] EXCEPT !.step = @ + 1, !.read = read]
  OBVIOUS
<1>3. process' = [process EXCEPT ![p] = new]
  BY <1>2 DEF Continue
<1>4. ProcessSound(process[p])
  BY DEF ReleaseInv
<1>5. new = [command |-> command, step |-> step + 1, read |-> read]
  BY <1>2, <1>4 DEF At, ProcessSound
<1> QED
  BY <1>1, <1>3, <1>5, CommandStep DEF Continue

\* A command links its one output and ends.
LEMMA LinkKeeps ==
    ASSUME ReleaseInv, NEW p \in Processes, NEW output, NEW content, Link(p, output, content),
           output = "bindings" => BindingsSound(content),
           output = "index" => IndexSound(content),
           output = "input" => InputSound(content),
           output = "portfolio" /\ content.verdict = "PROMOTE" => Proven(content.evaluation),
           output = "receipt" => ReceiptSound(content)
    PROVE  ReleaseInv'
<1>1. ProcessSound(Idle)
  BY DEF Idle, ProcessSound
<1>2. FilesSound'
  BY EvidenceRests DEF Link, ReleaseInv
<1> QED
  BY <1>1, <1>2, CommandStep DEF Link

\* A look of git at the revision, or at the tree, leaves all as it is.
LEMMA LookKeeps ==
    ASSUME ReleaseInv, NEW p \in Processes, NEW command, NEW step \in Nat,
           At(p, command, step), Continue(p, Read(p)),
           ProcessSound([command |-> command, step |-> step, read |-> Read(p)]) =>
             ProcessSound([command |-> command, step |-> step + 1, read |-> Read(p)])
    PROVE  ReleaseInv'
<1>1. PICK c : c = process[p] /\ ProcessSound(c)
  BY DEF ReleaseInv
<1>2. c.command = command /\ c.step = step /\ c.read = Read(p)
  BY <1>1 DEF At, Read
<1>3. ProcessSound([command |-> command, step |-> step, read |-> Read(p)])
  BY <1>1, <1>2 DEF ProcessSound
<1> QED
  BY <1>3, ContinueKeeps

LEMMA BindKeeps ==
    ASSUME ReleaseInv, NEW p \in Processes,
           \/ BindSource(p) \/ FindClean(p, "bind", 1) \/ BindFiles(p)
           \/ FindRevision(p, "bind", 3, Read(p).source) \/ BindConfirm(p)
    PROVE  ReleaseInv'
<1>1. head \in Nat /\ packed \in Artifacts
  BY DEF ReleaseInv, TeamSound
<1>2. CASE BindSource(p)
  <2>1. ProcessSound([command |-> "bind", step |-> 1, read |-> head])
    BY <1>1 DEF ProcessSound
  <2> QED
    BY <1>2, <2>1, StartKeeps DEF BindSource
<1>3. CASE FindClean(p, "bind", 1)
  BY <1>3, LookKeeps DEF FindClean, ProcessSound
<1>4. CASE BindFiles(p)
  <2>1. PICK read : read = [source |-> Read(p), artifact |-> packed, lock |-> Lock]
    OBVIOUS
  <2>2. Read(p) \in Nat /\ head >= Read(p)
    BY <1>4 DEF BindFiles, At, Read, ReleaseInv, ProcessSound
  <2>3. Binding(read)
    BY <1>1, <2>1, <2>2 DEF Binding, Settled, Lock
  <2>4. ProcessSound([command |-> "bind", step |-> 2 + 1, read |-> read])
    BY <2>3 DEF ProcessSound
  <2> QED
    BY <1>4, <2>1, <2>4, ContinueKeeps DEF BindFiles
<1>5. CASE FindRevision(p, "bind", 3, Read(p).source)
  BY <1>5, LookKeeps DEF FindRevision, ProcessSound
<1>6. CASE BindConfirm(p)
  <2>1. Binding(Read(p)) /\ ~dirty
    BY <1>6 DEF BindConfirm, At, Read, ReleaseInv, ProcessSound
  <2>2. BindingsSound(Read(p))
    BY <2>1 DEF Binding, BindingsSound
  <2> QED
    BY <1>6, <2>2, LinkKeeps DEF BindConfirm
<1> QED
  BY <1>2, <1>3, <1>4, <1>5, <1>6

LEMMA CollectKeeps ==
    ASSUME ReleaseInv, NEW p \in Processes,
           CollectBindings(p) \/ CollectRecords(p) \/ CollectLink(p)
    PROVE  ReleaseInv'
<1>1. CASE CollectBindings(p)
  <2>1. ProcessSound([command |-> "collect", step |-> 1, read |-> file["bindings"]])
    BY DEF ProcessSound
  <2> QED
    BY <1>1, <2>1, StartKeeps DEF CollectBindings
<1>2. CASE CollectRecords(p)
  <2>1. PICK ks \in SUBSET {k \in Kinds : records[k] # Absent} :
          Continue(p, [bindings |-> Read(p), records |-> [k \in ks |-> records[k]]])
    BY <1>2 DEF CollectRecords
  <2>2. PICK read : read = [bindings |-> Read(p), records |-> [k \in ks |-> records[k]]]
    OBVIOUS
  <2>3. IndexSound(read)
    BY <2>2 DEF IndexSound, ReleaseInv, TeamSound
  <2>4. ProcessSound([command |-> "collect", step |-> 1 + 1, read |-> read])
    BY <2>3 DEF ProcessSound
  <2> QED
    BY <1>2, <2>1, <2>2, <2>4, ContinueKeeps DEF CollectRecords
<1>3. CASE CollectLink(p)
  <2>1. IndexSound(Read(p))
    BY <1>3 DEF CollectLink, At, Read, ReleaseInv, ProcessSound
  <2> QED
    BY <1>3, <2>1, LinkKeeps DEF CollectLink
<1> QED
  BY <1>1, <1>2, <1>3

LEMMA AssembleKeeps ==
    ASSUME ReleaseInv, NEW p \in Processes,
           \/ AssembleDraft(p) \/ AssembleIndex(p) \/ AssembleRecords(p)
           \/ AssembleBindings(p) \/ AssembleLink(p)
    PROVE  ReleaseInv'
<1>1. CASE AssembleDraft(p)
  <2>1. PICK read : read = [evaluation |-> evaluation, published |-> published]
    OBVIOUS
  <2>2. EvaluationSound(read.evaluation)
    BY <1>1, <2>1 DEF AssembleDraft, ReleaseInv, TeamSound
  <2>3. ProcessSound([command |-> "assemble", step |-> 1, read |-> read])
    BY <2>2 DEF ProcessSound
  <2> QED
    BY <1>1, <2>1, <2>3, StartKeeps DEF AssembleDraft
<1>2. CASE AssembleIndex(p)
  <2>1. PICK read : read = [index |-> file["index"], evaluation |-> Read(p).evaluation,
                            published |-> Read(p).published]
    OBVIOUS
  <2>2. EvaluationSound(Read(p).evaluation) /\ IndexSound(file["index"])
    BY <1>2 DEF AssembleIndex, At, Read, ReleaseInv, FilesSound, ProcessSound
  <2>3. ProcessSound([command |-> "assemble", step |-> 1 + 1, read |-> read])
    BY <2>1, <2>2 DEF ProcessSound
  <2> QED
    BY <1>2, <2>1, <2>3, ContinueKeeps DEF AssembleIndex
<1>3. CASE AssembleRecords(p)
  <2>1. EvaluationSound(Read(p).evaluation) /\ IndexSound(Read(p).index)
    BY <1>3 DEF AssembleRecords, At, Read, ReleaseInv, ProcessSound
  <2>2. ProcessSound([command |-> "assemble", step |-> 2 + 1, read |-> Read(p)])
    BY <2>1 DEF ProcessSound
  <2> QED
    BY <1>3, <2>2, ContinueKeeps DEF AssembleRecords
<1>4. CASE AssembleBindings(p)
  <2>1. EvaluationSound(Read(p).evaluation) /\ IndexSound(Read(p).index)
    <3>1. At(p, "assemble", 3)
      BY <1>4 DEF AssembleBindings
    <3> QED
      BY <3>1 DEF At, Read, ReleaseInv, ProcessSound
  <2>2. PICK read : read =
         [evaluation |-> Read(p).evaluation, scorecard |-> Read(p).published.scorecard,
          proofs |-> [kind \in Kinds \cup Declared |->
            IF kind \in Declared THEN Read(p).published.proofs[kind]
            ELSE IF kind \in DOMAIN Read(p).index.records
            THEN [status |-> Read(p).index.records[kind].status,
                  artifact |-> Read(p).index.records[kind].artifact,
                  source |-> Read(p).index.records[kind]]
            ELSE Absent]]
    OBVIOUS
  <2>3. ASSUME NEW k \in Kinds, read.proofs[k] # Absent
        PROVE  FromRun(k, read.proofs[k])
    <3>1. k \notin Declared
      BY KindsAreDeterministic
    <3>2. /\ k \in DOMAIN Read(p).index.records
          /\ read.proofs[k].status = Read(p).index.records[k].status
          /\ read.proofs[k].artifact = Read(p).index.records[k].artifact
      BY <2>2, <2>3, <3>1
    <3> QED
      BY <2>1, <3>2 DEF IndexSound, FromRun
  <2>4. InputSound(read)
    BY <2>1, <2>2, <2>3 DEF InputSound
  <2>5. ProcessSound([command |-> "assemble", step |-> 3 + 1, read |-> read])
    BY <2>4 DEF ProcessSound
  <2>6. Continue(p, read) /\ At(p, "assemble", 3)
    BY <1>4, <2>2 DEF AssembleBindings
  <2> QED
    BY <2>5, <2>6, ContinueKeeps
<1>5. CASE AssembleLink(p)
  <2>1. InputSound(Read(p))
    BY <1>5 DEF AssembleLink, At, Read, ReleaseInv, ProcessSound
  <2> QED
    BY <1>5, <2>1, LinkKeeps DEF AssembleLink
<1> QED
  BY <1>1, <1>2, <1>3, <1>4, <1>5

-----------------------------------------------------------------------------
(* Release: what the constitution makes of the evidence.                   *)

\* A promoted artifact has no defect, and its ledger none left.
LEMMA PromotedIsGood ==
    ASSUME NEW e, e.merit \in Merits, e.merit.bundled, Promotion(Decision(e)) = "PROMOTE"
    PROVE  e.merit = Good /\ HistoryDecision(e) = "PASSED"
<1> DEFINE m == e.merit
           passes(c) == CheckStatus(c, e) \notin {"FAILED", "INCONCLUSIVE"}
<1>1. \A c \in Checked : passes(c)
  BY DEF Promotion, Decision
<1>2. /\ {"PRE_REGISTERED", "CALIBRATED_BEFORE", "CONFORMANCE", "DETERMINISTIC_FAILURES",
          "EXACT_ARTIFACT", "PAIRED_EVIDENCE", "NON_INFERIOR"} \subseteq Checked
      /\ CountChecks \subseteq Checked
      /\ EffectivenessChecks \cup UtilityChecks \subseteq Checked
  BY DEF Checked, CheckIds, Platforms, CountChecks, SelfSecurityChecks, EffectivenessChecks,
         UtilityChecks
<1>3. m.registered = TRUE
  <2>1. CheckStatus("PRE_REGISTERED", e) = Pass(m.registered)
    BY DEF CheckStatus, CountChecks, SelfSecurityChecks, Platforms
  <2> QED
    BY <1>1, <1>2, <2>1 DEF Pass, Merits
<1>4. m.calibrated = TRUE
  <2>1. CheckStatus("CALIBRATED_BEFORE", e) = Pass(m.calibrated)
    BY DEF CheckStatus, CountChecks, SelfSecurityChecks, Platforms
  <2> QED
    BY <1>1, <1>2, <2>1 DEF Pass, Merits
<1>5. m.complete = TRUE /\ m.conformance = "PASSED"
  <2>1. CheckStatus("CONFORMANCE", e) = HardSafetyStatus("CONFORMANCE", e)
    BY DEF CheckStatus, CountChecks, SelfSecurityChecks, Platforms
  <2>2. passes("CONFORMANCE")
    BY <1>1, <1>2
  <2> QED
    BY <2>1, <2>2 DEF HardSafetyStatus, CompleteOr, Merits
<1>6. m.counts = {}
  <2>1. ASSUME NEW c \in CountChecks
        PROVE  c \notin m.counts
    <3>1. c \notin Platforms \cup
            {"PRE_REGISTERED", "CALIBRATED_BEFORE", "CONFORMANCE", "DETERMINISTIC_FAILURES",
             "EXACT_ARTIFACT", "PAIRED_EVIDENCE", "NON_INFERIOR"}
      BY DEF CountChecks, SelfSecurityChecks, Platforms
    <3>2. CheckStatus(c, e) = HardSafetyStatus(c, e)
      BY <3>1 DEF CheckStatus
    <3>3. c \in m.counts => HardSafetyStatus(c, e) = "FAILED"
      BY <3>1 DEF HardSafetyStatus
    <3> QED
      BY <1>1, <1>2, <3>2, <3>3
  <2> QED
    BY <2>1 DEF Merits
<1>7. HistoryDecision(e) = "PASSED"
  <2>1. CheckStatus("DETERMINISTIC_FAILURES", e) = HardSafetyStatus("DETERMINISTIC_FAILURES", e)
    BY DEF CheckStatus, CountChecks, SelfSecurityChecks, Platforms
  <2>2. passes("DETERMINISTIC_FAILURES")
    BY <1>1, <1>2
  <2>3. HistoryDecision(e) \in {"FAILED", "INCONCLUSIVE", "PASSED"}
    BY DEF HistoryDecision, Worst
  <2> QED
    BY <1>5, <2>1, <2>2, <2>3 DEF HardSafetyStatus, CompleteOr
<1>8. m.exact = TRUE
  <2>1. CheckStatus("EXACT_ARTIFACT", e) = Pass(m.exact)
    BY DEF CheckStatus, CountChecks, SelfSecurityChecks, Platforms
  <2> QED
    BY <1>1, <1>2, <2>1 DEF Pass, Merits
<1>9. m.matched = TRUE /\ m.measured = TRUE
  <2>1. CheckStatus("PAIRED_EVIDENCE", e) = PairedStatus(m)
    BY DEF CheckStatus, CountChecks, SelfSecurityChecks, Platforms
  <2>2. passes("PAIRED_EVIDENCE")
    BY <1>1, <1>2
  <2> QED
    BY <2>1, <2>2 DEF PairedStatus, Merits
<1>10. m.planned = TRUE /\ m.samePlan = TRUE /\ m.inferiority = "PASSED"
  <2>1. CheckStatus("NON_INFERIOR", e) = NonInferiorityStatus(m)
    BY DEF CheckStatus, CountChecks, SelfSecurityChecks, Platforms
  <2>2. passes("NON_INFERIOR")
    BY <1>1, <1>2
  <2> QED
    BY <2>1, <2>2 DEF NonInferiorityStatus, Pass, Merits
<1>11. m.below = {} /\ m.unmeasured = {}
  <2>1. ASSUME NEW c \in EffectivenessChecks \cup UtilityChecks
        PROVE  c \notin m.below /\ c \notin m.unmeasured
    <3>1. CheckStatus(c, e) = ThresholdStatus(c, m)
      BY DEF CheckStatus, CountChecks, SelfSecurityChecks, Platforms, EffectivenessChecks,
             UtilityChecks
    <3>2. passes(c)
      BY <1>1, <1>2
    <3> QED
      BY <3>1, <3>2 DEF ThresholdStatus, Pass
  <2> QED
    BY <2>1 DEF Merits
<1>12. m = Good
  BY <1>3, <1>4, <1>5, <1>6, <1>8, <1>9, <1>10, <1>11 DEF Merits, Good
<1> QED
  BY <1>7, <1>12

\* A manifest that promotes is of proven evidence: what was said of the lock is added by the
\* command that qualifies.
LEMMA QualifiedIsProven ==
    ASSUME TeamSound, NEW input, InputSound(input), Evaluable(input.evaluation),
           Qualification(input.evaluation, input.scorecard, input.proofs) = "PROMOTE",
           input.evaluation.lock = input.evaluation.source
    PROVE  Proven(input.evaluation)
<1> DEFINE e == input.evaluation
<1>1. /\ Verification(e, input.scorecard, input.proofs) = "VERIFIED"
      /\ Promotion(Decision(e)) = "PROMOTE"
  BY DEF Qualification, Verification
<1>2. /\ e.merit.bundled
      /\ \A k \in DOMAIN input.proofs :
           ProofStatus(k, input.proofs[k], e) \notin {"FAILED", "INCONCLUSIVE"}
  BY <1>1 DEF Verification
<1>3. EvaluationSound(e) /\ e.merit \in Merits
  BY MeritsAreMeasured DEF InputSound, EvaluationSound, TeamSound
<1>4. e.merit = Good /\ HistoryDecision(e) = "PASSED"
  BY <1>1, <1>2, <1>3, PromotedIsGood
<1>5. ASSUME NEW k \in Kinds
      PROVE  \E i \in DOMAIN ledger :
               ledger[i].kind = k /\ ledger[i].status = "PASSED" /\ ledger[i].artifact = e.artifact
  <2>1. ProofStatus(k, input.proofs[k], e) \notin {"FAILED", "INCONCLUSIVE"}
    BY <1>2 DEF InputSound
  <2>2. /\ input.proofs[k] # Absent /\ Binds(input.proofs[k], e)
        /\ input.proofs[k].status \notin {"FAILED", "INCONCLUSIVE"}
    BY <2>1 DEF ProofStatus
  <2>3. FromRun(k, input.proofs[k]) /\ input.proofs[k].status = "PASSED"
    BY <2>2 DEF InputSound, FromRun
  <2> QED
    BY <2>2, <2>3 DEF FromRun, Binds
<1>6. ASSUME NEW i \in DOMAIN e.history, e.history[i].of = 0, e.history[i].status = "FAILED"
      PROVE  Replaces(e, i)
  <2>1. e.history[i].kind \in Kinds /\ i \in Nat
    <3>1. i \in DOMAIN ledger /\ e.history[i] = ledger[i] /\ ledger \in Seq(Runs)
      BY <1>3, <1>6 DEF EvaluationSound, TeamSound
    <3>2. ledger[i] \in Runs /\ i \in Nat
      BY <3>1
    <3> QED
      BY <3>1, <3>2 DEF Runs
  <2>2. \A k \in Kinds : HistoryStatus(e.history, e.replaced, e.artifact, k) # "FAILED"
    BY <1>4 DEF HistoryDecision, Worst
  <2>3. i \in DOMAIN e.replaced
    BY <1>6, <2>1, <2>2 DEF HistoryStatus, Unresolved, Failures
  <2>4. LegalResolution(e.history, i, e.replaced[i], e.artifact)
    BY <2>3 DEF Evaluable, LegalHistory
  <2>5. e.replaced[i] \in Nat
    BY <1>3, <2>3 DEF EvaluationSound, TeamSound
  <2>6. e.replaced[i] # i
    BY <2>4 DEF LegalResolution
  <2> QED
    BY <2>1, <2>3, <2>4, <2>5, <2>6 DEF LegalResolution, Replaces
<1> QED
  BY <1>3, <1>4, <1>5, <1>6 DEF Proven

LEMMA QualifyKeeps ==
    ASSUME ReleaseInv, NEW p \in Processes,
           \/ QualifyInput(p) \/ QualifyBindings(p) \/ QualifySource(p, 2)
           \/ FindClean(p, "qualify", 3) \/ QualifyFiles(p) \/ QualifySource(p, 5)
           \/ QualifyConfirm(p)
    PROVE  ReleaseInv'
<1>1. CASE QualifyInput(p)
  <2>1. InputSound(file["input"])
    BY <1>1 DEF QualifyInput, ReleaseInv, FilesSound
  <2>2. ProcessSound([command |-> "qualify", step |-> 1, read |-> file["input"]])
    BY <2>1 DEF ProcessSound
  <2> QED
    BY <1>1, <2>2, StartKeeps DEF QualifyInput
<1>2. CASE QualifyBindings(p)
  <2>1. InputSound(Read(p))
    BY <1>2 DEF QualifyBindings, At, Read, ReleaseInv, ProcessSound
  <2>2. PICK read : read = [input |-> Read(p), bindings |-> file["bindings"]]
    OBVIOUS
  <2>3. ProcessSound([command |-> "qualify", step |-> 1 + 1, read |-> read])
    BY <2>1, <2>2 DEF ProcessSound
  <2> QED
    BY <1>2, <2>2, <2>3, ContinueKeeps DEF QualifyBindings
<1>3. CASE QualifySource(p, 2)
  \* The tree is still at the revision: the lock that was bound to it is settled.
  <2> DEFINE e == Read(p).input.evaluation
  <2>1. InputSound(Read(p).input) /\ head = e.source
    BY <1>3 DEF QualifySource, FindRevision, At, Read, ReleaseInv, ProcessSound
  <2>2. e.lock = e.source
    BY <2>1 DEF InputSound, EvaluationSound, Settled
  <2>3. ProcessSound([command |-> "qualify", step |-> 2 + 1, read |-> Read(p)])
    BY <2>1, <2>2 DEF ProcessSound
  <2> QED
    BY <1>3, <2>3, ContinueKeeps DEF QualifySource, FindRevision
<1>4. CASE FindClean(p, "qualify", 3)
  BY <1>4, LookKeeps DEF FindClean, ProcessSound
<1>5. CASE QualifyFiles(p)
  BY <1>5, LookKeeps DEF QualifyFiles, ProcessSound
<1>6. CASE QualifySource(p, 5)
  BY <1>6, LookKeeps DEF QualifySource, FindRevision, ProcessSound
<1>7. CASE QualifyConfirm(p)
  <2> DEFINE input == Read(p).input
  <2>1. InputSound(input) /\ input.evaluation.lock = input.evaluation.source
    BY <1>7 DEF QualifyConfirm, At, Read, ReleaseInv, ProcessSound
  <2>2. PICK content : content = Manifest(input)
    OBVIOUS
  <2>3. content.verdict = "PROMOTE" => Proven(content.evaluation)
    BY <1>7, <2>1, <2>2, QualifiedIsProven DEF QualifyConfirm, Manifest, ReleaseInv
  <2>4. Link(p, "portfolio", content)
    BY <1>7, <2>2 DEF QualifyConfirm
  <2> QED
    BY <2>3, <2>4, LinkKeeps
<1> QED
  BY <1>1, <1>2, <1>3, <1>4, <1>5, <1>6, <1>7

LEMMA HandoffKeeps ==
    ASSUME ReleaseInv, NEW p \in Processes,
           HandoffPortfolio(p) \/ HandoffArtifacts(p) \/ HandoffLink(p)
    PROVE  ReleaseInv'
<1>1. CASE HandoffPortfolio(p)
  <2>1. Proven(file["portfolio"].evaluation)
    BY <1>1 DEF HandoffPortfolio, ReleaseInv, FilesSound
  <2>2. ProcessSound([command |-> "handoff", step |-> 1, read |-> file["portfolio"]])
    BY <2>1 DEF ProcessSound
  <2> QED
    BY <1>1, <2>2, StartKeeps DEF HandoffPortfolio
<1>2. CASE HandoffArtifacts(p)
  <2>1. Proven(Read(p).evaluation)
    BY <1>2 DEF HandoffArtifacts, At, Read, ReleaseInv, ProcessSound
  <2>2. PICK read :
          read = [evaluation |-> Read(p).evaluation, candidate |-> packed, stable |-> stable]
    OBVIOUS
  <2>3. stable.drift \in {"VERSION", "DOCUMENTATION"}
    BY <1>2 DEF HandoffArtifacts, Equivalent, ReleaseInv, TeamSound, Drifts
  <2>4. ReceiptSound(read)
    BY <1>2, <2>1, <2>2, <2>3 DEF HandoffArtifacts, Equivalent, ReceiptSound
  <2>5. ProcessSound([command |-> "handoff", step |-> 1 + 1, read |-> read])
    BY <2>4 DEF ProcessSound
  <2> QED
    BY <1>2, <2>2, <2>5, ContinueKeeps DEF HandoffArtifacts
<1>3. CASE HandoffLink(p)
  <2>1. ReceiptSound(Read(p))
    BY <1>3 DEF HandoffLink, At, Read, ReleaseInv, ProcessSound
  <2> QED
    BY <1>3, <2>1, LinkKeeps DEF HandoffLink
<1> QED
  BY <1>1, <1>2, <1>3

-----------------------------------------------------------------------------
(* Release: the invariant and its theorems.                                *)

LEMMA ReleaseInitial == ReleaseInit => ReleaseInv
<1> SUFFICES ASSUME ReleaseInit PROVE ReleaseInv
  OBVIOUS
<1>1. TeamSound
  <2>1. head \in Nat /\ dirty \in BOOLEAN
    BY DEF ReleaseInit
  <2>2. ledger \in Seq(Runs)
    BY DEF ReleaseInit
  <2>3. \A o \in DOMAIN replaced : replaced[o] \in DOMAIN ledger
    BY DEF ReleaseInit
  <2>4. /\ testing = [k \in Kinds |-> testing[k]] /\ records = [k \in Kinds |-> records[k]]
        /\ \A k \in Kinds : testing[k] = Absent /\ records[k] = Absent
    BY DEF ReleaseInit
  <2> QED
    BY <2>1, <2>2, <2>3, <2>4 DEF ReleaseInit, TeamSound
<1>2. FilesSound
  <2>1. \A f \in {"bindings", "index", "input", "portfolio", "receipt"} : file[f] = Absent
    BY DEF ReleaseInit, Outputs
  <2> QED
    BY <2>1 DEF ReleaseInit, FilesSound
<1>3. ASSUME NEW p \in Processes
      PROVE  ProcessSound(process[p])
  BY DEF ReleaseInit, Idle, ProcessSound
<1> QED
  BY <1>1, <1>2, <1>3 DEF ReleaseInit, ReleaseInv

LEMMA ReleaseStep ==
    ASSUME ReleaseInv, [ReleaseNext]_releaseVars
    PROVE  ReleaseInv'
<1>1. CASE Edit \/ Commit \/ Pack \/ PackStable \/ Publish
  BY <1>1, TeamActs
<1>2. CASE Resolve
  BY <1>2, ResolveKeeps
<1>3. CASE Evaluate
  BY <1>3, EvaluateKeeps
<1>4. ASSUME NEW f \in Outputs, TakeAway(f)
      PROVE  ReleaseInv'
  BY <1>4, TakeAwayKeeps
<1>5. ASSUME NEW k \in Kinds, TakeRecordAway(k) \/ StartRun(k) \/ FinishRun(k)
      PROVE  ReleaseInv'
  BY <1>5, TakeRecordAwayKeeps, StartRunKeeps, FinishRunKeeps
<1>6. ASSUME NEW p \in Processes, Stop(p)
      PROVE  ReleaseInv'
  BY <1>6, StopKeeps
<1>7. ASSUME NEW p \in Processes,
             \/ BindSource(p) \/ FindClean(p, "bind", 1) \/ BindFiles(p)
             \/ FindRevision(p, "bind", 3, Read(p).source) \/ BindConfirm(p)
      PROVE  ReleaseInv'
  BY <1>7, BindKeeps
<1>8. ASSUME NEW p \in Processes, CollectBindings(p) \/ CollectRecords(p) \/ CollectLink(p)
      PROVE  ReleaseInv'
  BY <1>8, CollectKeeps
<1>9. ASSUME NEW p \in Processes,
             \/ AssembleDraft(p) \/ AssembleIndex(p) \/ AssembleRecords(p)
             \/ AssembleBindings(p) \/ AssembleLink(p)
      PROVE  ReleaseInv'
  BY <1>9, AssembleKeeps
<1>10. ASSUME NEW p \in Processes,
              \/ QualifyInput(p) \/ QualifyBindings(p) \/ QualifySource(p, 2)
              \/ FindClean(p, "qualify", 3) \/ QualifyFiles(p) \/ QualifySource(p, 5)
              \/ QualifyConfirm(p)
       PROVE  ReleaseInv'
  BY <1>10, QualifyKeeps
<1>11. ASSUME NEW p \in Processes, HandoffPortfolio(p) \/ HandoffArtifacts(p) \/ HandoffLink(p)
       PROVE  ReleaseInv'
  BY <1>11, HandoffKeeps
<1>12. CASE UNCHANGED releaseVars
  <2>1. /\ head' = head /\ dirty' = dirty /\ packed' = packed /\ stable' = stable
        /\ merit' = merit /\ ledger' = ledger /\ replaced' = replaced /\ testing' = testing
        /\ records' = records /\ evaluation' = evaluation
        /\ process' = process /\ file' = file
    BY <1>12 DEF releaseVars, team
  <2>2. MovesOn
    BY <2>1 DEF ReleaseInv, TeamSound, MovesOn
  <2>3. Grows /\ TeamSound'
    BY <2>1, <2>2, TeamRest DEF ReleaseInv, TeamSound
  <2> QED
    BY <2>1, <2>2, <2>3, TeamStep
<1> QED
  BY <1>1, <1>2, <1>3, <1>4, <1>5, <1>6, <1>7, <1>8, <1>9, <1>10, <1>11, <1>12 DEF ReleaseNext

LEMMA ReleaseInvariant == ReleaseSpec => []ReleaseInv
<1> QED
  BY ReleaseInitial, ReleaseStep, PTL DEF ReleaseSpec

\* Whatever the team edits, packs, reruns or takes away while the commands read, a receipt
\* is of an artifact without a defect, bound to a commit and its lock, which passed a run
\* of every kind, and its stable tarball differs by its version or documents only.
THEOREM ReceiptsAreProven == ReleaseSpec => []ReceiptIsProven
<1>1. ReleaseInv => ReceiptIsProven
  <2> SUFFICES ASSUME ReleaseInv, file["receipt"] # Absent
               PROVE  ReceiptIsProven
    BY DEF ReceiptIsProven
  <2>1. PICK receipt : receipt = file["receipt"] /\ ReceiptSound(receipt)
    BY DEF ReleaseInv, FilesSound
  <2>2. /\ receipt.candidate = receipt.evaluation.artifact
        /\ receipt.stable.of = receipt.candidate
        /\ receipt.stable.drift \in {"VERSION", "DOCUMENTATION"}
        /\ Proven(receipt.evaluation)
    BY <2>1 DEF ReceiptSound
  <2>3. merit[receipt.candidate] = Good /\ receipt.evaluation.lock = receipt.evaluation.source
    BY <2>2 DEF Proven, EvaluationSound
  <2>4. \A k \in Kinds : \E i \in DOMAIN ledger :
          /\ ledger[i].kind = k /\ ledger[i].status = "PASSED"
          /\ ledger[i].artifact = receipt.candidate
    BY <2>2 DEF Proven
  <2> QED
    BY <2>1, <2>2, <2>3, <2>4 DEF ReceiptIsProven
<1> QED
  BY <1>1, ReleaseInvariant, PTL

\* No failed qualification a receipt's evaluation knew of is of its candidate, and a later
\* qualification of the candidate that passed replaces each by name, whatever was rerun.
THEOREM FailuresStay == ReleaseSpec => []NoFailureIsErased
<1>1. ReleaseInv => NoFailureIsErased
  <2> SUFFICES ASSUME ReleaseInv, file["receipt"] # Absent,
                      NEW i \in DOMAIN file["receipt"].evaluation.history,
                      ledger[i].of = 0, ledger[i].status = "FAILED"
               PROVE  LET receipt == file["receipt"] IN
                        /\ ledger[i].artifact # receipt.candidate
                        /\ i \in DOMAIN receipt.evaluation.replaced
                        /\ LET j == receipt.evaluation.replaced[i] IN
                             /\ j > i /\ ledger[j].kind = ledger[i].kind /\ ledger[j].of = 0
                             /\ ledger[j].artifact = receipt.candidate
                             /\ ledger[j].status = "PASSED"
    BY DEF NoFailureIsErased
  <2> DEFINE e == file["receipt"].evaluation
  <2>1. /\ Proven(e) /\ EvaluationSound(e) /\ file["receipt"].candidate = e.artifact
    BY DEF ReleaseInv, FilesSound, ReceiptSound, Proven
  <2>2. e.history[i] = ledger[i]
    BY <2>1 DEF EvaluationSound
  <2>3. Replaces(e, i)
    BY <2>1, <2>2 DEF Proven
  <2>4. e.replaced[i] \in DOMAIN e.history /\ e.history[e.replaced[i]] = ledger[e.replaced[i]]
    BY <2>1, <2>3 DEF EvaluationSound, Replaces
  <2> QED
    BY <2>1, <2>2, <2>3, <2>4 DEF Replaces
<1> QED
  BY <1>1, ReleaseInvariant, PTL
=============================================================================
