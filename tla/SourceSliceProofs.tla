-------------------------- MODULE SourceSliceProofs --------------------------
(***************************************************************************)
(* Proofs about what leaves the Host (SourceSliceEgress) and about the     *)
(* Subject it is taken from (SubjectFreeze).  The two share no variable.   *)
(***************************************************************************)
EXTENDS SourceSliceEgress, SubjectFreeze, TLAPS

-----------------------------------------------------------------------------
(* Egress: the inductive invariant.                                        *)

\* Slices are those of the frozen Subject, of requests that passed the preflight.
MaterialsSound ==
    /\ materials \subseteq [request : Requests, text : Texts]
    /\ \A m \in materials : m.text = Frozen[m.request] /\ Preflight(m.request)
    /\ verified \subseteq {r \in Requests : Preflight(r)}

\* What was true of a capability c when it was issued, and still is.
GrantSound(c) ==
    c.state # "none" =>
      /\ c.of \in materials
      /\ \E review \in reviews : ReviewClears(review, c.of)
      /\ Ask[c.of.request].policy # "egress/deny-by-default"
      /\ RedactedSize[c.of.text] <= Ask[c.of.request].bytes
      /\ c.deadline \in Nat
      /\ c.deadline <= AttemptDeadline /\ c.deadline <= Qualification.until
      /\ c.authorization.until \in Nat /\ c.deadline <= c.authorization.until
      /\ c.authorization.from \in Nat /\ c.authorization.from <= clock

\* A call is under way, or has ended, only of a consumed capability; and a receipt of a
\* completed call is of the call that was made, and of an answer before the deadline.
ProgressSound(i, c) ==
    /\ c.state \notin {"none", "issued"} => c.consumed
    /\ c.state \in {"calling", "answered", "rejected", "aborted"} =>
         \E k \in DOMAIN calls : calls[k].invocation = i /\ calls[k].at = c.started
    /\ c.receipt # Absent => c.state = "done"
    /\ c.state = "done" /\ c.receipt.status = "COMPLETED" =>
         /\ \E k \in DOMAIN calls : calls[k].invocation = i /\ calls[k].at = c.receipt.started
         /\ c.receipt.completed < c.deadline

CapabilityFields ==
    {"state", "of", "authorization", "deadline", "consumed", "settled", "signalled", "started",
     "answer", "receipt"}
CapabilitySound(i, c) == DOMAIN c = CapabilityFields /\ GrantSound(c) /\ ProgressSound(i, c)

CapabilitiesSound ==
    /\ clock \in Nat
    /\ capability = [i \in Capabilities |-> capability[i]]
    /\ \A i \in Capabilities : CapabilitySound(i, capability[i])

\* Each call is the one call of its capability, made in time.
CallSound(call) ==
    LET c == capability[call.invocation] IN
    /\ c.state # "none" /\ c.consumed /\ call.of = c.of
    /\ c.authorization.from <= call.at /\ call.at < c.deadline
CallRecords == [invocation : Capabilities, of : [request : Requests, text : Texts], at : Nat]
CallsSound ==
    /\ calls \in Seq(CallRecords)
    /\ \A k \in DOMAIN calls : CallSound(calls[k])
    /\ \A j, k \in DOMAIN calls : calls[j].invocation = calls[k].invocation => j = k

\* The record of a settled invocation is a function of its receipt.
RecordOf(i, receipt) ==
    LET used == receipt.usage.in + receipt.usage.out
    IN [invocation |-> i, limit |-> receipt.limit, used |-> used,
        released |-> receipt.limit - used,
        started |-> receipt.started, completed |-> receipt.completed]
RecordSound(r) ==
    LET i == r.invocation
        receipt == capability[i].receipt
    IN /\ i \in Capabilities /\ capability[i].state = "done"
       /\ r = RecordOf(i, receipt) /\ RecordWellFormed(r)
       /\ reservation[i] # Absent /\ ReceiptFits(receipt, reservation[i])
RecordsSound ==
    /\ reservation = [i \in Capabilities |-> reservation[i]]
    /\ \A r \in records : RecordSound(r)

EgressInv == MaterialsSound /\ CapabilitiesSound /\ CallsSound /\ RecordsSound

-----------------------------------------------------------------------------
(* Egress: one step.                                                       *)

\* The deadline of a capability is none of the instants it is the least of, or before them.
LEMMA LeastIsLeast ==
    ASSUME NEW a \in Nat, NEW b \in Nat, NEW c \in Nat, NEW d \in Nat
    PROVE  LET t == LeastOf({a, b, c, d})
           IN t \in Nat /\ t <= a /\ t <= b /\ t <= c /\ t <= d
<1>1. \E t \in {a, b, c, d} : \A u \in {a, b, c, d} : t <= u
  <2>1. PICK x \in {a, b} : x <= a /\ x <= b
    OBVIOUS
  <2>2. PICK y \in {c, d} : y <= c /\ y <= d
    OBVIOUS
  <2>3. PICK t \in {x, y} : t <= x /\ t <= y
    OBVIOUS
  <2>4. x \in Nat /\ y \in Nat /\ t \in Nat
    BY <2>1, <2>2, <2>3
  <2>5. t <= a /\ t <= b /\ t <= c /\ t <= d
    BY <2>1, <2>2, <2>3, <2>4
  <2>6. t \in {a, b, c, d}
    BY <2>1, <2>2, <2>3
  <2> QED
    BY <2>5, <2>6
<1> DEFINE t == LeastOf({a, b, c, d})
<1>2. t \in {a, b, c, d} /\ \A u \in {a, b, c, d} : t <= u
  BY <1>1 DEF LeastOf
<1> HIDE DEF t
<1>3. t \in Nat /\ t <= a /\ t <= b /\ t <= c /\ t <= d
  BY <1>2
<1> QED
  BY <1>3 DEF t

\* What a step on a capability never takes back.
Keeps(c, new) ==
    /\ c.consumed => new.consumed
    /\ c.state # "none" => /\ new.state # "none" /\ new.of = c.of
                           /\ new.authorization = c.authorization /\ new.deadline = c.deadline
    /\ c.state = "done" => new.state = "done" /\ new.receipt = c.receipt

\* A step that changes one capability and calls nobody.
LEMMA CapabilityStep ==
    ASSUME EgressInv, NEW i \in Capabilities, NEW new,
           capability' = [capability EXCEPT ![i] = new],
           UNCHANGED <<clock, slices, reviews, calls, budget>>,
           CapabilitySound(i, new), Keeps(capability[i], new)
    PROVE  EgressInv'
<1>1. /\ capability' = [j \in Capabilities |-> capability'[j]]
      /\ capability'[i] = new
      /\ \A j \in Capabilities : j # i => capability'[j] = capability[j]
  BY DEF EgressInv, CapabilitiesSound
<1>2. UNCHANGED <<clock, disk, verified, materials, reviews, calls, reservation, records>>
  BY DEF slices, budget
<1>3. MaterialsSound'
  BY <1>2 DEF EgressInv, MaterialsSound
<1>4. CapabilitiesSound'
  <2>1. \A j \in Capabilities : CapabilitySound(j, capability'[j])
    BY <1>1 DEF EgressInv, CapabilitiesSound
  <2>2. \A j \in Capabilities : CapabilitySound(j, capability[j])'
    BY <1>2, <2>1 DEF CapabilitySound, GrantSound, ProgressSound
  <2> QED
    BY <1>1, <1>2, <2>2 DEF EgressInv, CapabilitiesSound
<1>5. CallsSound'
  <2>1. ASSUME NEW k \in DOMAIN calls
        PROVE  CallSound(calls[k])'
    <3>1. calls[k].invocation \in Capabilities
      <4>1. calls[k] \in CallRecords
        BY DEF EgressInv, CallsSound
      <4> QED
        BY <4>1 DEF CallRecords
    <3>2. CallSound(calls[k])
      BY DEF EgressInv, CallsSound
    <3> QED
      BY <1>1, <1>2, <3>1, <3>2 DEF CallSound, Keeps
  <2> QED
    BY <1>2, <2>1 DEF EgressInv, CallsSound
<1>6. RecordsSound'
  <2>1. ASSUME NEW r \in records
        PROVE  RecordSound(r)'
    <3>1. RecordSound(r)
      BY DEF EgressInv, RecordsSound
    <3>2. /\ capability'[r.invocation].state = "done"
          /\ capability'[r.invocation].receipt = capability[r.invocation].receipt
      BY <1>1, <3>1 DEF RecordSound, Keeps
    <3> QED
      BY <1>2, <3>1, <3>2 DEF RecordSound
  <2> QED
    BY <1>2, <2>1 DEF EgressInv, RecordsSound
<1> QED
  BY <1>3, <1>4, <1>5, <1>6 DEF EgressInv

\* A step that adds to the slices, the reviews or the time, and nothing else.
LEMMA KnowledgeStep ==
    ASSUME EgressInv, MaterialsSound', materials \subseteq materials', reviews \subseteq reviews',
           clock' \in Nat, clock <= clock', UNCHANGED <<invocation, budget>>
    PROVE  EgressInv'
<1>1. UNCHANGED <<capability, calls, reservation, records>>
  BY DEF invocation, budget
<1>2. ASSUME NEW i \in Capabilities
      PROVE  CapabilitySound(i, capability[i])'
  <2>1. CapabilitySound(i, capability[i]) /\ clock \in Nat
    BY DEF EgressInv, CapabilitiesSound
  <2>2. GrantSound(capability[i])'
    BY <1>1, <2>1 DEF CapabilitySound, GrantSound
  <2>3. ProgressSound(i, capability[i])'
    BY <1>1, <2>1 DEF CapabilitySound, ProgressSound
  <2> QED
    BY <1>1, <2>1, <2>2, <2>3 DEF CapabilitySound
<1>3. CapabilitiesSound'
  BY <1>1, <1>2 DEF EgressInv, CapabilitiesSound
<1>4. CallsSound' /\ RecordsSound'
  BY <1>1 DEF EgressInv, CallsSound, CallSound, RecordsSound, RecordSound
<1> QED
  BY <1>3, <1>4 DEF EgressInv

LEMMA SliceSteps ==
    ASSUME EgressInv, NEW r \in Requests, VerifyForSlice(r) \/ DiskChanges(r) \/ ReadSlice(r)
    PROVE  EgressInv'
<1>1. clock' \in Nat /\ clock <= clock' /\ UNCHANGED <<invocation, budget>> /\ reviews' = reviews
  BY DEF VerifyForSlice, DiskChanges, ReadSlice, EgressInv, CapabilitiesSound
<1>2. MaterialsSound' /\ materials \subseteq materials'
  <2>1. CASE VerifyForSlice(r)
    BY <2>1 DEF VerifyForSlice, EgressInv, MaterialsSound
  <2>2. CASE DiskChanges(r)
    BY <2>2 DEF DiskChanges, EgressInv, MaterialsSound
  <2>3. CASE ReadSlice(r)
    <3> DEFINE m == [request |-> r, text |-> disk[r]]
    <3>1. /\ r \in verified /\ verified' = verified \ {r}
          /\ materials' = materials \/ (materials' = materials \cup {m} /\ disk[r] = Frozen[r])
      BY <2>3 DEF ReadSlice, DigestMatches
    <3>2. Preflight(r)
      BY <3>1 DEF EgressInv, MaterialsSound
    <3>3. m.request = r /\ m.text = disk[r]
      OBVIOUS
    <3>4. disk[r] = Frozen[r] => m \in [request : Requests, text : Texts]
      BY SizesAssumption
    <3> HIDE DEF m
    <3> QED
      BY <3>1, <3>2, <3>3, <3>4 DEF EgressInv, MaterialsSound
  <2> QED
    BY <2>1, <2>2, <2>3
<1> QED
  BY <1>1, <1>2, KnowledgeStep

LEMMA IssueStep ==
    ASSUME EgressInv, NEW i \in Capabilities, NEW m \in materials, NEW review \in reviews,
           NEW a \in Authorizations, IssueCapability(i, m, review, a)
    PROVE  EgressInv'
<1> DEFINE c == capability[i]
           deadline == LeastOf({AttemptDeadline, Qualification.until, a.until, clock + a.timeout})
           new == [c EXCEPT !.state = "issued", !.of = m, !.authorization = a,
                            !.deadline = deadline]
<1>1. /\ capability' = [capability EXCEPT ![i] = new] /\ c.state = "none"
      /\ UNCHANGED <<clock, slices, reviews, calls, budget>>
      /\ Authorizes(a, review, m, clock)
  BY DEF IssueCapability
<1>2. CapabilitySound(i, c) /\ clock \in Nat
  BY DEF EgressInv, CapabilitiesSound
<1>3. /\ DOMAIN new = CapabilityFields
      /\ new.state = "issued" /\ new.of = m /\ new.authorization = a /\ new.deadline = deadline
      /\ new.consumed = c.consumed /\ new.receipt = c.receipt
  BY <1>2 DEF CapabilitySound, CapabilityFields
<1>4. /\ a.from \in Nat /\ a.until \in Nat /\ a.bytes \in Nat /\ a.timeout \in Nat
      /\ Qualification.until \in Nat /\ AttemptDeadline \in Nat
  BY DocumentsAssumption, SizesAssumption
<1>5. /\ deadline \in Nat /\ deadline <= AttemptDeadline /\ deadline <= Qualification.until
      /\ deadline <= a.until
  <2>1. clock + a.timeout \in Nat
    BY <1>2, <1>4
  <2>2. /\ deadline \in Nat /\ deadline <= AttemptDeadline /\ deadline <= Qualification.until
        /\ deadline <= a.until
    BY <1>4, <2>1, LeastIsLeast
  <2> QED
    BY <2>2
<1>6. /\ m.request \in Requests /\ m.text \in Texts
  BY DEF EgressInv, MaterialsSound
<1>7. /\ RedactedSize[m.text] \in Nat /\ Ask[m.request].bytes \in Nat
      /\ RedactedSize[m.text] <= a.bytes /\ a.bytes <= Ask[m.request].bytes
  BY <1>1, <1>6, SizesAssumption, DocumentsAssumption DEF Authorizes
<1> HIDE DEF new, deadline, c
<1>8. GrantSound(new)
  BY <1>1, <1>3, <1>4, <1>5, <1>7 DEF GrantSound, Authorizes, ValidAt
<1>9. ProgressSound(i, new)
  BY <1>1, <1>2, <1>3 DEF ProgressSound, CapabilitySound
<1>10. Keeps(c, new)
  BY <1>1, <1>3 DEF Keeps
<1> QED
  BY <1>1, <1>3, <1>8, <1>9, <1>10, CapabilityStep DEF CapabilitySound, c

\* Steps on a call, but for the one that makes it.
LEMMA CallSteps ==
    ASSUME EgressInv, NEW i \in Capabilities,
           \/ SettleCapability(i) \/ CallerAborts(i) \/ TimerFires(i)
           \/ BrokerAnswers(i) \/ Continue(i)
    PROVE  EgressInv'
<1> DEFINE c == capability[i]
<1>1. CapabilitySound(i, c) /\ clock \in Nat
  BY DEF EgressInv, CapabilitiesSound
<1>2. capability = [j \in Capabilities |-> capability[j]]
  BY DEF EgressInv, CapabilitiesSound
<1>3. CASE SettleCapability(i) \/ CallerAborts(i) \/ TimerFires(i) \/ BrokerAnswers(i)
  <2>1. PICK new :
          /\ capability' = [capability EXCEPT ![i] = new]
          /\ DOMAIN new = DOMAIN c /\ new.of = c.of /\ new.authorization = c.authorization
          /\ new.deadline = c.deadline /\ new.consumed = c.consumed /\ new.started = c.started
          /\ new.receipt = c.receipt
          /\ \/ new.state = c.state
             \/ c.state = "calling" /\ new.state \in {"aborted", "answered", "rejected"}
    <3>1. CASE SettleCapability(i)
      <4> WITNESS [c EXCEPT !.settled = TRUE, !.state = Aborted(i)]
      <4> QED
        BY <1>1, <3>1 DEF SettleCapability, Aborted, CapabilitySound, CapabilityFields
    <3>2. CASE CallerAborts(i)
      <4> WITNESS [c EXCEPT !.signalled = TRUE, !.state = Aborted(i)]
      <4> QED
        BY <1>1, <3>2 DEF CallerAborts, Aborted, CapabilitySound, CapabilityFields
    <3>3. CASE TimerFires(i)
      <4> WITNESS [c EXCEPT !.state = "aborted"]
      <4> QED
        BY <1>1, <1>2, <3>3 DEF TimerFires, CapabilitySound, CapabilityFields
    <3>4. CASE BrokerAnswers(i)
      <4>1. CASE capability' = [capability EXCEPT ![i].state = "rejected"]
        <5> WITNESS [c EXCEPT !.state = "rejected"]
        <5> QED
          BY <1>1, <1>2, <3>4, <4>1 DEF BrokerAnswers, CapabilitySound, CapabilityFields
      <4>2. ASSUME NEW answer \in Answers,
                   capability' = [capability EXCEPT ![i].state = "answered", ![i].answer = answer]
            PROVE  \E new :
                     /\ capability' = [capability EXCEPT ![i] = new]
                     /\ DOMAIN new = DOMAIN c /\ new.of = c.of
                     /\ new.authorization = c.authorization
                     /\ new.deadline = c.deadline /\ new.consumed = c.consumed
                     /\ new.started = c.started /\ new.receipt = c.receipt
                     /\ \/ new.state = c.state
                        \/ c.state = "calling" /\ new.state \in {"aborted", "answered", "rejected"}
        <5> WITNESS [c EXCEPT !.state = "answered", !.answer = answer]
        <5> QED
          BY <1>1, <1>2, <3>4, <4>2 DEF BrokerAnswers, CapabilitySound, CapabilityFields
      <4> QED
        BY <3>4, <4>1, <4>2 DEF BrokerAnswers
    <3> QED
      BY <1>3, <3>1, <3>2, <3>3, <3>4
  <2>2. UNCHANGED <<clock, slices, reviews, calls, budget>>
    BY <1>3 DEF SettleCapability, CallerAborts, TimerFires, BrokerAnswers
  <2> HIDE DEF c
  <2>3. GrantSound(new)
    BY <1>1, <2>1 DEF CapabilitySound, GrantSound
  <2>4. ProgressSound(i, new)
    BY <1>1, <2>1 DEF CapabilitySound, ProgressSound
  <2>5. Keeps(c, new)
    BY <2>1 DEF Keeps
  <2> QED
    BY <1>1, <2>1, <2>2, <2>3, <2>4, <2>5, CapabilityStep DEF CapabilitySound, c
<1>4. CASE Continue(i)
  <2> DEFINE completed == /\ c.state = "answered" /\ AnswerAdmissible(i, c.answer)
                          /\ clock < c.deadline
             receipt == IF completed THEN Receipt(i, "COMPLETED", c.answer)
                        ELSE Receipt(i, "FAILED", Absent)
             new == [c EXCEPT !.state = "done", !.answer = Absent, !.receipt = receipt]
  <2>1. /\ capability' = [capability EXCEPT ![i] = new]
        /\ c.state \in {"answered", "rejected", "aborted"}
        /\ UNCHANGED <<clock, slices, reviews, calls, budget>>
    BY <1>4 DEF Continue
  <2>2. /\ receipt.started = c.started /\ receipt.completed = clock
        /\ receipt.status = "COMPLETED" => clock < c.deadline
    BY DEF Receipt
  <2> HIDE DEF receipt, completed
  <2>3. /\ DOMAIN new = CapabilityFields
        /\ new.state = "done" /\ new.of = c.of /\ new.authorization = c.authorization
        /\ new.deadline = c.deadline /\ new.consumed = c.consumed /\ new.receipt = receipt
    BY <1>1 DEF CapabilitySound, CapabilityFields
  <2> HIDE DEF new, c
  <2>4. GrantSound(new)
    BY <1>1, <2>1, <2>3 DEF CapabilitySound, GrantSound
  <2>5. ProgressSound(i, new)
    BY <1>1, <2>1, <2>2, <2>3 DEF CapabilitySound, ProgressSound
  <2>6. Keeps(c, new)
    BY <2>1, <2>3 DEF Keeps
  <2> QED
    BY <2>1, <2>3, <2>4, <2>5, <2>6, CapabilityStep DEF CapabilitySound, c
<1> QED
  BY <1>3, <1>4

\* invoke consumes the capability, and calls the Broker or does not.
LEMMA InvokeStep ==
    ASSUME EgressInv, NEW i \in Capabilities, Invoke(i)
    PROVE  EgressInv'
<1> DEFINE c == capability[i]
           late == clock >= c.deadline \/ c.signalled
<1>1. /\ CapabilitySound(i, c) /\ clock \in Nat
      /\ capability = [j \in Capabilities |-> capability[j]]
  BY DEF EgressInv, CapabilitiesSound
<1>2. c.state # "none" /\ ~c.consumed /\ UNCHANGED <<clock, slices, reviews, budget>>
  BY DEF Invoke, Usable
<1>3. c.state = "issued" /\ c.receipt = Absent
  BY <1>1, <1>2 DEF CapabilitySound, ProgressSound
<1>4. CASE late
  <2> DEFINE receipt == [Receipt(i, "FAILED", Absent) EXCEPT !.started = clock]
             new == [c EXCEPT !.consumed = TRUE, !.state = "done", !.receipt = receipt]
  <2>1. capability' = [capability EXCEPT ![i] = new] /\ calls' = calls
    BY <1>4 DEF Invoke
  <2>2. receipt.status = "FAILED"
    BY DEF Receipt
  <2> HIDE DEF receipt
  <2>3. /\ DOMAIN new = CapabilityFields
        /\ new.state = "done" /\ new.of = c.of /\ new.authorization = c.authorization
        /\ new.deadline = c.deadline /\ new.consumed /\ new.receipt = receipt
    BY <1>1 DEF CapabilitySound, CapabilityFields
  <2> HIDE DEF new, c
  <2>4. GrantSound(new)
    BY <1>1, <1>2, <2>3 DEF CapabilitySound, GrantSound
  <2>5. ProgressSound(i, new)
    BY <2>2, <2>3 DEF ProgressSound
  <2>6. Keeps(c, new)
    BY <1>3, <2>3 DEF Keeps
  <2> QED
    BY <1>2, <2>1, <2>3, <2>4, <2>5, <2>6, CapabilityStep DEF CapabilitySound, c
<1>5. CASE ~late
  <2> DEFINE n == Len(calls) + 1
  <2>1. c.of \in [request : Requests, text : Texts]
    BY <1>1, <1>2 DEF EgressInv, MaterialsSound, CapabilitySound, GrantSound
  <2>2. PICK new :
          /\ capability' = [capability EXCEPT ![i] = new]
          /\ DOMAIN new = CapabilityFields
          /\ new.state = "calling" /\ new.of = c.of /\ new.authorization = c.authorization
          /\ new.deadline = c.deadline /\ new.consumed /\ new.started = clock
          /\ new.receipt = c.receipt
    <3> WITNESS [c EXCEPT !.consumed = TRUE, !.state = "calling", !.started = clock]
    <3> QED
      BY <1>1, <1>5 DEF Invoke, CapabilitySound, CapabilityFields
  <2>3. /\ capability' = [j \in Capabilities |-> capability'[j]]
        /\ capability'[i] = new
        /\ \A j \in Capabilities : j # i => capability'[j] = capability[j]
    BY <1>1, <2>2
  <2>4. PICK call \in CallRecords :
          /\ calls' = Append(calls, call)
          /\ call.invocation = i /\ call.of = c.of /\ call.at = clock
    <3>1. [invocation |-> i, of |-> c.of, at |-> clock] \in CallRecords
      BY <1>1, <2>1 DEF CallRecords
    <3>2. calls' = Append(calls, [invocation |-> i, of |-> c.of, at |-> clock])
      BY <1>5 DEF Invoke
    <3> QED
      BY <3>1, <3>2
  <2>6. /\ calls \in Seq(CallRecords)
        /\ \A k \in DOMAIN calls : calls[k].invocation \in Capabilities /\ CallSound(calls[k])
    <3>1. calls \in Seq(CallRecords) /\ \A k \in DOMAIN calls : calls[k] \in CallRecords
      BY DEF EgressInv, CallsSound
    <3> QED
      BY <3>1 DEF CallRecords, EgressInv, CallsSound
  <2>7. /\ calls' \in Seq(CallRecords) /\ n \in DOMAIN calls' /\ calls'[n] = call
        /\ DOMAIN calls' = DOMAIN calls \cup {n} /\ n \notin DOMAIN calls
        /\ \A k \in DOMAIN calls : calls'[k] = calls[k]
    BY <2>4, <2>6
  <2> HIDE DEF n
  <2>8. \A k \in DOMAIN calls : calls[k].invocation # i
    BY <1>2, <2>6 DEF CallSound
  <2>9. UNCHANGED <<clock, disk, verified, materials, reviews, reservation, records>>
    BY <1>2 DEF slices, budget
  <2> HIDE DEF c
  <2>10. MaterialsSound'
    BY <2>9 DEF EgressInv, MaterialsSound
  <2>11. CapabilitiesSound'
    <3>1. CapabilitySound(i, new)'
      <4>1. GrantSound(new)'
        BY <1>1, <1>2, <2>2, <2>9 DEF CapabilitySound, GrantSound
      <4>2. ProgressSound(i, new)'
        BY <1>3, <2>2, <2>4, <2>7 DEF ProgressSound
      <4> QED
        BY <2>2, <4>1, <4>2 DEF CapabilitySound
    <3>2. ASSUME NEW j \in Capabilities, j # i
          PROVE  CapabilitySound(j, capability[j])'
      <4>1. CapabilitySound(j, capability[j])
        BY DEF EgressInv, CapabilitiesSound
      <4>2. GrantSound(capability[j])'
        BY <2>3, <2>9, <3>2, <4>1 DEF CapabilitySound, GrantSound
      <4>3. ProgressSound(j, capability[j])'
        BY <2>3, <2>7, <3>2, <4>1 DEF CapabilitySound, ProgressSound
      <4> QED
        BY <2>3, <3>2, <4>1, <4>2, <4>3 DEF CapabilitySound
    <3>3. \A j \in Capabilities : CapabilitySound(j, capability[j])'
      BY <2>3, <3>1, <3>2
    <3> QED
      BY <1>1, <2>3, <2>9, <3>3 DEF CapabilitiesSound
  <2>12. CallsSound'
    <3>1. CallSound(call)'
      <4>1. /\ c.authorization.from \in Nat /\ c.authorization.from <= clock
            /\ c.deadline \in Nat
        BY <1>1, <1>2 DEF CapabilitySound, GrantSound
      <4>2. clock < c.deadline
        BY <1>1, <1>5, <4>1 DEF c
      <4> QED
        BY <2>2, <2>3, <2>4, <4>1, <4>2 DEF CallSound
    <3>2. ASSUME NEW k \in DOMAIN calls
          PROVE  CallSound(calls[k])'
      <4>1. capability'[calls[k].invocation] = capability[calls[k].invocation]
        BY <2>3, <2>6, <2>8
      <4> QED
        BY <2>6, <2>7, <4>1 DEF CallSound
    <3>3. \A k \in DOMAIN calls' : CallSound(calls[k])'
      BY <2>7, <3>1, <3>2 DEF CallSound
    <3>4. \A j, k \in DOMAIN calls' : calls'[j].invocation = calls'[k].invocation => j = k
      BY <2>4, <2>7, <2>8 DEF EgressInv, CallsSound
    <3> QED
      BY <2>7, <3>3, <3>4 DEF CallsSound
  <2>13. RecordsSound'
    <3>1. ASSUME NEW r \in records
          PROVE  RecordSound(r)'
      <4>1. RecordSound(r)
        BY DEF EgressInv, RecordsSound
      <4>2. r.invocation # i
        BY <1>3, <4>1 DEF RecordSound, c
      <4> QED
        BY <2>3, <2>9, <4>1, <4>2 DEF RecordSound
    <3> QED
      BY <2>9, <3>1 DEF EgressInv, RecordsSound
  <2> QED
    BY <2>10, <2>11, <2>12, <2>13 DEF EgressInv
<1> QED
  BY <1>4, <1>5

\* The Kernel reserves, and settles what fits.
LEMMA SettlementSteps ==
    ASSUME EgressInv, NEW i \in Capabilities,
           SettleInvocation(i) \/ \E limit \in Reservations, until \in 1 .. LastInstant :
                                    Reserve(i, limit, until)
    PROVE  EgressInv'
<1>1. UNCHANGED <<clock, disk, verified, materials, reviews, capability, calls>>
  BY DEF SettleInvocation, Reserve, slices, invocation
<1>2. MaterialsSound' /\ CapabilitiesSound' /\ CallsSound'
  BY <1>1 DEF EgressInv, MaterialsSound, CapabilitiesSound, CapabilitySound, GrantSound,
              ProgressSound, CallsSound, CallSound
<1>3. CASE SettleInvocation(i)
  <2> DEFINE receipt == capability[i].receipt
  <2>1. PICK r : /\ r = RecordOf(i, receipt) /\ RecordWellFormed(r)
                 /\ records' = records \cup {r}
    BY <1>3 DEF SettleInvocation, RecordOf
  <2>2. /\ receipt # Absent /\ reservation[i] # Absent /\ ReceiptFits(receipt, reservation[i])
        /\ reservation' = reservation
    BY <1>3 DEF SettleInvocation
  <2>3. capability[i].state = "done"
    BY <2>2 DEF EgressInv, CapabilitiesSound, CapabilitySound, ProgressSound
  <2>4. r.invocation = i
    BY <2>1 DEF RecordOf
  <2>5. RecordSound(r)'
    BY <1>1, <2>1, <2>2, <2>3, <2>4 DEF RecordSound
  <2>6. \A s \in records : RecordSound(s)'
    BY <1>1, <2>2 DEF RecordSound, EgressInv, RecordsSound
  <2>7. RecordsSound'
    BY <2>1, <2>2, <2>5, <2>6 DEF RecordsSound, EgressInv
  <2> QED
    BY <1>2, <2>7 DEF EgressInv
<1>4. ASSUME NEW limit \in Reservations, NEW until \in 1 .. LastInstant, Reserve(i, limit, until)
      PROVE  EgressInv'
  <2>1. /\ reservation[i] = Absent /\ records' = records
        /\ reservation' = [j \in Capabilities |-> reservation'[j]]
        /\ \A j \in Capabilities : j # i => reservation'[j] = reservation[j]
    BY <1>4 DEF Reserve, EgressInv, RecordsSound
  <2>2. \A r \in records : RecordSound(r)'
    BY <1>1, <2>1 DEF RecordSound, EgressInv, RecordsSound
  <2>3. RecordsSound'
    BY <2>1, <2>2 DEF RecordsSound
  <2> QED
    BY <1>2, <2>3 DEF EgressInv
<1> QED
  BY <1>3, <1>4

LEMMA EgressInductive ==
    ASSUME EgressInv, [EgressNext]_egressVars
    PROVE  EgressInv'
<1>1. ASSUME NEW m \in materials, NEW e \in SecretEvidence(m), AdmitSecretReview(m, e)
      PROVE  EgressInv'
  <2>1. /\ UNCHANGED <<disk, verified, materials>> /\ reviews \subseteq reviews'
        /\ clock' = clock /\ UNCHANGED <<invocation, budget>>
    BY <1>1 DEF AdmitSecretReview, slices
  <2>2. clock' \in Nat /\ clock <= clock' /\ MaterialsSound'
    BY <2>1 DEF EgressInv, CapabilitiesSound, MaterialsSound
  <2> QED
    BY <2>1, <2>2, KnowledgeStep
<1>2. CASE Tick \/ UNCHANGED egressVars
  <2>1. /\ UNCHANGED <<disk, verified, materials, reviews>> /\ UNCHANGED <<invocation, budget>>
        /\ clock' = clock + 1 \/ clock' = clock
    BY <1>2 DEF Tick, egressVars, slices
  <2>2. clock' \in Nat /\ clock <= clock' /\ MaterialsSound'
    BY <2>1 DEF EgressInv, CapabilitiesSound, MaterialsSound
  <2> QED
    BY <2>1, <2>2, KnowledgeStep
<1> QED
  BY <1>1, <1>2, SliceSteps, IssueStep, CallSteps, InvokeStep, SettlementSteps DEF EgressNext

LEMMA EgressInvariant == EgressSpec => []EgressInv
<1>1. EgressInit => EgressInv
  <2> SUFFICES ASSUME EgressInit PROVE EgressInv
    OBVIOUS
  <2> USE DEF EgressInit
  <2>1. MaterialsSound /\ RecordsSound
    BY DEF MaterialsSound, RecordsSound
  <2>2. CapabilitiesSound
    BY DEF CapabilitiesSound, CapabilitySound, CapabilityFields, GrantSound, ProgressSound
  <2>3. CallsSound
    BY DEF CallsSound
  <2> QED
    BY <2>1, <2>2, <2>3 DEF EgressInv
<1> QED
  BY <1>1, EgressInductive, PTL DEF EgressSpec

-----------------------------------------------------------------------------
(* Egress: what leaves the Host, and what it costs.                        *)

\* A material that was granted is one the review of the material lets a Broker have.
LEMMA GrantedIsReviewed ==
    ASSUME NEW m \in [request : Requests, text : Texts],
           Ask[m.request].policy # "egress/deny-by-default",
           RedactedSize[m.text] <= Ask[m.request].bytes
    PROVE  LET known == MaterialReview(m, "CLEAR", TRUE)
           IN known.egress = "BROKER_INVOCATION_REQUIRED" /\ known.decision # "REJECTED"
<1>1. RedactedSize[m.text] \in Nat /\ Ask[m.request].bytes \in Nat
  BY SizesAssumption, DocumentsAssumption
<1>2. ~(RedactedSize[m.text] > Ask[m.request].bytes)
  BY <1>1
<1>3. EgressReasons(m, "CLEAR") = {}
  BY <1>2 DEF EgressReasons
<1>4. Disposition(m, "CLEAR", TRUE) = "BROKER_INVOCATION_REQUIRED"
  BY <1>3 DEF Disposition
<1> DEFINE checks == MaterialChecks(m, "CLEAR", "BROKER_INVOCATION_REQUIRED")
<1>5. \A check \in DOMAIN checks : checks[check] # "REJECTED"
  BY <1>2 DEF MaterialChecks
<1>6. MaterialDecision(checks) # "REJECTED"
  BY <1>5 DEF MaterialDecision
<1> QED
  BY <1>4, <1>6 DEF MaterialReview

LEMMA PreflightFits ==
    ASSUME NEW r \in Requests, Preflight(r)
    PROVE  Ask[r].bytes <= Remaining("bytes")
<1>1. /\ Grant.limit["bytes"] \in Nat /\ Grant.granted["bytes"] \in Nat /\ Ask[r].bytes \in Nat
  BY DocumentsAssumption
<1>2. Remaining("bytes") \in Int
  BY <1>1 DEF Remaining
<1>3. ~(Ask[r].bytes > Remaining("bytes"))
  BY DEF Preflight, MismatchReasons
<1> QED
  BY <1>1, <1>2, <1>3

\* Whatever the Broker receives is the one call of its capability, of frozen text, reviewed and
\* cleared, within the budget and inside every window, however the deadline, the caller's signal
\* and the settlement race (issue, admit and invoke of the source-slice-egress files).
THEOREM EgressStaysGoverned == EgressSpec => []EgressIsGoverned
<1>1. ASSUME EgressInv, NEW k \in DOMAIN calls
      PROVE  LET call == calls[k] m == call.of a == capability[call.invocation].authorization IN
             /\ CallsOf(call.invocation) = {k}
             /\ m.text = Frozen[m.request] /\ Preflight(m.request)
             /\ \E review \in reviews :
                   /\ review.of = m
                   /\ LET known == MaterialReview(m, review.decision, TRUE)
                      IN known.egress = "BROKER_INVOCATION_REQUIRED" /\ known.decision # "REJECTED"
             /\ RedactedSize[m.text] <= Remaining("bytes")
             /\ a.from <= call.at /\ call.at < AttemptDeadline
             /\ call.at < a.until /\ call.at < Qualification.until
  <2> DEFINE call == calls[k]
             m == call.of
             c == capability[call.invocation]
  <2>1. call \in CallRecords
    BY <1>1 DEF EgressInv, CallsSound
  <2>2. call.invocation \in Capabilities /\ call.at \in Nat
    BY <2>1 DEF CallRecords
  <2>3. CallSound(call)
    BY <1>1 DEF EgressInv, CallsSound
  <2>4. GrantSound(c)
    BY <1>1, <2>2 DEF EgressInv, CapabilitiesSound, CapabilitySound
  <2>5. CallsOf(call.invocation) = {k}
    BY <1>1 DEF EgressInv, CallsSound, CallsOf
  <2>6. c.state # "none" /\ m = c.of /\ m \in materials
    BY <2>3, <2>4 DEF CallSound, GrantSound
  <2>7. m \in [request : Requests, text : Texts] /\ m.text = Frozen[m.request] /\ Preflight(m.request)
    BY <1>1, <2>6 DEF EgressInv, MaterialsSound
  <2> HIDE DEF m, c, call
  <2>8. PICK review \in reviews : review.of = m /\ review.decision = "CLEAR"
    BY <2>4, <2>6 DEF GrantSound, ReviewClears
  <2>9. /\ Ask[m.request].policy # "egress/deny-by-default"
        /\ RedactedSize[m.text] <= Ask[m.request].bytes
    BY <2>4, <2>6 DEF GrantSound
  <2>10. LET known == MaterialReview(m, review.decision, TRUE)
         IN known.egress = "BROKER_INVOCATION_REQUIRED" /\ known.decision # "REJECTED"
    BY <2>7, <2>8, <2>9, GrantedIsReviewed
  <2>11. RedactedSize[m.text] <= Remaining("bytes")
    <3>1. m.request \in Requests /\ m.text \in Texts
      BY <2>7
    <3>2. /\ RedactedSize[m.text] \in Nat /\ Ask[m.request].bytes \in Nat
          /\ Remaining("bytes") \in Int
      BY <3>1, SizesAssumption, DocumentsAssumption DEF Remaining
    <3> QED
      BY <2>7, <2>9, <3>1, <3>2, PreflightFits
  <2>12. /\ c.authorization.from <= call.at /\ call.at < AttemptDeadline
         /\ call.at < c.authorization.until /\ call.at < Qualification.until
    <3>1. /\ call.at < c.deadline /\ c.deadline \in Nat /\ c.authorization.from <= call.at
          /\ c.deadline <= AttemptDeadline /\ c.deadline <= Qualification.until
          /\ c.deadline <= c.authorization.until
      BY <2>3, <2>4, <2>6 DEF CallSound, GrantSound, c
    <3>2. AttemptDeadline \in Nat /\ Qualification.until \in Nat
      BY SizesAssumption, DocumentsAssumption
    <3>3. c.authorization.until \in Nat
      BY <2>4, <2>6 DEF GrantSound
    <3> QED
      BY <2>2, <3>1, <3>2, <3>3
  <2> QED
    BY <2>5, <2>7, <2>8, <2>10, <2>11, <2>12 DEF m, c, call
<1>2. EgressInv => EgressIsGoverned
  BY <1>1 DEF EgressIsGoverned
<1> QED
  BY <1>2, EgressInvariant, PTL

\* A settled invocation is one call, made and answered inside its reservation and before the
\* deadline of its capability; its tokens are accounted for, were left by the Context Grant, and
\* are settled once (invoke and settleSourceSliceModelInvocationV1).
THEOREM InvocationsStayAccounted == EgressSpec => []InvocationsAreAccounted
<1>1. ASSUME EgressInv, NEW r \in records
      PROVE  LET held == reservation[r.invocation] IN
             /\ \E k \in DOMAIN calls : CallsOf(r.invocation) = {k} /\ calls[k].at = r.started
             /\ held.from <= r.started /\ r.completed < held.until
             /\ r.completed < capability[r.invocation].deadline
             /\ r.used + r.released = held.limit /\ held.limit <= Remaining("tokens")
             /\ \A s \in records : s.invocation = r.invocation => s = r
  <2> DEFINE i == r.invocation
             receipt == capability[i].receipt
             held == reservation[i]
  <2>1. /\ i \in Capabilities /\ capability[i].state = "done"
        /\ r = RecordOf(i, receipt) /\ RecordWellFormed(r) /\ ReceiptFits(receipt, held)
    BY <1>1 DEF EgressInv, RecordsSound, RecordSound
  <2>2. /\ r.limit = receipt.limit /\ r.started = receipt.started
        /\ r.completed = receipt.completed
    BY <2>1 DEF RecordOf
  <2>3. /\ receipt.status = "COMPLETED" /\ receipt.limit = held.limit
        /\ held.limit <= Remaining("tokens")
        /\ held.from <= receipt.started /\ receipt.completed < held.until
    BY <2>1 DEF ReceiptFits
  <2>4. ProgressSound(i, capability[i])
    BY <1>1, <2>1 DEF EgressInv, CapabilitiesSound, CapabilitySound
  <2>5. PICK k \in DOMAIN calls : calls[k].invocation = i /\ calls[k].at = receipt.started
    BY <2>1, <2>3, <2>4 DEF ProgressSound
  <2>6. CallsOf(i) = {k}
    BY <1>1, <2>5 DEF EgressInv, CallsSound, CallsOf
  <2>7. receipt.completed < capability[i].deadline
    BY <2>1, <2>3, <2>4 DEF ProgressSound
  <2>8. r.used + r.released = r.limit
    BY <2>1 DEF RecordWellFormed
  <2>9. \A s \in records : s.invocation = i => s = r
    BY <1>1, <2>1 DEF EgressInv, RecordsSound, RecordSound
  <2> QED
    BY <2>2, <2>3, <2>5, <2>6, <2>7, <2>8, <2>9
<1>2. EgressInv => InvocationsAreAccounted
  BY <1>1 DEF InvocationsAreAccounted
<1> QED
  BY <1>2, EgressInvariant, PTL

-----------------------------------------------------------------------------
(* The freeze: the inductive invariant.                                    *)

Entries == [kind : {"file", "symbolic_link", "missing"}, bytes : Bytes \cup {Gone}, stamp : Nat]
Trees == [Paths -> Entries]

\* A stamp tells the edit it comes from, so that a file that is found again has not been
\* anything else in between.
HistorySound ==
    /\ history \in Seq(Trees) /\ Len(history) > 0
    /\ \A i \in 1 .. Len(history), p \in Paths : history[i][p].stamp < i
    /\ \A i, j, k \in 1 .. Len(history), p \in Paths :
         (i <= k /\ k <= j /\ history[i][p] = history[j][p] /\ history[i][p].kind = "file")
           => history[k][p] = history[i][p]

\* There is an instant that no captured file was captured after, and no checked one was
\* checked before.
Captured(c) ==
    \E n \in 1 .. Len(history) : \A p \in Paths :
      c.entries[p].kind = "file" =>
        /\ \E i \in 1 .. n : history[i][p] = c.entries[p]
        /\ p \in c.checked => \E j \in n .. Len(history) : history[j][p] = c.entries[p]
AtOneInstant(c) ==
    \E n \in 1 .. Len(history) : \A p \in Paths :
      c.entries[p].kind = "file" => history[n][p] = c.entries[p]

DigestOf(c) ==
    [source |-> c.source, deleted |-> c.deleted,
     entries |-> [p \in Paths |-> [kind |-> c.entries[p].kind, bytes |-> c.entries[p].bytes]]]

FreezeFields ==
    {"at", "source", "expected", "status", "selection", "deleted", "opened", "entries", "checked"}
Checking == {"recheck", "manifest", "rename", "verify", "done", "failed", "crashed"}
Accepted == {"manifest", "rename", "verify", "done"}
CallOfFreezeSound(c) ==
    /\ DOMAIN c = FreezeFields
    /\ c.at = "uncalled" => c.entries = [p \in Paths |-> Unread]
    /\ c.at = "tree" => c.source = "git_revision"
    /\ c.at \notin Checking => c.checked = {}
    /\ c.at # "uncalled" /\ c.source # "git_revision" =>
         /\ DOMAIN c.entries = Paths /\ Captured(c)
         /\ c.at \in Accepted => AtOneInstant(c)
    /\ c.at = "verify" => Subjects(DigestOf(c)) # {}
    /\ c.at = "done" => \E s \in Subjects(DigestOf(c)) : Verified(s)

FreezeInv ==
    /\ HistorySound
    /\ freeze = [f \in Freezes |-> freeze[f]]
    /\ \A f \in Freezes : CallOfFreezeSound(freeze[f])

-----------------------------------------------------------------------------
(* The freeze: one step.                                                   *)

\* The history after an edit: one tree more, which differs from the last in one file.
LEMMA EditAppends ==
    ASSUME HistorySound, NEW p \in Paths, Edit(p)
    PROVE  /\ Len(history') = Len(history) + 1
           /\ \A i \in 1 .. Len(history) : history'[i] = history[i]
           /\ HistorySound'
<1> DEFINE n == Len(history)
<1>1. /\ n \in Nat \ {0} /\ history \in Seq(Trees)
      /\ \A i \in 1 .. n : history[i] \in Trees
  BY DEF HistorySound
<1>2. PICK entry \in [kind : {"file", "symbolic_link"}, bytes : Bytes, stamp : {n}] \cup {Missing} :
        history' = Append(history, [history[n] EXCEPT ![p] = entry])
  BY DEF Edit, Workspace
<1>3. /\ entry \in Entries
      /\ entry.stamp < n + 1
      /\ entry.kind = "file" => entry.stamp = n
  <2>1. CASE entry = Missing
    BY <1>1, <2>1 DEF Missing, Entries
  <2>2. CASE entry \in [kind : {"file", "symbolic_link"}, bytes : Bytes, stamp : {n}]
    BY <1>1, <2>2 DEF Entries
  <2> QED
    BY <1>2, <2>1, <2>2
<1>4. PICK t \in Trees : /\ history' = Append(history, t)
                         /\ t[p] = entry
                         /\ \A q \in Paths : q # p => t[q] = history[n][q]
  <2> DEFINE t == [history[n] EXCEPT ![p] = entry]
  <2>1. history[n] \in [Paths -> Entries]
    BY <1>1 DEF Trees
  <2>2. t \in [Paths -> Entries] /\ t[p] = entry /\ \A q \in Paths : q # p => t[q] = history[n][q]
    BY <1>3, <2>1
  <2>3. t \in Trees
    BY <2>2 DEF Trees
  <2> QED
    BY <1>2, <2>2, <2>3
<1>5. /\ history' \in Seq(Trees) /\ Len(history') = n + 1
      /\ \A i \in 1 .. n : history'[i] = history[i]
      /\ history'[n + 1] = t
  BY <1>1, <1>4
<1> HIDE DEF n
<1>6. ASSUME NEW i \in 1 .. n + 1, NEW q \in Paths
      PROVE  history'[i][q].stamp < i
  <2>1. CASE i \in 1 .. n
    BY <1>5, <2>1 DEF HistorySound, n
  <2>2. CASE i = n + 1 /\ q = p
    BY <1>3, <1>4, <1>5, <2>2
  <2>3. CASE i = n + 1 /\ q # p
    <3>1. history[n][q].stamp < n
      BY <1>1 DEF HistorySound, n
    <3>2. history[n] \in [Paths -> Entries]
      BY <1>1 DEF Trees
    <3>3. history[n][q].stamp \in Nat
      BY <3>2 DEF Entries
    <3> QED
      BY <1>1, <1>4, <1>5, <2>3, <3>1, <3>3
  <2> QED
    BY <1>1, <2>1, <2>2, <2>3
<1>7. ASSUME NEW i \in 1 .. n + 1, NEW j \in 1 .. n + 1, NEW k \in 1 .. n + 1, NEW q \in Paths,
             i <= k, k <= j, history'[i][q] = history'[j][q], history'[i][q].kind = "file"
      PROVE  history'[k][q] = history'[i][q]
  <2>1. CASE j \in 1 .. n
    <3>1. i \in 1 .. n /\ k \in 1 .. n
      BY <1>1, <1>7, <2>1
    <3> QED
      BY <1>5, <1>7, <2>1, <3>1 DEF HistorySound, n
  <2>2. CASE j = n + 1 /\ k = n + 1
    BY <1>7, <2>2
  <2>3. CASE j = n + 1 /\ k \in 1 .. n
    <3>1. i \in 1 .. n /\ n \in 1 .. n
      BY <1>1, <1>7, <2>3
    <3>2. t[q] = history[i][q] /\ history[i][q].kind = "file"
      BY <1>5, <1>7, <2>3, <3>1
    <3>3. q # p
      <4>1. SUFFICES ASSUME q = p PROVE FALSE
        OBVIOUS
      <4>2. history[i][q].stamp = n
        BY <1>3, <1>4, <3>2, <4>1
      <4>3. history[i][q].stamp < i
        BY <3>1 DEF HistorySound, n
      <4> QED
        BY <1>1, <3>1, <4>2, <4>3
    <3>4. history[n][q] = history[i][q]
      BY <1>4, <3>2, <3>3
    <3>5. i <= k /\ k <= n
      BY <1>1, <1>7, <2>3
    <3>6. history[k][q] = history[i][q]
      BY <2>3, <3>1, <3>2, <3>4, <3>5 DEF HistorySound, n
    <3> QED
      BY <1>5, <2>3, <3>1, <3>6
  <2> QED
    BY <1>1, <2>1, <2>2, <2>3
<1>8. HistorySound'
  BY <1>1, <1>5, <1>6, <1>7 DEF HistorySound
<1> QED
  BY <1>5, <1>8 DEF n

\* Edits and publications take nothing back of what is known of a call.
LEMMA SoundCallsStay ==
    ASSUME FreezeInv, NEW c, CallOfFreezeSound(c),
           Len(history') >= Len(history), Len(history') \in Nat,
           \A i \in 1 .. Len(history) : history'[i] = history[i],
           published \subseteq published'
    PROVE  CallOfFreezeSound(c)'
<1> DEFINE n == Len(history)
           m == Len(history')
<1>1. n \in Nat /\ m \in Nat /\ n <= m /\ \A i \in 1 .. n : i \in 1 .. m
  BY DEF FreezeInv, HistorySound
<1>2. Captured(c) => Captured(c)'
  <2> SUFFICES ASSUME Captured(c) PROVE Captured(c)'
    OBVIOUS
  <2>1. PICK r \in 1 .. n : \A p \in Paths :
          c.entries[p].kind = "file" =>
            /\ \E i \in 1 .. r : history[i][p] = c.entries[p]
            /\ p \in c.checked => \E j \in r .. n : history[j][p] = c.entries[p]
    BY DEF Captured
  <2>2. ASSUME NEW p \in Paths, c.entries[p].kind = "file"
        PROVE  /\ \E i \in 1 .. r : history'[i][p] = c.entries[p]
               /\ p \in c.checked => \E j \in r .. m : history'[j][p] = c.entries[p]
    <3>1. PICK i \in 1 .. r : history[i][p] = c.entries[p]
      BY <2>1, <2>2
    <3>2. i \in 1 .. n
      BY <1>1
    <3>3. ASSUME p \in c.checked
          PROVE  \E j \in r .. m : history'[j][p] = c.entries[p]
      <4>1. PICK j \in r .. n : history[j][p] = c.entries[p]
        BY <2>1, <2>2, <3>3
      <4>2. j \in 1 .. n /\ j \in r .. m
        BY <1>1
      <4> QED
        BY <4>1, <4>2
    <3> QED
      BY <3>1, <3>2, <3>3
  <2>3. r \in 1 .. m
    BY <1>1
  <2> QED
    BY <2>2, <2>3 DEF Captured
<1>3. AtOneInstant(c) => AtOneInstant(c)'
  BY <1>1 DEF AtOneInstant
<1>4. Subjects(DigestOf(c)) \subseteq Subjects(DigestOf(c))'
  BY DEF Subjects, DigestOf
<1>5. \A s : Verified(s)' <=> Verified(s)
  BY DEF Verified
<1> QED
  BY <1>2, <1>3, <1>4, <1>5 DEF CallOfFreezeSound

\* A step of one call, which does not edit.
LEMMA CallStep ==
    ASSUME FreezeInv, NEW f \in Freezes, NEW new,
           history' = history, published \subseteq published',
           freeze' = [freeze EXCEPT ![f] = new], CallOfFreezeSound(new)'
    PROVE  FreezeInv'
<1>1. /\ freeze' = [g \in Freezes |-> freeze'[g]]
      /\ freeze'[f] = new
      /\ \A g \in Freezes : g # f => freeze'[g] = freeze[g]
  BY DEF FreezeInv
<1>2. HistorySound' /\ Len(history) \in Nat
  BY DEF FreezeInv, HistorySound
<1>3. ASSUME NEW g \in Freezes, g # f
      PROVE  CallOfFreezeSound(freeze[g])'
  <2>1. CallOfFreezeSound(freeze[g])
    BY DEF FreezeInv
  <2>2. PICK c : c = freeze[g]
    OBVIOUS
  <2>3. CallOfFreezeSound(c)'
    BY <1>2, <2>1, <2>2, SoundCallsStay
  <2> QED
    BY <1>1, <1>3, <2>2, <2>3
<1>4. CallOfFreezeSound(freeze[f])'
  BY <1>1
<1> QED
  BY <1>1, <1>2, <1>3, <1>4 DEF FreezeInv

\* A step of one call that publishes nothing: the invariant of the new record is enough.
LEMMA LocalStep ==
    ASSUME FreezeInv, NEW f \in Freezes, NEW new,
           history' = history, published' = published,
           freeze' = [freeze EXCEPT ![f] = new], CallOfFreezeSound(new)
    PROVE  FreezeInv'
<1>1. Len(history) \in Nat
  BY DEF FreezeInv, HistorySound
<1>2. CallOfFreezeSound(new)'
  BY <1>1, SoundCallsStay
<1> QED
  BY <1>2, CallStep

\* A step of one call that reads nothing of the files: it accepts them only where they are
\* known to be of one instant.
LEMMA QuietStep ==
    ASSUME FreezeInv, NEW f \in Freezes, NEW new,
           history' = history, published' = published,
           freeze' = [freeze EXCEPT ![f] = new],
           freeze[f].at # "uncalled",
           DOMAIN new = FreezeFields,
           new.source = freeze[f].source, new.entries = freeze[f].entries,
           new.checked = freeze[f].checked,
           new.at \notin {"uncalled", "tree", "verify"},
           new.at \notin Checking => freeze[f].at \notin Checking,
           new.at \in Accepted /\ new.source # "git_revision" => AtOneInstant(freeze[f]),
           new.at = "done" => \E s \in Subjects(DigestOf(new)) : Verified(s)
    PROVE  FreezeInv'
<1>1. CallOfFreezeSound(freeze[f])
  BY DEF FreezeInv
<1>2. /\ Captured(freeze[f]) => Captured(new)
      /\ AtOneInstant(freeze[f]) => AtOneInstant(new)
  BY DEF Captured, AtOneInstant
<1>3. CallOfFreezeSound(new)
  BY <1>1, <1>2 DEF CallOfFreezeSound
<1> QED
  BY <1>3, LocalStep

\* What a call is known to be where it stands.
LEMMA FreezeFacts ==
    ASSUME FreezeInv, NEW f \in Freezes
    PROVE  /\ CallOfFreezeSound(freeze[f])
           /\ DOMAIN freeze[f] = FreezeFields
           /\ DOMAIN freeze = Freezes
           /\ Digest(f) = DigestOf(freeze[f])
           /\ Len(history) \in Nat \ {0}
<1>1. Len(history) \in Nat \ {0}
  BY DEF FreezeInv, HistorySound
<1>2. Digest(f) = DigestOf(freeze[f])
  BY DEF Digest, DigestOf
<1> QED
  BY <1>1, <1>2 DEF FreezeInv, CallOfFreezeSound

\* A call that only goes on.
LEMMA GoesStep ==
    ASSUME FreezeInv, NEW f \in Freezes, NEW to, Goes(f, to),
           history' = history, published' = published,
           freeze[f].at # "uncalled",
           to \notin {"uncalled", "tree", "verify"},
           to \notin Checking => freeze[f].at \notin Checking,
           to \in Accepted /\ freeze[f].source # "git_revision" => AtOneInstant(freeze[f]),
           to = "done" => \E s \in Subjects(Digest(f)) : Verified(s)
    PROVE  FreezeInv'
<1>1. PICK new : new = [freeze[f] EXCEPT !.at = to]
  OBVIOUS
<1>2. freeze' = [freeze EXCEPT ![f] = new]
  BY <1>1, FreezeFacts DEF Goes
<1>3. /\ DOMAIN new = FreezeFields /\ new.at = to
      /\ new.source = freeze[f].source /\ new.entries = freeze[f].entries
      /\ new.checked = freeze[f].checked /\ new.deleted = freeze[f].deleted
  BY <1>1, FreezeFacts DEF FreezeFields
<1>4. DigestOf(new) = Digest(f)
  BY <1>3, FreezeFacts DEF DigestOf
<1> QED
  BY <1>2, <1>3, <1>4, QuietStep

LEMMA ThrowsStep ==
    ASSUME FreezeInv, NEW f \in Freezes, Throws(f), freeze[f].at # "uncalled"
    PROVE  FreezeInv'
  BY GoesStep DEF Throws, Checking, Accepted

LEMMA ProceedsStep ==
    ASSUME FreezeInv, NEW f \in Freezes, NEW to, Proceeds(f, to),
           freeze[f].at # "uncalled",
           to \notin {"uncalled", "tree", "verify"},
           to \notin Checking => freeze[f].at \notin Checking,
           to \in Accepted /\ freeze[f].source # "git_revision" => AtOneInstant(freeze[f]),
           to = "done" => \E s \in Subjects(Digest(f)) : Verified(s)
    PROVE  FreezeInv'
  BY GoesStep DEF Proceeds

-----------------------------------------------------------------------------
(* The freeze: every action.                                               *)

LEMMA CallFreezeSubjectKeeps ==
    ASSUME FreezeInv, NEW f \in Freezes, CallFreezeSubject(f)
    PROVE  FreezeInv'
<1>1. PICK source \in {"git_revision", "workspace_snapshot", "workspace_change"} :
        freeze' = [freeze EXCEPT
          ![f].at = CASE source = "git_revision" -> "tree"
                      [] source = "workspace_change" -> "status"
                      [] source = "workspace_snapshot" -> "selection",
          ![f].source = source,
          ![f].expected = IF source = "workspace_change"
                          THEN Fingerprint(Status(Workspace), Workspace) ELSE Gone]
  BY DEF CallFreezeSubject
<1>2. PICK new : new = [freeze[f] EXCEPT
          !.at = CASE source = "git_revision" -> "tree"
                   [] source = "workspace_change" -> "status"
                   [] source = "workspace_snapshot" -> "selection",
          !.source = source,
          !.expected = IF source = "workspace_change"
                       THEN Fingerprint(Status(Workspace), Workspace) ELSE Gone]
  OBVIOUS
<1>3. freeze' = [freeze EXCEPT ![f] = new]
  BY <1>1, <1>2, FreezeFacts
<1>4. /\ DOMAIN new = FreezeFields /\ new.source = source
      /\ new.at \in {"tree", "status", "selection"}
      /\ new.at = "tree" => source = "git_revision"
      /\ new.entries = freeze[f].entries /\ new.checked = freeze[f].checked
  BY <1>1, <1>2, FreezeFacts DEF FreezeFields
<1>5. new.entries = [p \in Paths |-> Unread] /\ new.checked = {}
  BY <1>4, FreezeFacts DEF CallFreezeSubject, CallOfFreezeSound, Checking
<1>6. Captured(new)
  <2>1. 1 \in 1 .. Len(history)
    BY FreezeFacts
  <2>2. \A p \in Paths : new.entries[p].kind # "file"
    BY <1>5 DEF Unread
  <2> QED
    BY <2>1, <2>2 DEF Captured
<1>7. CallOfFreezeSound(new)
  BY <1>4, <1>5, <1>6 DEF CallOfFreezeSound, Checking, Accepted
<1> QED
  BY <1>3, <1>7, LocalStep DEF CallFreezeSubject

LEMMA MaterializeGitTreeKeeps ==
    ASSUME FreezeInv, NEW f \in Freezes, MaterializeGitTree(f)
    PROVE  FreezeInv'
<1>1. PICK new : new = [freeze[f] EXCEPT !.at = "manifest", !.entries = Committed]
  OBVIOUS
<1>2. freeze' = [freeze EXCEPT ![f] = new]
  BY <1>1, FreezeFacts DEF MaterializeGitTree
<1>3. /\ DOMAIN new = FreezeFields /\ new.at = "manifest"
      /\ new.source = freeze[f].source
  BY <1>1, FreezeFacts DEF FreezeFields
<1>4. freeze[f].source = "git_revision"
  BY FreezeFacts DEF MaterializeGitTree, CallOfFreezeSound
<1>5. CallOfFreezeSound(new)
  BY <1>3, <1>4 DEF CallOfFreezeSound, Checking
<1> QED
  BY <1>2, <1>5, LocalStep DEF MaterializeGitTree

\* What Git tells of the workspace goes into a local variable.
LEMMA GitReadsKeep ==
    ASSUME FreezeInv, NEW f \in Freezes, ReadStatus(f) \/ ReadSelection(f) \/ ReadDeletions(f)
    PROVE  FreezeInv'
<1>1. CASE ReadStatus(f)
  <2>1. PICK new : new = [freeze[f] EXCEPT !.status = Status(Workspace), !.at = "selection"]
    OBVIOUS
  <2>2. freeze' = [freeze EXCEPT ![f] = new]
    BY <1>1, <2>1, FreezeFacts DEF ReadStatus
  <2>3. /\ DOMAIN new = FreezeFields /\ new.at = "selection"
        /\ new.source = freeze[f].source /\ new.entries = freeze[f].entries
        /\ new.checked = freeze[f].checked
    BY <2>1, FreezeFacts DEF FreezeFields
  <2> QED
    BY <1>1, <2>2, <2>3, QuietStep DEF ReadStatus, Checking, Accepted
<1>2. CASE ReadSelection(f)
  <2>1. PICK new : new = [freeze[f] EXCEPT !.selection = Selection(Workspace), !.at = "deletions"]
    OBVIOUS
  <2>2. freeze' = [freeze EXCEPT ![f] = new]
    BY <1>2, <2>1, FreezeFacts DEF ReadSelection
  <2>3. /\ DOMAIN new = FreezeFields /\ new.at = "deletions"
        /\ new.source = freeze[f].source /\ new.entries = freeze[f].entries
        /\ new.checked = freeze[f].checked
    BY <2>1, FreezeFacts DEF FreezeFields
  <2> QED
    BY <1>2, <2>2, <2>3, QuietStep DEF ReadSelection, Checking, Accepted
<1>3. CASE ReadDeletions(f)
  <2>1. PICK new : new = [freeze[f] EXCEPT !.deleted = Deleted(Workspace), !.at = "capture"]
    OBVIOUS
  <2>2. freeze' = [freeze EXCEPT ![f] = new]
    BY <1>3, <2>1, FreezeFacts DEF ReadDeletions
  <2>3. /\ DOMAIN new = FreezeFields /\ new.at = "capture"
        /\ new.source = freeze[f].source /\ new.entries = freeze[f].entries
        /\ new.checked = freeze[f].checked
    BY <2>1, FreezeFacts DEF FreezeFields
  <2> QED
    BY <1>3, <2>2, <2>3, QuietStep DEF ReadDeletions, Checking, Accepted
<1> QED
  BY <1>1, <1>2, <1>3

\* What is known of a captured call that reads one entry more.
LEMMA CaptureKeeps ==
    ASSUME FreezeInv, NEW f \in Freezes, NEW new, NEW p, NEW entry,
           freeze[f].at = "capture",
           DOMAIN new = FreezeFields,
           new.at = "capture", new.source = freeze[f].source, new.checked = freeze[f].checked,
           new.entries = [freeze[f].entries EXCEPT ![p] = entry],
           entry.kind = "file" => entry = Workspace[p],
           history' = history, published' = published,
           freeze' = [freeze EXCEPT ![f] = new]
    PROVE  FreezeInv'
<1>1. CallOfFreezeSound(freeze[f]) /\ freeze[f].checked = {}
  BY FreezeFacts DEF CallOfFreezeSound, Checking
<1>2. ASSUME freeze[f].source # "git_revision"
      PROVE  DOMAIN new.entries = Paths /\ Captured(new)
  <2>1. DOMAIN freeze[f].entries = Paths /\ Captured(freeze[f])
    BY <1>1, <1>2 DEF CallOfFreezeSound
  <2>2. DOMAIN new.entries = Paths
    BY <2>1
  <2>3. PICK n : n = Len(history)
    OBVIOUS
  <2>4. n \in 1 .. n /\ n \in Nat
    BY <2>3, FreezeFacts
  <2>5. ASSUME NEW q \in Paths, new.entries[q].kind = "file"
        PROVE  \E i \in 1 .. n : history[i][q] = new.entries[q]
    <3>1. CASE q = p
      <4>1. new.entries[q] = entry
        BY <2>1, <3>1
      <4> QED
        BY <2>3, <2>4, <2>5, <3>1, <4>1 DEF Workspace
    <3>2. CASE q # p
      <4>1. new.entries[q] = freeze[f].entries[q]
        BY <2>1, <3>2
      <4>2. PICK r \in 1 .. n : \E i \in 1 .. r : history[i][q] = new.entries[q]
        BY <2>1, <2>3, <2>5, <4>1 DEF Captured
      <4> QED
        BY <2>4, <4>2
    <3> QED
      BY <3>1, <3>2
  <2> QED
    BY <1>1, <2>2, <2>3, <2>4, <2>5 DEF Captured
<1>3. CallOfFreezeSound(new)
  BY <1>1, <1>2 DEF CallOfFreezeSound, Checking, Accepted
<1> QED
  BY <1>3, LocalStep

LEMMA CaptureLinkKeeps ==
    ASSUME FreezeInv, NEW f \in Freezes, CaptureLink(f)
    PROVE  FreezeInv'
<1>1. PICK p : /\ Workspace[p].kind = "symbolic_link"
               /\ freeze' = [freeze EXCEPT ![f].entries[p] = Workspace[p]]
  BY DEF CaptureLink
<1>2. PICK new : new = [freeze[f] EXCEPT !.entries[p] = Workspace[p]]
  OBVIOUS
<1>3. freeze' = [freeze EXCEPT ![f] = new]
  BY <1>1, <1>2, FreezeFacts
<1>4. /\ DOMAIN new = FreezeFields /\ new.at = freeze[f].at
      /\ new.source = freeze[f].source /\ new.checked = freeze[f].checked
      /\ new.entries = [freeze[f].entries EXCEPT ![p] = Workspace[p]]
  BY <1>2, FreezeFacts DEF FreezeFields
<1>5. freeze[f].at = "capture" /\ history' = history /\ published' = published
  BY DEF CaptureLink, Capturing
<1>6. PICK entry : entry = Workspace[p]
  OBVIOUS
<1>7. new.entries = [freeze[f].entries EXCEPT ![p] = entry]
  BY <1>4, <1>6
<1> QED
  BY <1>3, <1>4, <1>5, <1>6, <1>7, CaptureKeeps

LEMMA OpenFileKeeps ==
    ASSUME FreezeInv, NEW f \in Freezes, OpenFile(f)
    PROVE  FreezeInv'
<1>1. CASE Throws(f)
  BY <1>1, ThrowsStep DEF OpenFile, Capturing
<1>2. CASE ~ Throws(f)
  <2>1. PICK found : /\ freeze' = [freeze EXCEPT ![f].opened = found]
                     /\ history' = history /\ published' = published
    BY <1>2 DEF OpenFile
  <2>2. PICK new : new = [freeze[f] EXCEPT !.opened = found]
    OBVIOUS
  <2>3. freeze' = [freeze EXCEPT ![f] = new]
    BY <2>1, <2>2, FreezeFacts
  <2>4. /\ DOMAIN new = FreezeFields /\ new.at = freeze[f].at
        /\ new.source = freeze[f].source /\ new.entries = freeze[f].entries
        /\ new.checked = freeze[f].checked
    BY <2>2, FreezeFacts DEF FreezeFields
  <2> QED
    BY <2>1, <2>3, <2>4, QuietStep DEF OpenFile, Capturing, Checking, Accepted
<1> QED
  BY <1>1, <1>2

LEMMA ReadFileKeeps ==
    ASSUME FreezeInv, NEW f \in Freezes, ReadFile(f)
    PROVE  FreezeInv'
<1>1. CASE Throws(f)
  BY <1>1, ThrowsStep DEF ReadFile, Capturing
<1>2. CASE ~ Throws(f)
  <2>1. PICK p : /\ freeze' = [freeze EXCEPT ![f].entries[p] = Workspace[p], ![f].opened = Unread]
                 /\ history' = history /\ published' = published
    BY <1>2 DEF ReadFile
  <2>2. PICK new : new = [freeze[f] EXCEPT !.entries[p] = Workspace[p], !.opened = Unread]
    OBVIOUS
  <2>3. freeze' = [freeze EXCEPT ![f] = new]
    BY <2>1, <2>2, FreezeFacts
  <2>4. /\ DOMAIN new = FreezeFields /\ new.at = freeze[f].at
        /\ new.source = freeze[f].source /\ new.checked = freeze[f].checked
        /\ new.entries = [freeze[f].entries EXCEPT ![p] = Workspace[p]]
    BY <2>2, FreezeFacts DEF FreezeFields
  <2>5. freeze[f].at = "capture"
    BY DEF ReadFile, Capturing
  <2>6. PICK entry : entry = Workspace[p]
    OBVIOUS
  <2>7. new.entries = [freeze[f].entries EXCEPT ![p] = entry]
    BY <2>4, <2>6
  <2>8. new.at = "capture"
    BY <2>4, <2>5
  <2>9. entry.kind = "file" => entry = Workspace[p]
    BY <2>6
  <2> QED
    BY <2>1, <2>3, <2>4, <2>5, <2>7, <2>8, <2>9, CaptureKeeps, Zenon
<1> QED
  BY <1>1, <1>2

\* Git is asked again.
LEMMA ReadsAgainKeep ==
    ASSUME FreezeInv, NEW f \in Freezes,
           ReadSelectionAgain(f) \/ ReadDeletionsAgain(f) \/ ReadStatusAgain(f)
    PROVE  FreezeInv'
<1>1. freeze[f].at \in {"capture", "deletions again", "status again"}
  BY DEF ReadSelectionAgain, ReadDeletionsAgain, ReadStatusAgain
<1>2. \/ Throws(f) \/ Proceeds(f, "deletions again") \/ Proceeds(f, "status again")
      \/ Proceeds(f, "recheck")
  BY DEF ReadSelectionAgain, ReadDeletionsAgain, ReadStatusAgain
<1> QED
  BY <1>1, <1>2, ThrowsStep, ProceedsStep DEF Checking, Accepted

LEMMA RecheckFileKeeps ==
    ASSUME FreezeInv, NEW f \in Freezes, RecheckFile(f)
    PROVE  FreezeInv'
<1>1. CASE Throws(f)
  BY <1>1, ThrowsStep DEF RecheckFile
<1>2. CASE ~ Throws(f)
  <2>1. PICK p : /\ freeze[f].entries[p] = Workspace[p]
                 /\ freeze' = [freeze EXCEPT ![f].checked = @ \cup {p}]
                 /\ history' = history /\ published' = published
    BY <1>2 DEF RecheckFile, Unchanged
  <2>2. PICK new : new = [freeze[f] EXCEPT !.checked = @ \cup {p}]
    OBVIOUS
  <2>3. freeze' = [freeze EXCEPT ![f] = new]
    BY <2>1, <2>2, FreezeFacts
  <2>4. /\ DOMAIN new = FreezeFields /\ new.at = "recheck"
        /\ new.source = freeze[f].source /\ new.entries = freeze[f].entries
        /\ new.checked = freeze[f].checked \cup {p}
    BY <2>2, FreezeFacts DEF FreezeFields, RecheckFile
  <2>5. CallOfFreezeSound(freeze[f]) /\ freeze[f].at = "recheck"
    BY FreezeFacts DEF RecheckFile
  <2>6. Captured(freeze[f]) => Captured(new)
    <3> SUFFICES ASSUME Captured(freeze[f]) PROVE Captured(new)
      OBVIOUS
    <3>1. PICK n \in 1 .. Len(history) : \A q \in Paths :
            freeze[f].entries[q].kind = "file" =>
              /\ \E i \in 1 .. n : history[i][q] = freeze[f].entries[q]
              /\ q \in freeze[f].checked =>
                   \E j \in n .. Len(history) : history[j][q] = freeze[f].entries[q]
      BY DEF Captured
    <3>2. Len(history) \in n .. Len(history)
      BY FreezeFacts
    <3>3. ASSUME NEW q \in Paths, new.entries[q].kind = "file"
          PROVE  /\ \E i \in 1 .. n : history[i][q] = new.entries[q]
                 /\ q \in new.checked =>
                      \E j \in n .. Len(history) : history[j][q] = new.entries[q]
      <4>1. CASE q = p
        BY <2>1, <2>4, <3>1, <3>2, <3>3, <4>1 DEF Workspace
      <4>2. CASE q # p
        BY <2>4, <3>1, <3>3, <4>2
      <4> QED
        BY <4>1, <4>2
    <3> QED
      BY <3>3 DEF Captured
  <2>7. CallOfFreezeSound(new)
    BY <2>4, <2>5, <2>6 DEF CallOfFreezeSound, Checking, Accepted
  <2> QED
    BY <2>1, <2>3, <2>7, LocalStep
<1> QED
  BY <1>1, <1>2

\* The second read is what makes the files those of one instant.
LEMMA CheckedIsOneInstant ==
    ASSUME FreezeInv, NEW f \in Freezes, freeze[f].at = "recheck",
           freeze[f].source # "git_revision", Unchecked(f) = {}
    PROVE  AtOneInstant(freeze[f])
<1>1. Captured(freeze[f])
  BY FreezeFacts DEF CallOfFreezeSound
<1>2. PICK n \in 1 .. Len(history) : \A p \in Paths :
        freeze[f].entries[p].kind = "file" =>
          /\ \E i \in 1 .. n : history[i][p] = freeze[f].entries[p]
          /\ p \in freeze[f].checked =>
               \E j \in n .. Len(history) : history[j][p] = freeze[f].entries[p]
  BY <1>1 DEF Captured
<1>3. ASSUME NEW p \in Paths, freeze[f].entries[p].kind = "file"
      PROVE  history[n][p] = freeze[f].entries[p]
  <2>1. p \in freeze[f].checked
    BY <1>3 DEF Unchecked
  <2>2. PICK i \in 1 .. n : history[i][p] = freeze[f].entries[p]
    BY <1>2, <1>3
  <2>3. PICK j \in n .. Len(history) : history[j][p] = freeze[f].entries[p]
    BY <1>2, <1>3, <2>1
  <2>4. /\ i \in 1 .. Len(history) /\ j \in 1 .. Len(history)
        /\ i <= n /\ n <= j
    BY FreezeFacts
  <2> QED
    BY <1>3, <2>2, <2>3, <2>4 DEF FreezeInv, HistorySound
<1> QED
  BY <1>3 DEF AtOneInstant

LEMMA AcceptWorkspaceKeeps ==
    ASSUME FreezeInv, NEW f \in Freezes, AcceptWorkspace(f)
    PROVE  FreezeInv'
<1>1. freeze[f].source # "git_revision" => AtOneInstant(freeze[f])
  BY CheckedIsOneInstant DEF AcceptWorkspace
<1>2. freeze[f].at = "recheck" /\ (Throws(f) \/ Proceeds(f, "manifest"))
  BY DEF AcceptWorkspace
<1> QED
  BY <1>1, <1>2, ThrowsStep, ProceedsStep DEF Checking

\* What a call that was accepted keeps of its files.
LEMMA AcceptedStays ==
    ASSUME FreezeInv, NEW f \in Freezes, freeze[f].at \in Accepted
    PROVE  freeze[f].source # "git_revision" => AtOneInstant(freeze[f])
  BY FreezeFacts DEF CallOfFreezeSound, Accepted

LEMMA WriteManifestKeeps ==
    ASSUME FreezeInv, NEW f \in Freezes, WriteManifest(f)
    PROVE  FreezeInv'
<1>1. CASE Throws(f)
  BY <1>1, ThrowsStep DEF WriteManifest
<1>2. CASE ~ Throws(f)
  BY <1>2, AcceptedStays, GoesStep DEF WriteManifest, Checking, Accepted
<1> QED
  BY <1>1, <1>2

LEMMA PublishSubjectKeeps ==
    ASSUME FreezeInv, NEW f \in Freezes, PublishSubject(f)
    PROVE  FreezeInv'
<1>1. PICK new : new = [freeze[f] EXCEPT !.at = "verify"]
  OBVIOUS
<1>2. freeze' = [freeze EXCEPT ![f] = new]
  BY <1>1, FreezeFacts DEF PublishSubject, Goes
<1>3. /\ DOMAIN new = FreezeFields /\ new.at = "verify"
      /\ new.source = freeze[f].source /\ new.entries = freeze[f].entries
      /\ new.checked = freeze[f].checked /\ new.deleted = freeze[f].deleted
  BY <1>1, FreezeFacts DEF FreezeFields
<1>4. Digest(f) = DigestOf(new)
  BY <1>3, FreezeFacts DEF DigestOf
<1>5. Subjects(DigestOf(new))' # {}
  <2>1. [digest |-> DigestOf(new), files |-> staged[f]] \in published'
    BY <1>4 DEF PublishSubject
  <2>2. DigestOf(new)' = DigestOf(new)
    BY DEF DigestOf
  <2> QED
    BY <2>1, <2>2 DEF Subjects
<1>6. history' = history /\ published \subseteq published'
  BY DEF PublishSubject
<1>7. CallOfFreezeSound(freeze[f]) /\ freeze[f].at = "rename"
  BY FreezeFacts DEF PublishSubject
<1>8. new.source # "git_revision" =>
        DOMAIN new.entries = Paths /\ Captured(new)' /\ AtOneInstant(new)'
  BY <1>3, <1>6, <1>7 DEF CallOfFreezeSound, Accepted, Captured, AtOneInstant
<1>9. CallOfFreezeSound(new)'
  BY <1>3, <1>5, <1>8 DEF CallOfFreezeSound, Checking, Accepted
<1> QED
  BY <1>2, <1>6, <1>9, CallStep

LEMMA UsePublishedKeeps ==
    ASSUME FreezeInv, NEW f \in Freezes, UsePublished(f)
    PROVE  FreezeInv'
<1>1. \/ Goes(f, "failed")
      \/ Goes(f, "done") /\ \A s \in Subjects(Digest(f)) : Verified(s)
  BY DEF UsePublished
<1> QED
  BY <1>1, AcceptedStays, GoesStep DEF UsePublished, Checking, Accepted

LEMMA VerifySubjectKeeps ==
    ASSUME FreezeInv, NEW f \in Freezes, VerifySubject(f)
    PROVE  FreezeInv'
<1>1. Subjects(Digest(f)) # {}
  BY FreezeFacts DEF VerifySubject, CallOfFreezeSound
<1>2. \/ Throws(f)
      \/ Proceeds(f, "done") /\ \A s \in Subjects(Digest(f)) : Verified(s)
  BY DEF VerifySubject
<1>3. freeze[f].at = "verify"
  BY DEF VerifySubject
<1> QED
  BY <1>1, <1>2, <1>3, AcceptedStays, ThrowsStep, ProceedsStep DEF Checking, Accepted

\* The steps that leave the calls as they are.
LEMMA DirectoriesKeep ==
    ASSUME FreezeInv, freeze' = freeze, history' = history, published' = published
    PROVE  FreezeInv'
<1>1. HistorySound'
  BY DEF FreezeInv, HistorySound
<1>2. ASSUME NEW f \in Freezes
      PROVE  CallOfFreezeSound(freeze[f])'
  <2>1. PICK c : c = freeze[f]
    OBVIOUS
  <2>2. CallOfFreezeSound(c)'
    BY <2>1, FreezeFacts, SoundCallsStay
  <2> QED
    BY <2>1, <2>2
<1> QED
  BY <1>1, <1>2 DEF FreezeInv

LEMMA EditKeeps ==
    ASSUME FreezeInv, NEW p \in Paths, Edit(p)
    PROVE  FreezeInv'
<1>1. /\ freeze' = freeze /\ published' = published
      /\ HistorySound
  BY DEF Edit, FreezeInv
<1>2. /\ Len(history') >= Len(history) /\ Len(history') \in Nat
      /\ \A i \in 1 .. Len(history) : history'[i] = history[i]
      /\ HistorySound'
  BY <1>1, EditAppends, FreezeFacts DEF HistorySound
<1>3. ASSUME NEW g \in Freezes
      PROVE  CallOfFreezeSound(freeze[g])'
  <2>1. PICK c : c = freeze[g]
    OBVIOUS
  <2>2. CallOfFreezeSound(c)'
    BY <1>1, <1>2, <2>1, FreezeFacts, SoundCallsStay
  <2> QED
    BY <1>1, <2>1, <2>2
<1> QED
  BY <1>1, <1>2, <1>3 DEF FreezeInv

LEMMA FreezeInitial == FreezeInit => FreezeInv
<1> SUFFICES ASSUME FreezeInit PROVE FreezeInv
  OBVIOUS
<1>1. PICK bytes \in Bytes :
        history = <<[p \in Paths |-> [kind |-> "file", bytes |-> bytes, stamp |-> 0]]>>
  BY DEF FreezeInit
<1>2. PICK tree : tree = [p \in Paths |-> [kind |-> "file", bytes |-> bytes, stamp |-> 0]]
  OBVIOUS
<1>3. tree \in Trees /\ \A p \in Paths : tree[p].stamp = 0
  <2>1. [kind |-> "file", bytes |-> bytes, stamp |-> 0] \in Entries
    BY <1>1 DEF Entries
  <2> QED
    BY <1>2, <2>1 DEF Trees
<1>4. history \in Seq(Trees) /\ Len(history) = 1 /\ history[1] = tree
  BY <1>1, <1>2, <1>3
<1>5. HistorySound
  <2>1. \A i \in 1 .. Len(history) : i = 1
    BY <1>4
  <2> QED
    BY <1>3, <1>4, <2>1 DEF HistorySound
<1>6. freeze = [f \in Freezes |-> freeze[f]]
  BY DEF FreezeInit
<1>7. ASSUME NEW f \in Freezes
      PROVE  CallOfFreezeSound(freeze[f])
  BY DEF FreezeInit, CallOfFreezeSound, FreezeFields, Checking
<1> QED
  BY <1>5, <1>6, <1>7 DEF FreezeInv

LEMMA FreezeStep == FreezeInv /\ [FreezeNext]_freezeVars => FreezeInv'
<1> SUFFICES ASSUME FreezeInv, [FreezeNext]_freezeVars PROVE FreezeInv'
  OBVIOUS
<1>1. CASE \E p \in Paths : Edit(p)
  BY <1>1, EditKeeps
<1>2. ASSUME NEW f \in Freezes, CallFreezeSubject(f) \/ MaterializeGitTree(f)
      PROVE  FreezeInv'
  BY <1>2, CallFreezeSubjectKeeps, MaterializeGitTreeKeeps
<1>3. ASSUME NEW f \in Freezes, ReadStatus(f) \/ ReadSelection(f) \/ ReadDeletions(f)
      PROVE  FreezeInv'
  BY <1>3, GitReadsKeep
<1>4. ASSUME NEW f \in Freezes, CaptureLink(f) \/ OpenFile(f) \/ ReadFile(f)
      PROVE  FreezeInv'
  BY <1>4, CaptureLinkKeeps, OpenFileKeeps, ReadFileKeeps
<1>5. ASSUME NEW f \in Freezes,
             ReadSelectionAgain(f) \/ ReadDeletionsAgain(f) \/ ReadStatusAgain(f)
      PROVE  FreezeInv'
  BY <1>5, ReadsAgainKeep
<1>6. ASSUME NEW f \in Freezes, RecheckFile(f) \/ AcceptWorkspace(f)
      PROVE  FreezeInv'
  BY <1>6, RecheckFileKeeps, AcceptWorkspaceKeeps
<1>7. ASSUME NEW f \in Freezes, WriteManifest(f) \/ PublishSubject(f) \/ UsePublished(f)
      PROVE  FreezeInv'
  BY <1>7, WriteManifestKeeps, PublishSubjectKeeps, UsePublishedKeeps
<1>8. ASSUME NEW f \in Freezes, VerifySubject(f)
      PROVE  FreezeInv'
  BY <1>8, VerifySubjectKeeps
<1>9. ASSUME NEW f \in Freezes, RenameFails(f) \/ FreezeFails(f) \/ CrashFreeze(f)
      PROVE  FreezeInv'
  <2>1. freeze[f].at # "uncalled"
    BY <1>9 DEF RenameFails, FreezeFails, CrashFreeze, Calling
  <2>2. Throws(f) \/ Proceeds(f, "crashed")
    BY <1>9 DEF RenameFails, FreezeFails, CrashFreeze
  <2> QED
    BY <2>1, <2>2, ThrowsStep, ProceedsStep DEF Checking, Accepted
<1>10. CASE (\E f \in Freezes : RemoveStaged(f)) \/ ListStaging \/ UNCHANGED freezeVars
  BY <1>10, DirectoriesKeep DEF RemoveStaged, ListStaging, freezeVars
<1> QED
  BY <1>1, <1>2, <1>3, <1>4, <1>5, <1>6, <1>7, <1>8, <1>9, <1>10 DEF FreezeNext

LEMMA FreezeInvariant == FreezeSpec => []FreezeInv
  BY FreezeInitial, FreezeStep, PTL DEF FreezeSpec

\* Of every workspace, every number of calls and every number of edits: a Subject that was
\* frozen from a workspace is what the workspace was at one instant, and its directory
\* holds the manifest and those files, whatever edits, other freezes, crashes and removals
\* of staging directories fall between the reads (FrozenIsOneInstant).  Each captured file
\* was read before the first of the second reads and found the same after it, and a stamp
\* that is found again has not been replaced meanwhile.
THEOREM FreezeIsOneInstant == FreezeSpec => []FrozenIsOneInstant
<1>1. FreezeInv => FrozenIsOneInstant
  <2> SUFFICES ASSUME FreezeInv, NEW f \in Freezes, freeze[f].at = "done"
               PROVE  /\ \E s \in Subjects(Digest(f)) : Verified(s)
                      /\ freeze[f].source # "git_revision" => AtOneInstant(freeze[f])
    BY DEF FrozenIsOneInstant, AtOneInstant
  <2> QED
    BY FreezeFacts DEF CallOfFreezeSound, Accepted
<1> QED
  BY <1>1, FreezeInvariant, PTL

=============================================================================
