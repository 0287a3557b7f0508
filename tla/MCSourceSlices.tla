--------------------------- MODULE MCSourceSlices ---------------------------
(***************************************************************************)
(* The freeze of a Subject and the egress of its slices for TLC.  They     *)
(* share no state but the published directory, so a behaviour runs one of  *)
(* them: two concurrent freezes of an unchanged workspace, one freeze of a *)
(* workspace that is edited meanwhile, or the egress of a Role Attempt,    *)
(* where slices are read and reviewed, once each, before the capability is *)
(* issued: reading another one later changes nothing for it.               *)
(***************************************************************************)
EXTENDS SubjectFreeze, SourceSliceEgress

CONSTANTS f1, f2, r1, r2, r3, clean, secret, c1

VARIABLE part

MCCommitted == [p \in Paths |-> IF p = 1 THEN [kind |-> "file", bytes |-> 1, stamp |-> 0]
                                         ELSE [kind |-> "unread", bytes |-> Gone, stamp |-> 0]]

\* r1 asks for clean text, r2 for a text whose redaction outgrows its budget
\* and r3 belongs to another attempt.
MCAsk == [r \in Requests |->
    [attempt |-> IF r = r3 THEN "other" ELSE "attempt", policy |-> "egress/governed",
     category |-> "source", path |-> IF r = r1 THEN ".env" ELSE "main.ts",
     bytes |-> IF r = r1 THEN 2 ELSE 1, tokens |-> 3]]
MCFrozen == [r \in Requests |-> IF r = r2 THEN secret ELSE clean]
MCSliceSize == [t \in Texts |-> 1]
MCRedactedSize == [t \in Texts |-> IF t = secret THEN 2 ELSE 1]
MCSecretsFound == [t \in Texts |-> IF t = secret THEN 1 ELSE 0]
MCGrant == [attempt |-> "attempt", policy |-> "egress/governed",
            categories |-> {"source"}, shown |-> {"source"},
            limit |-> [bytes |-> 4, tokens |-> 4], granted |-> [bytes |-> 1, tokens |-> 1]]
MCQualification == [from |-> 0, until |-> 3, bytes |-> 2, timeout |-> 2]
\* Of the material of r1: for long, for an instant, and past the Broker's own.
MCAuthorizations ==
    {[of |-> [request |-> r1, text |-> clean], policy |-> "egress/governed", bytes |-> 2,
      timeout |-> w[3], from |-> w[1], until |-> w[2]] : w \in {<<0, 3, 2>>, <<1, 2, 1>>, <<0, 4, 2>>}}
MCAnswers == [valid : {TRUE}, inScope : BOOLEAN, bytes : {1}, in : {1, 2}, out : {1, 2}]
               \cup [valid : {FALSE}, inScope : {TRUE}, bytes : {1}, in : {1}, out : {1}]

Init ==
    /\ part \in {"one freeze", "two freezes", "egress"} /\ FreezeInit /\ EgressInit
    /\ part = "egress" => history[1][1].bytes = 1
Next ==
    /\ UNCHANGED part
    /\ \/ /\ part = "one freeze" /\ FreezeNext /\ UNCHANGED egressVars
          /\ freeze'[f2].at = "uncalled"
       \/ /\ part = "two freezes" /\ FreezeNext /\ UNCHANGED egressVars
          /\ history' = history
       \/ /\ part = "egress" /\ EgressNext /\ UNCHANGED freezeVars
          /\ (capability[c1].state # "none" => UNCHANGED <<slices, reviews>>)
          /\ \A x, y \in reviews' : x.of = y.of => x = y
Spec == Init /\ [][Next]_<<part, freezeVars, egressVars>>
=============================================================================
