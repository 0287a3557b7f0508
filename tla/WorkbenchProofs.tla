--------------------------- MODULE WorkbenchProofs ---------------------------
(***************************************************************************)
(* Proofs about WorkbenchController under the screen of WorkbenchOverlay,  *)
(* for any Assessments, any number of sessions, calls and requests that    *)
(* wait at once.                                                           *)
(***************************************************************************)
EXTENDS WorkbenchOverlay, TLAPS

-----------------------------------------------------------------------------
(* Types.                                                                  *)

Named == Assessments \cup {None}

Kinds ==
    {"CLOSED", "FAILED", "SELECTION_LOADING", "SELECTION_READY", "SELECTION_LOADING_MORE",
     "LOADING", "READY", "REPOSITORIES_LOADING", "REPOSITORIES_READY", "HEALTH_LOADING",
     "HEALTH_READY", "CATALOG_LOADING", "WIZARD_READY", "PREFLIGHT_LOADING", "BUNDLE_LOADING",
     "BUNDLE_READY"}
WizardStates == {"EMPTY", "ADMISSIBLE", "INADMISSIBLE", "SUBMITTING"}
FindingStates ==
    {"NOT_LOADED", "LIST_LOADING", "LIST_LOADING_MORE", "LIST_READY", "DETAIL_LOADING",
     "DETAIL_READY"}
EvidenceStates ==
    {"NOT_LOADED", "METADATA_LOADING", "METADATA_READY", "DISCLOSURE_LOADING",
     "DISCLOSURE_READY", "REDACTED", "EXPIRED"}
ExportStates == {"IDLE", "PREVIEW_LOADING", "PREVIEW_READY", "REQUESTING", "STATUS_READY"}
Statuses == {"PENDING", "DELIVERED", "FAILED", "EXPIRED"}

Views ==
    [kind : Kinds, asm : Named, rev : Nat, listed : SUBSET Assessments, wizard : WizardStates,
     findings : FindingStates, evidence : EvidenceStates, shownBy : Nat, deciding : BOOLEAN,
     command : {"IDLE", "RESUME", "CANCEL"}, export : ExportStates, preview : Nat, stamp : Nat,
     status : Statuses, statusBy : Nat, download : {"IDLE", "DOWNLOADING", "COMPLETE"}]

\* Operations of a view that shows an Assessment, of its Bundle, and the others.
ReadyOps ==
    {"FINDINGS", "MORE_FINDINGS", "FINDING", "METADATA", "DISCLOSURE", "POLL", "READ", "RESUME",
     "CANCEL", "DECIDE", "RESUME_READ", "CANCEL_READ", "DECIDE_READ", "MANIFEST", "BINDINGS"}
BundleOps == {"PREVIEW", "REQUEST", "STATUS", "REFRESH_STATUS", "DOWNLOAD", "DIGEST"}
PageOps == {"LIST", "MORE", "CONTEXT", "REPOSITORIES", "HEALTH", "CATALOG", "PREFLIGHT"}
Ops == ReadyOps \cup BundleOps \cup PageOps \cup {"LOAD", "START"}

Requests ==
    [op : Ops, asm : Named, was : Views, tok : Nat, gen : Nat, id : Nat,
     since : [Assessments -> Nat], answered : BOOLEAN]
Sessions == [gen : Nat, asm : Named, mon : Nat, timer : Nat]

\* What a view shows: an Assessment by its name, and evidence of terminal ones only.
ViewSound(v) ==
    /\ v \in Views
    /\ v.kind \in {"READY", "BUNDLE_READY"} => v.asm \in Assessments
    /\ v.evidence # "NOT_LOADED" => v.kind = "READY" /\ IsTerminal(v.asm, v.rev)

\* What an operation was started from.
OpSound(op, a, was) ==
    /\ op \notin PageOps => a \in Assessments
    /\ op \in ReadyOps => was.kind = "READY"
    /\ op \in {"METADATA", "DISCLOSURE"} => IsTerminal(was.asm, was.rev)
    /\ op \in BundleOps => was.kind = "BUNDLE_READY"
RequestSound(q) == q \in Requests /\ ViewSound(q.was) /\ OpSound(q.op, q.asm, q.was)

ClientTypeOK ==
    /\ ViewSound(view)
    /\ session \in Sessions /\ session.gen <= nextGen
    /\ nextGen \in Nat /\ evidenceGen \in Nat /\ calls \in Nat
    /\ head \in [Assessments -> Nat]
    /\ \A q \in requests : RequestSound(q) /\ q.gen <= nextGen

\* While the Host issues a local context, or the first listing is read, the session has nothing
\* else to wait for, but for what the Bundle of a late digest lets its user start.
Opens(q) == q.op \in {"CONTEXT", "LIST"}
Opening == {"SELECTION_LOADING", "LOADING", "BUNDLE_READY"}
OpeningAlone ==
    \A c \in requests : Opens(c) /\ IsActive(c) =>
        /\ view.kind \in Opening
        /\ \A q \in requests : IsActive(q) => q = c \/ q.op \in BundleOps

ScreenInv == ClientTypeOK /\ OpeningAlone /\ DisclosureIsWanted

-----------------------------------------------------------------------------
(* Revisions.  What is said of a session is said of the operations it waits *)
(* for (live), the view, the monitor's number and the revision of Fresh.    *)

\* An operation whose answer loads an Assessment, and one of an Assessment on the screen.
Loads(q) == q.op = "LOAD" \/ (q.op = "START" /\ q.answered = TRUE)
Shows(q) == q.op \in ReadyOps
IsSubject(q) == Loads(q) \/ Shows(q)
Monitors(q) == q.op \in {"POLL", "READ"}
Current(q, mon) == Monitors(q) /\ q.tok = mon
Busy(v) == v.deciding = TRUE \/ v.command # "IDLE"

NamesItsOwn(live) ==
    /\ \A q \in live : q.op = "START" => q.asm = Fresh
    /\ \A q \in live : Shows(q) => q.was.asm = q.asm

\* Before it exists, nothing is about the Assessment that a start creates.
FreshExists(live, v, revision) ==
    revision = 0 =>
      /\ \A q \in live : IsSubject(q) \/ q.op = "CONTEXT" => q.asm # Fresh
      /\ v.kind = "READY" => v.asm # Fresh
      /\ v.kind = "SELECTION_READY" => Fresh \notin v.listed
      /\ \A q \in live : q.op = "MORE" => Fresh \notin q.was.listed

\* While there are Assessments to select from, a session is about the one it started alone, and
\* that one is not listed.
OnlyFresh(live, v, listed) ==
    /\ \A q \in live : IsSubject(q) => q.asm = Fresh /\ Fresh \notin listed
    /\ v.kind = "READY" => v.asm = Fresh /\ Fresh \notin listed
Selecting(live, v) ==
    /\ v.kind = "SELECTION_READY" => OnlyFresh(live, v, v.listed)
    /\ v.kind = "SELECTION_READY" => \A q \in live : q.op # "MORE"
    /\ \A q \in live : q.op = "MORE" => OnlyFresh(live, v, q.was.listed)
    /\ \A q, p \in live : q.op = "MORE" /\ p.op = "MORE" => p = q

\* A session is about two Assessments: the one it started, and one it opened or selected.
TwoSubjects(live, v) ==
    \E b \in Assessments :
      /\ \A q \in live : IsSubject(q) => q.asm \in {Fresh, b}
      /\ v.kind = "READY" => v.asm \in {Fresh, b}

\* An Assessment that is being loaded is on no screen and in no other operation.
LoadsAreApart(live, v) ==
    /\ \A l, q \in live : Loads(l) /\ IsSubject(q) /\ q # l => q.asm # l.asm
    /\ \A l \in live : Loads(l) /\ v.kind = "READY" => v.asm # l.asm

\* One monitor is current, and none while a command is.
OneMonitor(live, v, mon) ==
    /\ \A q \in live : Monitors(q) => q.tok <= mon
    /\ \A q, p \in live : Current(q, mon) /\ Current(p, mon) => p = q
    /\ v.kind = "READY" /\ Busy(v) => \A q \in live : ~Current(q, mon)

\* As long as something may still be loaded or selected, at most one Assessment is shown: its
\* newest revision is on the screen, or the monitor's.
Single(live, v, revision) ==
    \/ revision = 0 \/ v.kind = "SELECTION_READY"
    \/ \E q \in live : Loads(q) \/ q.op = "MORE"
NewestShown(live, v, mon) ==
    /\ v.kind = "READY" => \A p \in live : Shows(p) => p.was.rev <= v.rev
    /\ \A q, p \in live : Current(q, mon) /\ Shows(p) => p.was.rev <= q.was.rev
    /\ \A q \in live : Current(q, mon) /\ v.kind = "READY" => v.rev <= q.was.rev

\* Always, the current monitor is not behind the screen, and no operation that waits can put the
\* screen ahead of it.
MonitorLeads(live, v, mon) ==
    \A q \in live : Current(q, mon) =>
      /\ v.kind = "READY" /\ v.asm = q.asm => v.rev <= q.was.rev
      /\ \/ v.kind = "READY" => v.rev <= q.was.rev
         \/ \A p \in live : Shows(p) /\ p.asm = q.asm => p.was.rev <= q.was.rev

RevisionInv(live, v, mon, revision) ==
    /\ NamesItsOwn(live) /\ FreshExists(live, v, revision) /\ Selecting(live, v)
    /\ TwoSubjects(live, v) /\ LoadsAreApart(live, v) /\ OneMonitor(live, v, mon)
    /\ Single(live, v, revision) => NewestShown(live, v, mon)
    /\ MonitorLeads(live, v, mon)

Numbered(live, v, mon) ==
    /\ mon \in Nat /\ v.rev \in Nat
    /\ \A q \in live : q.tok \in Nat /\ q.was.rev \in Nat

\* Another screen of the revision that is shown.
SameRevision(live, v, v2) ==
    /\ v2.kind # "SELECTION_READY"
    /\ v2.kind = "READY" =>
         /\ v.kind = "READY" /\ v2.rev = v.rev
         /\ \/ v2.asm = v.asm
            \/ \E q \in live : Shows(q) /\ q.asm = v2.asm /\ q.was.rev = v.rev

\* An operation joins: of what is shown, or of nothing that a session is about.
Joins(p, v) ==
    /\ ~Loads(p) /\ ~Monitors(p) /\ p.op \notin {"CONTEXT", "MORE"}
    /\ p.op = "START" => p.asm = Fresh
    /\ Shows(p) => v.kind = "READY" /\ p.asm = v.asm /\ p.was = v

LEMMA SameRevisionKeeps ==
    ASSUME NEW live, NEW v, NEW mon, NEW revision,
           RevisionInv(live, v, mon, revision), Numbered(live, v, mon),
           NEW live2, NEW v2, NEW mon2 \in {mon, mon + 1}, NEW revision2,
           revision2 = 0 => revision = 0,
           NEW p, Joins(p, v), live2 \subseteq live \cup {p},
           v2 = v \/ SameRevision(live, v, v2),
           v2.kind = "READY" /\ Busy(v2) => Busy(v) \/ mon2 = mon + 1
    PROVE  RevisionInv(live2, v2, mon2, revision2)
<1> USE DEF IsSubject
<1>1. NamesItsOwn(live2)
  BY DEF RevisionInv, NamesItsOwn, Joins
<1>2. \A q \in live2 : q \in live \/ (q = p /\ Joins(p, v))
  OBVIOUS
<1>3. \A q \in live2 : Loads(q) \/ q.op \in {"CONTEXT", "MORE"} \/ Monitors(q) => q \in live
  BY <1>2 DEF Joins
<1>4. ASSUME NEW q \in live2, IsSubject(q)
      PROVE  \/ \E x \in live : IsSubject(x) /\ x.asm = q.asm
             \/ v.kind = "READY" /\ v.asm = q.asm
  BY <1>2, <1>4 DEF Joins
<1>5. v2.kind = "READY" =>
        /\ v.kind = "READY" /\ v2.rev = v.rev
        /\ \/ v2.asm = v.asm
           \/ \E x \in live : IsSubject(x) /\ Shows(x) /\ x.asm = v2.asm /\ x.was.rev = v.rev
  BY DEF SameRevision
<1>6. v2.kind = "SELECTION_READY" => v2 = v
  BY DEF SameRevision
<1>7. FreshExists(live2, v2, revision2)
  BY <1>3, <1>4, <1>5, <1>6 DEF RevisionInv, FreshExists
<1>8. ASSUME NEW listed, OnlyFresh(live, v, listed)
      PROVE  OnlyFresh(live2, v2, listed)
  BY <1>4, <1>5, <1>8 DEF OnlyFresh
<1>9. Selecting(live2, v2)
  BY <1>3, <1>6, <1>8 DEF RevisionInv, Selecting
<1>10. TwoSubjects(live2, v2)
  BY <1>4, <1>5 DEF RevisionInv, TwoSubjects
<1>11. LoadsAreApart(live2, v2)
  <2>1. ASSUME NEW l \in live2, NEW q \in live2, Loads(l), IsSubject(q), q # l
        PROVE  q.asm # l.asm
    <3>1. l \in live
      BY <1>3, <2>1
    <3>2. CASE q \in live
      BY <2>1, <3>1, <3>2 DEF RevisionInv, LoadsAreApart
    <3>3. CASE q = p /\ Joins(p, v)
      BY <2>1, <3>1, <3>3 DEF RevisionInv, LoadsAreApart, Joins
    <3> QED
      BY <1>2, <3>2, <3>3
  <2>2. ASSUME NEW l \in live2, Loads(l), v2.kind = "READY"
        PROVE  v2.asm # l.asm
    <3>1. l \in live
      BY <1>3, <2>2
    <3> QED
      BY <1>5, <2>2, <3>1 DEF RevisionInv, LoadsAreApart, Loads, Shows, ReadyOps
  <2> QED
    BY <2>1, <2>2 DEF LoadsAreApart
<1>12. \A q \in live2 : Current(q, mon2) => q \in live /\ Current(q, mon) /\ mon2 = mon
  <2> SUFFICES ASSUME NEW q \in live2, Current(q, mon2)
               PROVE  q \in live /\ Current(q, mon) /\ mon2 = mon
    OBVIOUS
  <2>1. q \in live /\ Monitors(q) /\ q.tok = mon2
    BY <1>3 DEF Current
  <2>2. q.tok <= mon /\ mon \in Nat
    BY <2>1 DEF RevisionInv, OneMonitor, Numbered
  <2> QED
    BY <2>1, <2>2 DEF Current
<1>13. OneMonitor(live2, v2, mon2)
  <2>1. \A q \in live2 : Monitors(q) => q.tok <= mon2
    BY <1>3 DEF RevisionInv, OneMonitor, Numbered
  <2>2. \A q, x \in live2 : Current(q, mon2) /\ Current(x, mon2) => x = q
    BY <1>12 DEF RevisionInv, OneMonitor
  <2>3. ASSUME v2.kind = "READY", Busy(v2), NEW q \in live2
        PROVE  ~Current(q, mon2)
    <3>1. v.kind = "READY"
      BY <1>5, <2>3
    <3>2. mon + 1 # mon
      BY DEF Numbered
    <3> QED
      BY <1>12, <2>3, <3>1, <3>2 DEF RevisionInv, OneMonitor
  <2> QED
    BY <2>1, <2>2, <2>3 DEF OneMonitor
<1>14. ASSUME NEW q \in live2, Shows(q)
       PROVE  /\ q.was.rev \in Nat
              /\ \/ q \in live
                 \/ v.kind = "READY" /\ q.was.rev = v.rev /\ q.asm = v.asm
  <2>1. CASE q \in live
    BY <2>1 DEF Numbered
  <2>2. CASE q = p /\ Joins(p, v)
    <3>1. v.kind = "READY" /\ q.asm = v.asm /\ q.was = v
      BY <1>14, <2>2 DEF Joins
    <3> QED
      BY <3>1 DEF Numbered
  <2> QED
    BY <1>2, <2>1, <2>2
<1>15. ASSUME Single(live2, v2, revision2)
       PROVE  NewestShown(live2, v2, mon2)
  <2>1. Single(live, v, revision)
    BY <1>3, <1>6, <1>15 DEF Single
  <2>2. NewestShown(live, v, mon) /\ v.rev \in Nat
    BY <2>1 DEF RevisionInv, Numbered
  <2>3. v2.kind = "READY" => \A q \in live2 : Shows(q) => q.was.rev <= v2.rev
    BY <1>5, <1>14, <2>2 DEF NewestShown
  <2>4. \A q, x \in live2 : Current(q, mon2) /\ Shows(x) => x.was.rev <= q.was.rev
    BY <1>12, <1>14, <2>2 DEF NewestShown
  <2>5. \A q \in live2 : Current(q, mon2) /\ v2.kind = "READY" => v2.rev <= q.was.rev
    BY <1>5, <1>12, <2>2 DEF NewestShown
  <2> QED
    BY <2>3, <2>4, <2>5 DEF NewestShown
<1>16. ASSUME NEW q \in live2, Current(q, mon2)
       PROVE  /\ v2.kind = "READY" /\ v2.asm = q.asm => v2.rev <= q.was.rev
              /\ \/ v2.kind = "READY" => v2.rev <= q.was.rev
                 \/ \A x \in live2 : Shows(x) /\ x.asm = q.asm => x.was.rev <= q.was.rev
  <2>1. q \in live /\ Current(q, mon)
    BY <1>12, <1>16
  <2>2. v.kind = "READY" /\ v.asm = q.asm => v.rev <= q.was.rev
    BY <2>1 DEF RevisionInv, MonitorLeads
  <2>3. CASE v.kind = "READY" => v.rev <= q.was.rev
    BY <1>5, <2>3
  <2>4. CASE \A x \in live : Shows(x) /\ x.asm = q.asm => x.was.rev <= q.was.rev
    <3>1. \A x \in live2 : Shows(x) /\ x.asm = q.asm => x.was.rev <= q.was.rev
      BY <1>14, <2>2, <2>4
    <3>2. v2.kind = "READY" /\ v2.asm = q.asm => v2.rev <= q.was.rev
      BY <1>5, <2>2, <2>4
    <3> QED
      BY <3>1, <3>2
  <2> QED
    BY <2>1, <2>3, <2>4 DEF RevisionInv, MonitorLeads
<1>17. MonitorLeads(live2, v2, mon2)
  BY <1>16 DEF MonitorLeads
<1> QED
  BY <1>1, <1>7, <1>9, <1>10, <1>11, <1>13, <1>15, <1>17 DEF RevisionInv

\* An operation goes on as another of its kind, or leaves for a page of its own.
Alike(p, q) ==
    /\ p.asm = q.asm /\ p.was = q.was /\ p.tok = q.tok
    /\ Loads(p) <=> Loads(q)
    /\ Shows(p) <=> Shows(q)
    /\ Monitors(p) <=> Monitors(q)
    /\ p.op = "MORE" <=> q.op = "MORE"
    /\ p.op = "CONTEXT" <=> q.op = "CONTEXT"
    /\ p.op = "START" => q.op = "START"

LEMMA ReplacementKeeps ==
    ASSUME NEW live, NEW v, NEW mon, NEW revision,
           RevisionInv(live, v, mon, revision), Numbered(live, v, mon),
           NEW live2, NEW v2, NEW revision2, revision2 = 0 => revision = 0,
           NEW q \in live, NEW p, Alike(p, q), live2 \subseteq (live \ {q}) \cup {p},
           v2 = v \/ v2.kind \notin {"READY", "SELECTION_READY"}
    PROVE  RevisionInv(live2, v2, mon, revision2)
<1>1. \A x \in live2 : (x \in live /\ x # q) \/ x = p
  OBVIOUS
<1>2. ASSUME NEW x \in live2
      PROVE  \E y \in live : Alike(x, y) /\ (x = p => y = q) /\ (x # p => y = x)
  <2>1. CASE x = p
    BY <2>1
  <2>2. CASE x # p
    BY <1>1, <2>2 DEF Alike
  <2> QED
    BY <2>1, <2>2
<1>3. v2.kind \in {"READY", "SELECTION_READY"} => v2 = v
  OBVIOUS
<1>4. NamesItsOwn(live2)
  BY <1>2 DEF RevisionInv, NamesItsOwn, Alike
<1>5. \A x \in live2 : IsSubject(x) => \E y \in live : IsSubject(y) /\ y.asm = x.asm
  BY <1>2 DEF IsSubject, Alike
<1>6. FreshExists(live2, v2, revision2)
  <2> SUFFICES ASSUME revision2 = 0
               PROVE  /\ \A x \in live2 : IsSubject(x) \/ x.op = "CONTEXT" => x.asm # Fresh
                      /\ v2.kind = "READY" => v2.asm # Fresh
                      /\ v2.kind = "SELECTION_READY" => Fresh \notin v2.listed
                      /\ \A x \in live2 : x.op = "MORE" => Fresh \notin x.was.listed
    BY DEF FreshExists
  <2>1. \A x \in live2 : x.op = "CONTEXT" => \E y \in live : y.op = "CONTEXT" /\ y.asm = x.asm
    BY <1>2 DEF Alike
  <2>2. \A x \in live2 : x.op = "MORE" => \E y \in live : y.op = "MORE" /\ y.was = x.was
    BY <1>2 DEF Alike
  <2> QED
    BY <1>3, <1>5, <2>1, <2>2 DEF RevisionInv, FreshExists
<1>7. ASSUME NEW listed, OnlyFresh(live, v, listed)
      PROVE  OnlyFresh(live2, v2, listed)
  BY <1>3, <1>5, <1>7 DEF OnlyFresh
<1>8. Selecting(live2, v2)
  <2>1. \A x \in live2 : x.op = "MORE" =>
          \E y \in live : y.op = "MORE" /\ y.was = x.was /\ (x = p => y = q) /\ (x # p => y = x)
    BY <1>2 DEF Alike
  <2>2. \A x \in live2 : x.op = "MORE" => OnlyFresh(live2, v2, x.was.listed)
    BY <1>7, <2>1 DEF RevisionInv, Selecting
  <2>3. \A x, y \in live2 : x.op = "MORE" /\ y.op = "MORE" => y = x
    BY <1>1, <2>1 DEF RevisionInv, Selecting
  <2> QED
    BY <1>3, <1>7, <2>1, <2>2, <2>3 DEF RevisionInv, Selecting
<1>9. TwoSubjects(live2, v2)
  BY <1>3, <1>5 DEF RevisionInv, TwoSubjects
<1>10. LoadsAreApart(live2, v2)
  <2>1. \A x \in live2 : IsSubject(x) =>
          \E y \in live : IsSubject(y) /\ y.asm = x.asm /\ (Loads(x) <=> Loads(y))
                          /\ (x = p => y = q) /\ (x # p => y = x)
    BY <1>2 DEF IsSubject, Alike
  <2>2. ASSUME NEW l \in live2, NEW x \in live2, Loads(l), IsSubject(x), x # l
        PROVE  x.asm # l.asm
    <3>1. IsSubject(l)
      BY <2>2 DEF IsSubject
    <3>2. PICK ly \in live : /\ ly.asm = l.asm /\ Loads(ly)
                             /\ (l = p => ly = q) /\ (l # p => ly = l)
      BY <2>1, <2>2, <3>1
    <3>3. PICK y \in live : /\ IsSubject(y) /\ y.asm = x.asm
                            /\ (x = p => y = q) /\ (x # p => y = x)
      BY <2>1, <2>2
    <3>4. y # ly
      BY <1>1, <2>2, <3>2, <3>3
    <3> QED
      BY <3>2, <3>3, <3>4 DEF RevisionInv, LoadsAreApart
  <2>3. ASSUME NEW l \in live2, Loads(l), v2.kind = "READY"
        PROVE  v2.asm # l.asm
    <3>1. PICK ly \in live : ly.asm = l.asm /\ Loads(ly)
      BY <2>1, <2>3 DEF IsSubject
    <3> QED
      BY <1>3, <2>3, <3>1 DEF RevisionInv, LoadsAreApart
  <2> QED
    BY <2>2, <2>3 DEF LoadsAreApart
<1>11. \A x \in live2 : Monitors(x) =>
         \E y \in live : /\ Monitors(y) /\ y.tok = x.tok /\ y.asm = x.asm /\ y.was = x.was
                         /\ (x = p => y = q) /\ (x # p => y = x)
  BY <1>2 DEF Alike
<1>12. \A x \in live2 : Current(x, mon) =>
         \E y \in live : /\ Current(y, mon) /\ y.asm = x.asm /\ y.was = x.was
                         /\ (x = p => y = q) /\ (x # p => y = x)
  BY <1>11 DEF Current
<1>13. OneMonitor(live2, v2, mon)
  <2>1. \A x \in live2 : Monitors(x) => x.tok <= mon
    BY <1>11 DEF RevisionInv, OneMonitor
  <2>2. \A x, y \in live2 : Current(x, mon) /\ Current(y, mon) => y = x
    BY <1>1, <1>12 DEF RevisionInv, OneMonitor
  <2>3. v2.kind = "READY" /\ Busy(v2) => \A x \in live2 : ~Current(x, mon)
    BY <1>3, <1>12 DEF RevisionInv, OneMonitor
  <2> QED
    BY <2>1, <2>2, <2>3 DEF OneMonitor
<1>14. \A x \in live2 : Shows(x) => \E y \in live : Shows(y) /\ y.asm = x.asm /\ y.was = x.was
  BY <1>2 DEF Alike
<1>15. Single(live2, v2, revision2) => Single(live, v, revision)
  <2>1. \A x \in live2 : Loads(x) \/ x.op = "MORE" => \E y \in live : Loads(y) \/ y.op = "MORE"
    BY <1>2 DEF Alike
  <2> QED
    BY <1>3, <2>1 DEF Single
<1>16. NewestShown(live, v, mon) => NewestShown(live2, v2, mon)
  BY <1>3, <1>12, <1>14 DEF NewestShown
<1>17. MonitorLeads(live2, v2, mon)
  BY <1>3, <1>12, <1>14 DEF RevisionInv, MonitorLeads
<1> QED
  BY <1>4, <1>6, <1>8, <1>9, <1>10, <1>13, <1>15, <1>16, <1>17 DEF RevisionInv

\* A revision r that is read, with what monitors it next.
IsPollOf(p, a, r, mon) ==
    /\ p.op = "POLL" /\ p.asm = a /\ p.was.asm = a /\ p.was.rev = r /\ p.tok = mon
Reread(v, a, r) == v.kind = "READY" /\ v.asm = a /\ v.rev = r /\ ~Busy(v)

\* The Assessment that is shown, or monitored, is read again: no other monitor is current then.
LEMMA RereadKeeps ==
    ASSUME NEW live, NEW v, NEW mon, NEW revision,
           RevisionInv(live, v, mon, revision), Numbered(live, v, mon),
           NEW q \in live, Shows(q), NEW r \in Nat, NEW mon2 \in {mon, mon + 1},
           \A x \in live : x # q => ~Current(x, mon2),
           Single(live, v, revision) => \A x \in live : Shows(x) => x.was.rev <= r,
           NEW polls, \A p \in polls : IsPollOf(p, q.asm, r, mon2),
           \A p1, p2 \in polls : p1 = p2,
           NEW live2, live2 \subseteq (live \ {q}) \cup polls,
           NEW v2, Reread(v2, q.asm, r)
    PROVE  RevisionInv(live2, v2, mon2, revision)
<1> USE DEF IsSubject
<1>1. v2.kind = "READY" /\ v2.asm = q.asm /\ v2.rev = r /\ ~Busy(v2)
  BY DEF Reread
<1>2. \A x \in live2 : (x \in live /\ x # q) \/ x \in polls
  OBVIOUS
<1>3. ASSUME NEW p \in polls
      PROVE  /\ Shows(p) /\ ~Loads(p) /\ p.op \notin {"START", "MORE", "CONTEXT"} /\ Monitors(p)
             /\ p.asm = q.asm /\ p.was.asm = p.asm /\ p.was.rev = r /\ p.tok = mon2
  BY DEF IsPollOf, Shows, Loads, ReadyOps, Monitors
<1>4. NamesItsOwn(live2)
  BY <1>2, <1>3 DEF RevisionInv, NamesItsOwn
<1>5. \A x \in live2 : IsSubject(x) => \E y \in live : IsSubject(y) /\ y.asm = x.asm
  BY <1>2, <1>3
<1>6. \A x \in live2 : Loads(x) \/ x.op \in {"START", "MORE", "CONTEXT"} => x \in live /\ x # q
  BY <1>2, <1>3
<1>7. FreshExists(live2, v2, revision)
  BY <1>1, <1>5, <1>6 DEF RevisionInv, FreshExists
<1>8. ASSUME NEW listed, OnlyFresh(live, v, listed)
      PROVE  OnlyFresh(live2, v2, listed)
  BY <1>1, <1>5, <1>8 DEF OnlyFresh
<1>9. Selecting(live2, v2)
  BY <1>1, <1>6, <1>8 DEF RevisionInv, Selecting
<1>10. TwoSubjects(live2, v2)
  BY <1>1, <1>5 DEF RevisionInv, TwoSubjects
<1>11. ~Loads(q)
  BY DEF Shows, Loads, ReadyOps
<1>12. LoadsAreApart(live2, v2)
  <2>1. ASSUME NEW l \in live2, NEW x \in live2, Loads(l), IsSubject(x), x # l
        PROVE  x.asm # l.asm
    <3>1. l \in live /\ l # q
      BY <1>6, <2>1
    <3>2. q.asm # l.asm
      BY <2>1, <3>1 DEF RevisionInv, LoadsAreApart
    <3>3. CASE x \in live
      BY <2>1, <3>1, <3>3 DEF RevisionInv, LoadsAreApart
    <3>4. CASE x \in polls
      BY <1>3, <3>2, <3>4
    <3> QED
      BY <1>2, <3>3, <3>4
  <2>2. ASSUME NEW l \in live2, Loads(l)
        PROVE  v2.asm # l.asm
    <3>1. l \in live /\ l # q
      BY <1>6, <2>2
    <3> QED
      BY <1>1, <2>2, <3>1 DEF RevisionInv, LoadsAreApart
  <2> QED
    BY <2>1, <2>2 DEF LoadsAreApart
<1>13. \A x \in live2 : Current(x, mon2) => x \in polls
  BY <1>2
<1>14. OneMonitor(live2, v2, mon2)
  <2>1. ASSUME NEW x \in live2, Monitors(x)
        PROVE  x.tok <= mon2
    <3>1. CASE x \in live
      <4>1. x.tok \in Nat /\ x.tok <= mon /\ mon \in Nat
        BY <2>1, <3>1 DEF RevisionInv, OneMonitor, Numbered
      <4> QED
        BY <4>1
    <3>2. CASE x \in polls
      BY <1>3, <3>2 DEF Numbered
    <3> QED
      BY <1>2, <3>1, <3>2
  <2>2. \A x, y \in live2 : Current(x, mon2) /\ Current(y, mon2) => y = x
    BY <1>13
  <2> QED
    BY <1>1, <2>1, <2>2 DEF OneMonitor
<1>15. Single(live2, v2, revision) => Single(live, v, revision)
  BY <1>1, <1>6 DEF Single
<1>16. ASSUME Single(live2, v2, revision)
       PROVE  NewestShown(live2, v2, mon2)
  <2>1. \A x \in live2 : Shows(x) => x.was.rev <= r
    BY <1>2, <1>3, <1>15, <1>16
  <2> QED
    BY <1>1, <1>3, <1>13, <2>1 DEF NewestShown
<1>17. MonitorLeads(live2, v2, mon2)
  BY <1>1, <1>3, <1>13 DEF MonitorLeads
<1> QED
  BY <1>4, <1>7, <1>9, <1>10, <1>12, <1>14, <1>16, <1>17 DEF RevisionInv

\* An Assessment is loaded.  While something else is still to be loaded or selected, nothing was
\* shown; otherwise the monitor of another Assessment may go on, not behind what still waits.
LEMMA LoadKeeps ==
    ASSUME NEW live, NEW v, NEW mon, NEW revision,
           RevisionInv(live, v, mon, revision), Numbered(live, v, mon),
           NEW q \in live, Loads(q), NEW r \in Nat, NEW mon2, NEW polls,
           \/ polls = {} /\ mon2 = mon
           \/ mon2 = mon + 1 /\ \E p : polls = {p} /\ IsPollOf(p, q.asm, r, mon2),
           NEW live2, live2 \subseteq (live \ {q}) \cup polls,
           NEW v2, Reread(v2, q.asm, r)
    PROVE  RevisionInv(live2, v2, mon2, revision)
<1> USE DEF IsSubject
<1>1. v2.kind = "READY" /\ v2.asm = q.asm /\ v2.rev = r /\ ~Busy(v2)
  BY DEF Reread
<1>2. \A x \in live2 : (x \in live /\ x # q) \/ x \in polls
  OBVIOUS
<1>3. ASSUME NEW p \in polls
      PROVE  /\ Shows(p) /\ ~Loads(p) /\ p.op \notin {"START", "MORE", "CONTEXT"} /\ Monitors(p)
             /\ p.asm = q.asm /\ p.was.asm = p.asm /\ p.was.rev = r /\ p.tok = mon2
             /\ mon2 = mon + 1
  BY DEF IsPollOf, Shows, Loads, ReadyOps, Monitors
<1>4. NamesItsOwn(live2)
  BY <1>2, <1>3 DEF RevisionInv, NamesItsOwn
<1>5. \A x \in live2 : IsSubject(x) => \E y \in live : IsSubject(y) /\ y.asm = x.asm
  BY <1>2, <1>3
<1>6. \A x \in live2 : Loads(x) \/ x.op \in {"START", "MORE", "CONTEXT"} => x \in live /\ x # q
  BY <1>2, <1>3
<1>7. FreshExists(live2, v2, revision)
  BY <1>1, <1>5, <1>6 DEF RevisionInv, FreshExists
<1>8. ASSUME NEW listed, OnlyFresh(live, v, listed)
      PROVE  OnlyFresh(live2, v2, listed)
  BY <1>1, <1>5, <1>8 DEF OnlyFresh
<1>9. Selecting(live2, v2)
  BY <1>1, <1>6, <1>8 DEF RevisionInv, Selecting
<1>10. TwoSubjects(live2, v2)
  BY <1>1, <1>5 DEF RevisionInv, TwoSubjects
<1>11. \A x \in live : IsSubject(x) /\ x # q => x.asm # q.asm
  BY DEF RevisionInv, LoadsAreApart
<1>12. LoadsAreApart(live2, v2)
  <2>1. ASSUME NEW l \in live2, NEW x \in live2, Loads(l), IsSubject(x), x # l
        PROVE  x.asm # l.asm
    <3>1. l \in live /\ l # q
      BY <1>6, <2>1
    <3>2. q.asm # l.asm
      BY <1>11, <2>1, <3>1
    <3>3. CASE x \in live
      BY <2>1, <3>1, <3>3 DEF RevisionInv, LoadsAreApart
    <3>4. CASE x \in polls
      BY <1>3, <3>2, <3>4
    <3> QED
      BY <1>2, <3>3, <3>4
  <2>2. ASSUME NEW l \in live2, Loads(l)
        PROVE  v2.asm # l.asm
    BY <1>1, <1>6, <1>11, <2>2
  <2> QED
    BY <2>1, <2>2 DEF LoadsAreApart
<1>13. mon \in Nat /\ mon2 \in {mon, mon + 1}
  BY DEF Numbered
<1>14. ASSUME NEW x \in live2, Current(x, mon2)
       PROVE  \/ x \in polls
              \/ x \in live /\ x # q /\ Current(x, mon) /\ polls = {}
  <2>1. CASE x \in live /\ x # q
    <3>1. Monitors(x) /\ x.tok = mon2 /\ x.tok <= mon
      BY <1>14, <2>1 DEF Current, RevisionInv, OneMonitor
    <3>2. mon2 = mon
      BY <1>13, <3>1
    <3>3. mon2 # mon + 1
      BY <1>13, <3>2
    <3> QED
      BY <2>1, <3>1, <3>2, <3>3 DEF Current
  <2> QED
    BY <1>2, <2>1
<1>15. OneMonitor(live2, v2, mon2)
  <2>1. ASSUME NEW x \in live2, Monitors(x)
        PROVE  x.tok <= mon2
    <3>1. CASE x \in live
      <4>1. x.tok \in Nat /\ x.tok <= mon
        BY <2>1, <3>1 DEF RevisionInv, OneMonitor, Numbered
      <4> QED
        BY <1>13, <4>1
    <3>2. CASE x \in polls
      BY <1>3, <1>13, <3>2
    <3> QED
      BY <1>2, <3>1, <3>2
  <2>2. \A x, y \in polls : x = y
    OBVIOUS
  <2>3. \A x, y \in live2 : Current(x, mon2) /\ Current(y, mon2) => y = x
    BY <1>14, <2>2 DEF RevisionInv, OneMonitor
  <2> QED
    BY <1>1, <2>1, <2>3 DEF OneMonitor
<1>16. ASSUME Single(live2, v2, revision), NEW x \in live, x # q
       PROVE  ~Shows(x)
  <2> SUFFICES ASSUME Shows(x) PROVE FALSE
    OBVIOUS
  <2>1. PICK b \in Assessments : \A y \in live : IsSubject(y) => y.asm \in {Fresh, b}
    BY DEF RevisionInv, TwoSubjects
  <2>2. x.asm # q.asm /\ x.asm \in {Fresh, b} /\ q.asm \in {Fresh, b}
    BY <1>11, <1>16, <2>1
  <2>3. CASE revision = 0
    BY <1>16, <2>2, <2>3 DEF RevisionInv, FreshExists
  <2>4. CASE \E l \in live2 : Loads(l)
    <3>1. PICK l \in live : Loads(l) /\ l # q
      BY <1>6, <2>4
    <3>2. l.asm # q.asm /\ l.asm \in {Fresh, b}
      BY <1>11, <2>1, <3>1
    <3>3. l # x
      BY <3>1 DEF Loads, Shows, ReadyOps
    <3>4. x.asm # l.asm
      BY <1>16, <3>1, <3>3 DEF RevisionInv, LoadsAreApart
    <3> QED
      BY <2>2, <3>2, <3>4
  <2>5. CASE \E m \in live2 : m.op = "MORE"
    <3>1. PICK m \in live : m.op = "MORE"
      BY <1>6, <2>5
    <3>2. x.asm = Fresh /\ q.asm = Fresh
      BY <1>16, <3>1 DEF RevisionInv, Selecting, OnlyFresh
    <3> QED
      BY <2>2, <3>2
  <2> QED
    BY <1>1, <1>16, <2>3, <2>4, <2>5 DEF Single
<1>17. ASSUME Single(live2, v2, revision)
       PROVE  NewestShown(live2, v2, mon2)
  <2>1. \A x \in live2 : Shows(x) => x \in polls
    BY <1>2, <1>16, <1>17
  <2>2. \A x : Current(x, mon2) => Shows(x)
    BY DEF Current, Monitors, Shows, ReadyOps
  <2> QED
    BY <1>1, <1>3, <2>1, <2>2 DEF NewestShown
<1>18. ASSUME NEW x \in live2, Current(x, mon2)
       PROVE  /\ v2.kind = "READY" /\ v2.asm = x.asm => v2.rev <= x.was.rev
              /\ \/ v2.kind = "READY" => v2.rev <= x.was.rev
                 \/ \A y \in live2 : Shows(y) /\ y.asm = x.asm => y.was.rev <= x.was.rev
  <2>1. CASE x \in polls
    BY <1>1, <1>3, <2>1
  <2>2. CASE x \in live /\ x # q /\ Current(x, mon) /\ polls = {}
    <3>1. Shows(x)
      BY <2>2 DEF Current, Monitors, Shows, ReadyOps
    <3>2. x.asm # v2.asm
      BY <1>1, <1>11, <2>2, <3>1
    <3>3. NewestShown(live, v, mon)
      BY DEF Single, RevisionInv
    <3>4. \A y \in live2 : Shows(y) => y.was.rev <= x.was.rev
      BY <2>2, <3>3 DEF NewestShown
    <3> QED
      BY <3>2, <3>4
  <2> QED
    BY <1>14, <1>18, <2>1, <2>2
<1>19. MonitorLeads(live2, v2, mon2)
  BY <1>18 DEF MonitorLeads
<1> QED
  BY <1>4, <1>7, <1>9, <1>10, <1>12, <1>15, <1>17, <1>19 DEF RevisionInv

\* A session that begins waits for one answer, and one that has ended for none.
LEMMA BeginningKeeps ==
    ASSUME NEW live, NEW v, NEW mon \in Nat, NEW revision,
           v.kind \notin {"READY", "SELECTION_READY"},
           NEW p, live \subseteq {p}, p.op \in {"LIST", "LOAD", "CONTEXT"},
           p.op = "LOAD" => p.asm \in Assessments,
           p.op # "LIST" /\ revision = 0 => p.asm # Fresh
    PROVE  RevisionInv(live, v, mon, revision)
<1>1. \A q \in live : q = p /\ ~Shows(q) /\ ~Monitors(q) /\ q.op \notin {"START", "MORE"}
  BY DEF Shows, ReadyOps, Monitors
<1>2. \A q \in live : IsSubject(q) => q = p /\ p.op = "LOAD"
  BY <1>1 DEF IsSubject, Loads
<1>3. NamesItsOwn(live)
  BY <1>1 DEF NamesItsOwn
<1>4. FreshExists(live, v, revision)
  BY <1>1, <1>2 DEF FreshExists
<1>5. Selecting(live, v)
  BY <1>1 DEF Selecting
<1>6. TwoSubjects(live, v)
  BY <1>2, ClientsAssumption DEF TwoSubjects
<1>7. LoadsAreApart(live, v)
  BY <1>1 DEF LoadsAreApart
<1>8. \A q \in live : ~Current(q, mon)
  BY <1>1 DEF Current
<1>9. OneMonitor(live, v, mon) /\ NewestShown(live, v, mon) /\ MonitorLeads(live, v, mon)
  BY <1>1, <1>8 DEF OneMonitor, NewestShown, MonitorLeads
<1> QED
  BY <1>3, <1>4, <1>5, <1>6, <1>7, <1>9 DEF RevisionInv

\* What is selected is not the one Assessment the session is about.
LEMMA SelectionKeeps ==
    ASSUME NEW live, NEW v, NEW mon, NEW revision,
           RevisionInv(live, v, mon, revision), v.kind = "SELECTION_READY",
           NEW p, p.op = "LOAD", p.asm \in Assessments, p.asm \in v.listed,
           NEW live2, live2 \subseteq live \cup {p},
           NEW v2, v2.kind \notin {"READY", "SELECTION_READY"}
    PROVE  RevisionInv(live2, v2, mon, revision)
<1> USE DEF IsSubject
<1>1. /\ OnlyFresh(live, v, v.listed) /\ \A q \in live : q.op # "MORE"
  BY DEF RevisionInv, Selecting
<1>2. /\ Loads(p) /\ ~Shows(p) /\ ~Monitors(p)
      /\ p.op \notin {"START", "MORE", "CONTEXT"}
  BY DEF Loads, Shows, ReadyOps, Monitors
<1>3. NamesItsOwn(live2)
  BY <1>2 DEF RevisionInv, NamesItsOwn
<1>4. FreshExists(live2, v2, revision)
  BY <1>1, <1>2 DEF RevisionInv, FreshExists
<1>5. Selecting(live2, v2)
  BY <1>1, <1>2 DEF Selecting
<1>6. TwoSubjects(live2, v2)
  BY <1>1 DEF TwoSubjects, OnlyFresh
<1>7. \A q \in live : IsSubject(q) => q.asm = Fresh /\ q.asm # p.asm
  BY <1>1 DEF OnlyFresh
<1>8. LoadsAreApart(live2, v2)
  BY <1>7 DEF RevisionInv, LoadsAreApart
<1>9. \A q \in live2 : Monitors(q) \/ Shows(q) => q \in live
  BY <1>2
<1>10. OneMonitor(live2, v2, mon)
  BY <1>9 DEF RevisionInv, OneMonitor, Current
<1>11. NewestShown(live, v, mon)
  BY DEF RevisionInv, Single
<1>12. NewestShown(live2, v2, mon)
  BY <1>9, <1>11 DEF NewestShown, Current
<1>13. MonitorLeads(live2, v2, mon)
  BY <1>9 DEF RevisionInv, MonitorLeads, Current
<1> QED
  BY <1>3, <1>4, <1>5, <1>6, <1>8, <1>10, <1>12, <1>13 DEF RevisionInv

\* A start that is committed: until then nothing was about its Assessment.
LEMMA StartKeeps ==
    ASSUME NEW live, NEW v, NEW mon,
           RevisionInv(live, v, mon, 0),
           NEW q \in live, q.op = "START", NEW p, p.op = "START", p.asm = q.asm, p.answered = TRUE,
           NEW live2, live2 \subseteq (live \ {q}) \cup {p}, NEW revision2, revision2 # 0
    PROVE  RevisionInv(live2, v, mon, revision2)
<1> USE DEF IsSubject
<1>1. /\ Loads(p) /\ ~Shows(p) /\ ~Monitors(p) /\ p.op \notin {"MORE", "CONTEXT"} /\ p.asm = Fresh
  BY DEF Loads, Shows, ReadyOps, Monitors, RevisionInv, NamesItsOwn
<1>2. /\ \A x \in live : IsSubject(x) => x.asm # Fresh
      /\ v.kind = "READY" => v.asm # Fresh
      /\ v.kind = "SELECTION_READY" => Fresh \notin v.listed
      /\ \A x \in live : x.op = "MORE" => Fresh \notin x.was.listed
  BY DEF RevisionInv, FreshExists
<1>3. NamesItsOwn(live2)
  BY <1>1 DEF RevisionInv, NamesItsOwn
<1>4. FreshExists(live2, v, revision2)
  BY DEF FreshExists
<1>5. \A x \in live2 : x.op = "MORE" => x \in live
  BY <1>1
<1>6. ASSUME NEW listed, OnlyFresh(live, v, listed), Fresh \notin listed
      PROVE  OnlyFresh(live2, v, listed)
  BY <1>1, <1>6 DEF OnlyFresh
<1>7. Selecting(live2, v)
  BY <1>2, <1>5, <1>6 DEF RevisionInv, Selecting
<1>8. TwoSubjects(live2, v)
  BY <1>1 DEF RevisionInv, TwoSubjects
<1>9. LoadsAreApart(live2, v)
  BY <1>1, <1>2 DEF RevisionInv, LoadsAreApart
<1>10. \A x \in live2 : Monitors(x) \/ Shows(x) => x \in live
  BY <1>1
<1>11. OneMonitor(live2, v, mon)
  BY <1>10 DEF RevisionInv, OneMonitor, Current
<1>12. NewestShown(live, v, mon)
  BY DEF RevisionInv, Single
<1>13. NewestShown(live2, v, mon)
  BY <1>10, <1>12 DEF NewestShown, Current
<1>14. MonitorLeads(live2, v, mon)
  BY <1>10 DEF RevisionInv, MonitorLeads, Current
<1> QED
  BY <1>3, <1>4, <1>7, <1>8, <1>9, <1>11, <1>13, <1>14 DEF RevisionInv

\* The first listing of a session, which is about nothing yet.
LEMMA ListingKeeps ==
    ASSUME NEW live, NEW v, NEW mon \in Nat, NEW revision,
           v.kind = "SELECTION_READY", revision = 0 => Fresh \notin v.listed,
           \A q \in live : q.op \in BundleOps
    PROVE  RevisionInv(live, v, mon, revision)
<1>1. \A q \in live : /\ ~Loads(q) /\ ~Shows(q) /\ ~IsSubject(q) /\ ~Monitors(q) /\ ~Current(q, mon)
                      /\ q.op \notin {"START", "MORE", "CONTEXT"}
  BY DEF BundleOps, Loads, Shows, ReadyOps, IsSubject, Monitors, Current
<1>2. NamesItsOwn(live) /\ FreshExists(live, v, revision)
  BY <1>1 DEF NamesItsOwn, FreshExists
<1>3. Selecting(live, v)
  BY <1>1 DEF Selecting, OnlyFresh
<1>4. TwoSubjects(live, v)
  BY <1>1, ClientsAssumption DEF TwoSubjects
<1>5. LoadsAreApart(live, v)
  BY <1>1 DEF LoadsAreApart
<1>6. OneMonitor(live, v, mon) /\ NewestShown(live, v, mon) /\ MonitorLeads(live, v, mon)
  BY <1>1 DEF OneMonitor, NewestShown, MonitorLeads
<1> QED
  BY <1>2, <1>3, <1>4, <1>5, <1>6 DEF RevisionInv

\* More of a listing is asked for, and answered.
LEMMA MoreAskedKeeps ==
    ASSUME NEW live, NEW v, NEW mon, NEW revision,
           RevisionInv(live, v, mon, revision), v.kind = "SELECTION_READY",
           NEW p, p.op = "MORE", p.was = v, NEW live2, live2 \subseteq live \cup {p},
           NEW v2, v2.kind \notin {"READY", "SELECTION_READY"}
    PROVE  RevisionInv(live2, v2, mon, revision)
<1> USE DEF IsSubject
<1>1. /\ ~Loads(p) /\ ~Shows(p) /\ ~Monitors(p) /\ p.op \notin {"START", "CONTEXT"}
  BY DEF Loads, Shows, ReadyOps, Monitors
<1>2. OnlyFresh(live, v, v.listed) /\ \A q \in live : q.op # "MORE"
  BY DEF RevisionInv, Selecting
<1>3. \A q \in live2 :
        \/ IsSubject(q) \/ Loads(q) \/ Shows(q) \/ Monitors(q)
        \/ q.op \in {"START", "CONTEXT"}
        => q \in live
  BY <1>1
<1>4. \A q \in live2 : q.op = "MORE" => q = p
  BY <1>2
<1>5. NamesItsOwn(live2)
  BY <1>3 DEF RevisionInv, NamesItsOwn
<1>6. FreshExists(live2, v2, revision)
  BY <1>3, <1>4 DEF RevisionInv, FreshExists
<1>7. OnlyFresh(live2, v2, v.listed)
  BY <1>2, <1>3 DEF OnlyFresh
<1>8. Selecting(live2, v2)
  BY <1>4, <1>7 DEF Selecting
<1>9. TwoSubjects(live2, v2)
  BY <1>3 DEF RevisionInv, TwoSubjects
<1>10. LoadsAreApart(live2, v2)
  BY <1>3 DEF RevisionInv, LoadsAreApart
<1>11. OneMonitor(live2, v2, mon)
  BY <1>3 DEF RevisionInv, OneMonitor, Current
<1>12. NewestShown(live, v, mon)
  BY DEF RevisionInv, Single
<1>13. NewestShown(live2, v2, mon)
  BY <1>3, <1>12 DEF NewestShown, Current
<1>14. MonitorLeads(live2, v2, mon)
  BY <1>3 DEF RevisionInv, MonitorLeads, Current
<1> QED
  BY <1>5, <1>6, <1>8, <1>9, <1>10, <1>11, <1>13, <1>14 DEF RevisionInv

LEMMA MoreAnsweredKeeps ==
    ASSUME NEW live, NEW v, NEW mon, NEW revision,
           RevisionInv(live, v, mon, revision),
           NEW q \in live, q.op = "MORE", NEW live2, live2 \subseteq live \ {q},
           NEW v2, v2.kind = "SELECTION_READY", v2.listed = q.was.listed
    PROVE  RevisionInv(live2, v2, mon, revision)
<1> USE DEF IsSubject
<1>1. /\ OnlyFresh(live, v, v2.listed)
      /\ \A x \in live2 : x.op # "MORE"
  BY DEF RevisionInv, Selecting
<1>2. NamesItsOwn(live2)
  BY DEF RevisionInv, NamesItsOwn
<1>3. FreshExists(live2, v2, revision)
  BY DEF RevisionInv, FreshExists
<1>4. Selecting(live2, v2)
  BY <1>1 DEF Selecting, OnlyFresh
<1>5. TwoSubjects(live2, v2)
  BY DEF RevisionInv, TwoSubjects
<1>6. LoadsAreApart(live2, v2)
  BY DEF RevisionInv, LoadsAreApart
<1>7. OneMonitor(live2, v2, mon)
  BY DEF RevisionInv, OneMonitor
<1>8. NewestShown(live, v, mon)
  BY DEF RevisionInv, Single
<1>9. NewestShown(live2, v2, mon)
  BY <1>8 DEF NewestShown
<1>10. MonitorLeads(live2, v2, mon)
  BY DEF RevisionInv, MonitorLeads
<1> QED
  BY <1>2, <1>3, <1>4, <1>5, <1>6, <1>7, <1>9, <1>10 DEF RevisionInv
-----------------------------------------------------------------------------
(* The invariant, and what a step does to the revision on the screen.      *)

Live == {q \in requests : IsActive(q)}
ClientInv == ScreenInv /\ RevisionInv(Live, view, session.mon, head[Fresh])

Advances ==
    (view.kind = "READY" /\ view'.kind = "READY" /\ view.asm = view'.asm
     /\ session.gen = session'.gen) => view'.rev >= view.rev
ClientStep == ClientInv' /\ Advances

\* The screen shows what it showed, or a revision that it showed.
Repaints(shown) ==
    /\ shown = view \/ SameRevision(Live, view, shown)
    /\ shown.kind = "READY" /\ Busy(shown) => Busy(view) \/ session'.mon = session.mon + 1

-----------------------------------------------------------------------------
(* Views and requests.                                                     *)

\* The views that are built from nothing, or from another.
LEMMA PagesAreViews ==
    ASSUME NEW kind \in Kinds, NEW a \in Named,
           kind \in {"READY", "BUNDLE_READY"} => a \in Assessments
    PROVE  /\ ViewSound(Page(kind, a))
           /\ Page(kind, a).kind = kind /\ Page(kind, a).asm = a
           /\ Page(kind, a).evidence = "NOT_LOADED"
  BY DEF Page, CLOSED, ViewSound, Views, Named, WizardStates, FindingStates, EvidenceStates,
         ExportStates, Statuses

LEMMA ClosedIsView ==
    ViewSound(CLOSED) /\ CLOSED.evidence = "NOT_LOADED" /\ CLOSED.kind = "CLOSED"
  BY DEF CLOSED, ViewSound, Views, Kinds, Named, WizardStates, FindingStates, EvidenceStates,
         ExportStates, Statuses

LEMMA SelectionsAreViews ==
    ASSUME NEW listed \in SUBSET Assessments
    PROVE  /\ ViewSound(Selection(listed)) /\ Selection(listed).evidence = "NOT_LOADED"
           /\ Selection(listed).kind = "SELECTION_READY" /\ Selection(listed).listed = listed
  BY DEF Selection, Page, CLOSED, ViewSound, Views, Kinds, Named, WizardStates, FindingStates,
         EvidenceStates, ExportStates, Statuses

LEMMA WizardsAreViews ==
    ASSUME NEW state \in WizardStates
    PROVE  /\ ViewSound(Wizard(state)) /\ Wizard(state).evidence = "NOT_LOADED"
           /\ Wizard(state).kind = "WIZARD_READY"
  BY DEF Wizard, Page, CLOSED, ViewSound, Views, Kinds, Named, WizardStates, FindingStates,
         EvidenceStates, ExportStates, Statuses

LEMMA ReadyIsView ==
    ASSUME NEW a \in Assessments, NEW r \in Nat
    PROVE  /\ ViewSound(Ready(a, r))
           /\ Ready(a, r).kind = "READY" /\ Ready(a, r).asm = a /\ Ready(a, r).rev = r
           /\ Ready(a, r).evidence = "NOT_LOADED" /\ ~Busy(Ready(a, r))
  BY DEF Busy, Ready, Page, CLOSED, ViewSound, Views, Kinds, Named, WizardStates, FindingStates,
         EvidenceStates, ExportStates, Statuses

\* A view of the Assessment that another one shows, at the same revision, with this Evidence
\* and with no decision or command under way.
SameRecord(w, v, evidence) ==
    /\ ViewSound(w) /\ w.kind = "READY" /\ w.evidence = evidence
    /\ w.asm = v.asm /\ w.rev = v.rev /\ ~Busy(w)

LEMMA FindingsAreViews ==
    ASSUME NEW v, ViewSound(v), v.kind = "READY", NEW state \in FindingStates
    PROVE  SameRecord(Findings(v, state), v, "NOT_LOADED")
<1>1. v.asm \in Assessments /\ v.rev \in Nat
  BY DEF ViewSound, Views
<1> DEFINE ready == Ready(v.asm, v.rev)
           w == [ready EXCEPT !.findings = state]
<1>2. /\ ready \in Views /\ ready.kind = "READY" /\ ready.asm = v.asm /\ ready.rev = v.rev
      /\ ready.evidence = "NOT_LOADED" /\ ~Busy(ready)
  <2>1. /\ ViewSound(ready) /\ ready.kind = "READY" /\ ready.asm = v.asm /\ ready.rev = v.rev
        /\ ready.evidence = "NOT_LOADED" /\ ~Busy(ready)
    BY <1>1, ReadyIsView
  <2> QED
    BY <2>1 DEF ViewSound
<1> HIDE DEF ready
<1>3. /\ w \in Views /\ w.kind = "READY" /\ w.asm = v.asm /\ w.rev = v.rev
      /\ w.evidence = "NOT_LOADED" /\ w.deciding = ready.deciding /\ w.command = ready.command
  BY <1>2 DEF Views
<1> HIDE DEF w
<1>4. ViewSound(w) /\ ~Busy(w)
  BY <1>1, <1>2, <1>3 DEF ViewSound, Busy
<1>5. SameRecord(w, v, "NOT_LOADED")
  BY <1>3, <1>4 DEF SameRecord
<1> QED
  BY <1>5 DEF Findings, w, ready

LEMMA EvidenceIsView ==
    ASSUME NEW v, ViewSound(v), v.kind = "READY", NEW state \in EvidenceStates,
           state # "NOT_LOADED" => IsTerminal(v.asm, v.rev)
    PROVE  SameRecord(Evidence(v, state), v, state)
<1> DEFINE f == Findings(v, "DETAIL_READY")
           e == [f EXCEPT !.evidence = state]
<1>1. f \in Views /\ f.kind = "READY" /\ f.asm = v.asm /\ f.rev = v.rev /\ ~Busy(f)
  <2>1. "DETAIL_READY" \in FindingStates
    BY DEF FindingStates
  <2>2. SameRecord(f, v, "NOT_LOADED")
    BY <2>1, FindingsAreViews
  <2> QED
    BY <2>2 DEF SameRecord, ViewSound
<1>2. v.asm \in Assessments /\ v.rev \in Nat
  BY DEF ViewSound, Views
<1> HIDE DEF f
<1>3. /\ e \in Views /\ e.kind = "READY" /\ e.asm = v.asm /\ e.rev = v.rev /\ e.evidence = state
      /\ e.deciding = f.deciding /\ e.command = f.command
  BY <1>1 DEF Views
<1> HIDE DEF e
<1>4. ViewSound(e) /\ ~Busy(e)
  BY <1>1, <1>2, <1>3 DEF ViewSound, IsTerminal, Busy
<1>5. SameRecord(e, v, state)
  BY <1>3, <1>4 DEF SameRecord
<1> QED
  BY <1>5 DEF Evidence, e, f

\* A Finding under decision.
LEMMA DecidingIsView ==
    ASSUME NEW v, ViewSound(v), v.kind = "READY", NEW deciding \in BOOLEAN
    PROVE  LET w == [Evidence(v, "NOT_LOADED") EXCEPT !.deciding = deciding]
           IN  /\ ViewSound(w) /\ w.evidence = "NOT_LOADED"
               /\ w.kind = "READY" /\ w.asm = v.asm /\ w.rev = v.rev
               /\ w.command = "IDLE" /\ w.deciding = deciding
<1> DEFINE e == Evidence(v, "NOT_LOADED")
           w == [e EXCEPT !.deciding = deciding]
<1>1. v.asm \in Assessments
  BY DEF ViewSound
<1>2. /\ e \in Views /\ e.kind = "READY" /\ e.asm = v.asm /\ e.rev = v.rev
      /\ e.evidence = "NOT_LOADED" /\ e.command = "IDLE"
  <2>1. "NOT_LOADED" \in EvidenceStates
    BY DEF EvidenceStates
  <2>2. SameRecord(e, v, "NOT_LOADED")
    BY <2>1, EvidenceIsView
  <2> QED
    BY <2>2 DEF SameRecord, ViewSound, Busy
<1> HIDE DEF e
<1>3. /\ w \in Views /\ w.kind = "READY" /\ w.asm = v.asm /\ w.rev = v.rev
      /\ w.evidence = "NOT_LOADED" /\ w.command = "IDLE" /\ w.deciding = deciding
  BY <1>2 DEF Views
<1> HIDE DEF w
<1>4. ViewSound(w)
  BY <1>1, <1>3 DEF ViewSound
<1> QED
  BY <1>3, <1>4 DEF w, e

LEMMA DisclosuresAreViews ==
    ASSUME NEW v, ViewSound(v), v.kind = "READY", IsTerminal(v.asm, v.rev), NEW by \in Nat
    PROVE  LET w == [Evidence(v, "DISCLOSURE_READY") EXCEPT !.shownBy = by]
           IN  /\ ViewSound(w) /\ w.kind = "READY"
               /\ w.asm = v.asm /\ w.rev = v.rev /\ w.shownBy = by /\ ~Busy(w)
<1> DEFINE e == Evidence(v, "DISCLOSURE_READY")
           w == [e EXCEPT !.shownBy = by]
<1>1. v.asm \in Assessments
  BY DEF ViewSound
<1>2. e \in Views /\ e.kind = "READY" /\ e.asm = v.asm /\ e.rev = v.rev /\ ~Busy(e)
  <2>1. "DISCLOSURE_READY" \in EvidenceStates
    BY DEF EvidenceStates
  <2>2. SameRecord(e, v, "DISCLOSURE_READY")
    BY <2>1, EvidenceIsView
  <2> QED
    BY <2>2 DEF SameRecord, ViewSound
<1> HIDE DEF e
<1>3. /\ w \in Views /\ w.kind = "READY" /\ w.asm = v.asm /\ w.rev = v.rev /\ w.shownBy = by
      /\ w.deciding = e.deciding /\ w.command = e.command
  BY <1>2 DEF Views
<1> HIDE DEF w
<1>4. ViewSound(w) /\ ~Busy(w)
  BY <1>1, <1>2, <1>3 DEF ViewSound, IsTerminal, Busy
<1> QED
  BY <1>3, <1>4 DEF w, e

LEMMA BundlesAreViews ==
    ASSUME NEW v, ViewSound(v), v.kind = "BUNDLE_READY", NEW state \in ExportStates
    PROVE  LET w == Exporting(v, state)
           IN  ViewSound(w) /\ w.kind = "BUNDLE_READY" /\ w.evidence = "NOT_LOADED"
<1> DEFINE p == Page("BUNDLE_READY", v.asm)
           w == [p EXCEPT !.rev = v.rev, !.export = state, !.preview = v.preview]
<1>1. v.asm \in Assessments /\ v.rev \in Nat /\ v.preview \in Nat
  BY DEF ViewSound, Views
<1>2. p \in Views /\ p.kind = "BUNDLE_READY" /\ p.asm = v.asm /\ p.evidence = "NOT_LOADED"
  BY <1>1, PagesAreViews DEF ViewSound, Kinds, Named
<1> HIDE DEF p
<1>3. w \in Views /\ w.kind = "BUNDLE_READY" /\ w.asm = v.asm /\ w.evidence = "NOT_LOADED"
  BY <1>1, <1>2 DEF Views
<1> QED
  BY <1>1, <1>3 DEF ViewSound, Exporting, p

\* A request of a sound view is sound.
Asks(q, op, a, was, tok, gen) ==
    /\ RequestSound(q) /\ q.op = op /\ q.gen = gen /\ q.asm = a /\ q.was = was
    /\ q.tok = tok

LEMMA RequestsAreSound ==
    ASSUME NEW op \in Ops, NEW a \in Named, NEW was, ViewSound(was), OpSound(op, a, was),
           NEW tok \in Nat, NEW gen \in Nat, NEW id \in Nat, head \in [Assessments -> Nat]
    PROVE  Asks(Request(op, a, was, tok, gen, id), op, a, was, tok, gen)
  BY DEF Request, Requests, RequestSound, ViewSound, Asks

\* The next request of an operation, which goes on under the same session.
LEMMA FollowsAreSound ==
    ASSUME ClientTypeOK, NEW q \in requests, NEW op \in Ops, NEW a \in Named,
           OpSound(op, a, q.was)
    PROVE  Asks(Follow(q, op, a), op, a, q.was, q.tok, q.gen)
<1>1. /\ ViewSound(q.was) /\ q.tok \in Nat /\ q.gen \in Nat /\ q.id \in Nat
      /\ head \in [Assessments -> Nat]
  BY DEF ClientTypeOK, RequestSound, Requests
<1> QED
  BY <1>1, RequestsAreSound DEF Follow

-----------------------------------------------------------------------------
(* Three kinds of steps, by what becomes of the session.                   *)

\* A disclosure that is shown goes on only if nothing it depends on changes.
DisclosureKept ==
    view'.evidence = "DISCLOSURE_READY" =>
        view' = view /\ session' = session /\ evidenceGen' = evidenceGen

\* The session lives on. While it is opened, only operations of a Bundle start and the view stays
\* one of those that the opening is awaited in.
LEMMA SessionGoesOn ==
    ASSUME ScreenInv, session' \in Sessions, session'.gen = session.gen, nextGen' = nextGen,
           evidenceGen' \in Nat, calls' \in Nat, head' \in [Assessments -> Nat],
           ViewSound(view'), DisclosureKept,
           \A q \in requests' \ requests : RequestSound(q) /\ q.gen <= nextGen /\ ~Opens(q),
           \A c \in requests' \cap requests : Opens(c) /\ IsActive(c) =>
             /\ view'.kind \in Opening
             /\ \A q \in requests' \ requests : IsActive(q) => q.op \in BundleOps
    PROVE  ScreenInv'
<1>1. ClientTypeOK'
  <2>1. \A q \in requests' : RequestSound(q) /\ q.gen <= nextGen
    BY DEF ScreenInv, ClientTypeOK
  <2> QED
    BY <2>1 DEF ScreenInv, ClientTypeOK
<1>2. OpeningAlone'
  <2> SUFFICES ASSUME NEW c \in requests', Opens(c), IsActive(c)'
               PROVE  /\ view'.kind \in Opening
                      /\ \A q \in requests' : IsActive(q)' => q = c \/ q.op \in BundleOps
    BY DEF OpeningAlone, Opens
  <2>1. \A q : IsActive(q)' <=> IsActive(q)
    BY DEF IsActive
  <2>2. c \in requests' \cap requests /\ IsActive(c)
    BY <2>1
  <2>3. \A q \in requests : IsActive(q) => q = c \/ q.op \in BundleOps
    BY <2>2 DEF ScreenInv, OpeningAlone
  <2> QED
    BY <2>1, <2>2, <2>3
<1>3. DisclosureIsWanted'
  BY DEF ScreenInv, DisclosureIsWanted, DisclosureKept, IsTerminal
<1> QED
  BY <1>1, <1>2, <1>3 DEF ScreenInv

\* A new session waits for one request.
LEMMA SessionBegins ==
    ASSUME ScreenInv, NEW a \in Named, NewSession(a), evidenceGen' \in Nat, calls' \in Nat,
           head' \in [Assessments -> Nat],
           ViewSound(view'), view'.evidence # "DISCLOSURE_READY",
           NEW p, RequestSound(p), p.gen = nextGen + 1, requests' \subseteq requests \cup {p},
           Opens(p) => view'.kind \in Opening
    PROVE  ScreenInv'
<1>1. /\ nextGen \in Nat /\ nextGen' = nextGen + 1
      /\ session' \in Sessions /\ session'.gen = nextGen + 1
  <2>1. nextGen \in Nat
    BY DEF ScreenInv, ClientTypeOK
  <2>2. session' = [gen |-> nextGen + 1, asm |-> a, mon |-> 0, timer |-> 0]
    BY DEF NewSession, NoSession
  <2>3. nextGen' = nextGen + 1
    BY DEF NewSession
  <2> QED
    BY <2>1, <2>2, <2>3 DEF Sessions
<1>2. \A q \in requests : RequestSound(q) /\ q.gen \in Nat /\ q.gen <= nextGen
  BY DEF ScreenInv, ClientTypeOK, RequestSound, Requests
<1>3. \A q \in requests' : RequestSound(q) /\ q.gen <= nextGen'
  BY <1>1, <1>2
<1>4. ClientTypeOK'
  BY <1>1, <1>3 DEF ClientTypeOK
<1>5. \A q \in requests' : IsActive(q)' => q = p
  BY <1>1, <1>2 DEF IsActive
<1>6. OpeningAlone'
  BY <1>5 DEF OpeningAlone, Opens
<1>7. DisclosureIsWanted'
  BY DEF DisclosureIsWanted
<1> QED
  BY <1>4, <1>6, <1>7 DEF ScreenInv

\* Without a session nothing is active.
LEMMA SessionEnds ==
    ASSUME ScreenInv, session' = NoSession, nextGen' = nextGen, evidenceGen' \in Nat,
           calls' \in Nat, head' \in [Assessments -> Nat],
           ViewSound(view'), view'.evidence # "DISCLOSURE_READY", requests' \subseteq requests
    PROVE  ScreenInv'
<1>1. session' \in Sessions /\ session'.gen = 0
  BY DEF NoSession, Sessions, Named
<1>2. ClientTypeOK'
  BY <1>1 DEF ScreenInv, ClientTypeOK
<1>3. OpeningAlone'
  BY <1>1 DEF OpeningAlone, Opens, IsActive
<1>4. DisclosureIsWanted'
  BY DEF DisclosureIsWanted
<1> QED
  BY <1>2, <1>3, <1>4 DEF ScreenInv

\* What becomes of the session when it goes on, and of the operations it waits for.
SessionKept ==
    /\ session' \in Sessions /\ session'.gen = session.gen
    /\ session'.mon \in {session.mon, session.mon + 1}
    /\ nextGen' = nextGen /\ evidenceGen' \in Nat

LEMMA LiveGoesOn ==
    ASSUME session'.gen = session.gen, NEW gone, NEW more,
           requests' \subseteq (requests \ gone) \cup more
    PROVE  Live' \subseteq (Live \ gone) \cup more
  BY DEF Live, IsActive

LEMMA LiveIsNumbered ==
    ASSUME ClientInv
    PROVE  /\ RevisionInv(Live, view, session.mon, head[Fresh])
           /\ Numbered(Live, view, session.mon) /\ head[Fresh] \in Nat
<1>1. session.mon \in Nat /\ view.rev \in Nat /\ head[Fresh] \in Nat
  BY ClientsAssumption DEF ClientInv, ScreenInv, ClientTypeOK, Sessions, ViewSound, Views
<1>2. ASSUME NEW q \in Live
      PROVE  q.tok \in Nat /\ q.was.rev \in Nat
  BY DEF Live, ClientInv, ScreenInv, ClientTypeOK, RequestSound, Requests, Views
<1> QED
  BY <1>1, <1>2 DEF ClientInv, Numbered

\* The screen is painted anew while at most one operation joins, of what it shows.
LEMMA JoiningIsStep ==
    ASSUME ClientInv, ScreenInv', session'.gen = session.gen,
           session'.mon \in {session.mon, session.mon + 1}, head' = head,
           NEW p, Joins(p, view), requests' \subseteq requests \cup {p}, Repaints(view')
    PROVE  ClientStep
<1>1. /\ RevisionInv(Live, view, session.mon, head[Fresh]) /\ Numbered(Live, view, session.mon)
  BY LiveIsNumbered
<1>2. Live' \subseteq Live \cup {p}
  BY DEF Live, IsActive
<1>3. head'[Fresh] = 0 => head[Fresh] = 0
  OBVIOUS
<1>4. view' = view \/ SameRevision(Live, view, view')
  BY DEF Repaints
<1>5. view'.kind = "READY" /\ Busy(view') => Busy(view) \/ session'.mon = session.mon + 1
  BY DEF Repaints
<1>6. RevisionInv(Live', view', session'.mon, head'[Fresh])
  BY <1>1, <1>2, <1>3, <1>4, <1>5, SameRevisionKeeps
<1>7. Advances
  BY <1>1, <1>4 DEF Advances, SameRevision, Numbered
<1> QED
  BY <1>6, <1>7 DEF ClientStep, ClientInv

\* Or while none does.
LEMMA RepaintIsStep ==
    ASSUME ClientInv, ScreenInv', session'.gen = session.gen,
           session'.mon \in {session.mon, session.mon + 1}, head'[Fresh] = 0 => head[Fresh] = 0,
           Live' \subseteq Live, Repaints(view')
    PROVE  ClientStep
<1>1. /\ RevisionInv(Live, view, session.mon, head[Fresh]) /\ Numbered(Live, view, session.mon)
  BY LiveIsNumbered
<1>2. view' = view \/ SameRevision(Live, view, view')
  BY DEF Repaints
<1>3. view'.kind = "READY" /\ Busy(view') => Busy(view) \/ session'.mon = session.mon + 1
  BY DEF Repaints
<1>4. PICK p : Joins(p, view)
  <2>1. Joins([op |-> "DIGEST"], view)
    BY DEF Joins, Loads, Monitors, Shows, ReadyOps
  <2> QED
    BY <2>1
<1>5. Live' \subseteq Live \cup {p}
  OBVIOUS
<1>6. RevisionInv(Live', view', session'.mon, head'[Fresh])
  BY <1>1, <1>2, <1>3, <1>4, <1>5, SameRevisionKeeps
<1>7. Advances
  BY <1>1, <1>2 DEF Advances, SameRevision, Numbered
<1> QED
  BY <1>6, <1>7 DEF ClientStep, ClientInv

\* One operation takes the place of another.
LEMMA ReplacementIsStep ==
    ASSUME ClientInv, ScreenInv', session'.gen = session.gen, session'.mon = session.mon,
           head'[Fresh] = 0 => head[Fresh] = 0,
           NEW q \in requests, IsActive(q), NEW p, Alike(p, q),
           requests' \subseteq (requests \ {q}) \cup {p},
           view' = view \/ view'.kind \notin {"READY", "SELECTION_READY"}
    PROVE  ClientStep
<1>1. /\ RevisionInv(Live, view, session.mon, head[Fresh]) /\ Numbered(Live, view, session.mon)
  BY LiveIsNumbered
<1>2. Live' \subseteq (Live \ {q}) \cup {p} /\ q \in Live
  BY LiveGoesOn DEF Live
<1>3. RevisionInv(Live', view', session'.mon, head'[Fresh])
  BY <1>1, <1>2, ReplacementKeeps
<1>4. Advances
  BY <1>1 DEF Advances, Numbered
<1> QED
  BY <1>3, <1>4 DEF ClientStep, ClientInv

\* A session begins or ends, and waits for one answer or for none.
LEMMA BeginningIsStep ==
    ASSUME ScreenInv', view'.kind \notin {"READY", "SELECTION_READY"}, session'.mon \in Nat,
           NEW p, p.op \in {"LIST", "LOAD", "CONTEXT"}, Live' \subseteq {p},
           p.op = "LOAD" => p.asm \in Assessments,
           p.op # "LIST" /\ head'[Fresh] = 0 => p.asm # Fresh
    PROVE  ClientStep
<1>1. RevisionInv(Live', view', session'.mon, head'[Fresh])
  BY BeginningKeeps
<1>2. Advances
  BY DEF Advances
<1> QED
  BY <1>1, <1>2 DEF ClientStep, ClientInv

\* Operations that load, list or monitor, which change what the session is about.
Turns == {"CONTEXT", "LIST", "MORE", "LOAD", "POLL", "READ"}

LEMMA CallKeepsScreen ==
    ASSUME ClientInv, SessionKept,
           NEW op \in Ops, op \notin {"CONTEXT", "LIST"},
           NEW a \in Named, NEW tok \in Nat, NEW shown,
           OpSound(op, a, view), ViewSound(shown), shown.evidence # "DISCLOSURE_READY",
           view.kind \notin Opening \/ (shown.kind = "BUNDLE_READY" /\ op \in BundleOps),
           Call(op, a, tok, shown)
    PROVE  ScreenInv'
<1> DEFINE p == Request(op, a, view, tok, session'.gen, calls + 1)
<1>1. /\ calls' = calls + 1 /\ view' = shown /\ head' = head
      /\ requests' = requests \cup {p}
  BY DEF Call
<1>2. /\ calls \in Nat /\ head \in [Assessments -> Nat] /\ ViewSound(view)
      /\ session.gen \in Nat /\ session.gen <= nextGen
      /\ session' \in Sessions /\ session'.gen = session.gen
      /\ nextGen' = nextGen /\ evidenceGen' \in Nat
  BY DEF ClientInv, ScreenInv, ClientTypeOK, Sessions, SessionKept
<1>3. RequestSound(p) /\ p.op = op /\ p.gen = session.gen
  <2>1. Asks(p, op, a, view, tok, session.gen)
    BY <1>2, RequestsAreSound
  <2> QED
    BY <2>1 DEF Asks
<1> HIDE DEF p
<1>4. DisclosureKept
  BY <1>1 DEF DisclosureKept
<1>5. \A q \in requests' \ requests : RequestSound(q) /\ q.gen <= nextGen /\ ~Opens(q)
  BY <1>1, <1>2, <1>3 DEF Opens
<1>6. ASSUME NEW c \in requests, Opens(c), IsActive(c)
      PROVE  /\ view'.kind \in Opening
             /\ \A q \in requests' \ requests : q.op \in BundleOps
  <2>1. view.kind \in Opening
    BY <1>6 DEF ClientInv, ScreenInv, OpeningAlone
  <2> QED
    BY <1>1, <1>3, <2>1 DEF Opening
<1> QED
  BY <1>1, <1>2, <1>4, <1>5, <1>6, SessionGoesOn DEF ClientInv

\* An operation called in a session that goes on.
LEMMA CallKeepsInv ==
    ASSUME ClientInv, SessionKept, NEW op \in Ops \ Turns, NEW a \in Named, NEW tok \in Nat,
           NEW shown, OpSound(op, a, view), ViewSound(shown), shown.evidence # "DISCLOSURE_READY",
           view.kind \notin Opening \/ (shown.kind = "BUNDLE_READY" /\ op \in BundleOps),
           op = "START" => a = Fresh, op \in ReadyOps => view.kind = "READY" /\ a = view.asm,
           Repaints(shown), Call(op, a, tok, shown)
    PROVE  ClientStep
<1> DEFINE p == Request(op, a, view, tok, session'.gen, calls + 1)
<1>1. /\ view' = shown /\ head' = head /\ requests' = requests \cup {p}
  BY DEF Call
<1>2. op \in Ops /\ op \notin {"CONTEXT", "LIST"}
  BY DEF Turns
<1>3. ScreenInv'
  BY <1>2, CallKeepsScreen
<1>4. Joins(p, view)
  BY DEF Joins, Loads, Shows, Monitors, Turns, Request
<1> HIDE DEF p
<1>5. session'.gen = session.gen /\ session'.mon \in {session.mon, session.mon + 1}
  BY DEF SessionKept
<1>6. Repaints(view')
  BY <1>1
<1> QED
  BY <1>1, <1>3, <1>4, <1>5, <1>6, JoiningIsStep

\* An operation that asks nothing, in a session that goes on.
LEMMA ActKeepsInv ==
    ASSUME ClientInv, SessionKept, NEW shown, ViewSound(shown),
           shown.evidence # "DISCLOSURE_READY", view.kind \notin Opening, Repaints(shown),
           Act(shown)
    PROVE  ClientStep
<1>1. /\ calls' \in Nat /\ view' = shown /\ head' = head /\ requests' = requests
      /\ head \in [Assessments -> Nat]
  BY DEF Act, ClientInv, ScreenInv, ClientTypeOK
<1>2. /\ session' \in Sessions /\ session'.gen = session.gen
      /\ session'.mon \in {session.mon, session.mon + 1}
      /\ nextGen' = nextGen /\ evidenceGen' \in Nat
  BY DEF SessionKept
<1>3. DisclosureKept
  BY <1>1 DEF DisclosureKept
<1>4. \A c \in requests : ~(Opens(c) /\ IsActive(c))
  BY DEF ClientInv, ScreenInv, OpeningAlone
<1>5. ScreenInv'
  BY <1>1, <1>2, <1>3, <1>4, SessionGoesOn DEF ClientInv
<1>6. Live' \subseteq Live
  BY <1>1, <1>2 DEF Live, IsActive
<1>7. Repaints(view')
  BY <1>1
<1> QED
  BY <1>1, <1>2, <1>5, <1>6, <1>7, RepaintIsStep

\* An answer, in a session that goes on.
LEMMA AnswerKeepsScreen ==
    ASSUME ClientInv, SessionKept, NEW q \in requests, ~Opens(q), NEW more, NEW shown,
           ViewSound(shown),
           shown.evidence = "DISCLOSURE_READY" =>
             shown = view /\ session' = session /\ evidenceGen' = evidenceGen,
           \A p \in more : RequestSound(p) /\ p.gen <= nextGen /\ ~Opens(p),
           q.op \in BundleOps =>
             /\ shown = view \/ shown.kind = "BUNDLE_READY"
             /\ \A p \in more : p.op \in BundleOps,
           Answered(q, more, shown)
    PROVE  ScreenInv'
<1>1. /\ StillWanted(q) /\ requests' = (requests \ {q}) \cup more
      /\ view' = shown /\ calls' = calls /\ head' = head
  BY DEF Answered
<1>2. /\ calls \in Nat /\ head \in [Assessments -> Nat]
      /\ session' \in Sessions /\ session'.gen = session.gen
      /\ nextGen' = nextGen /\ evidenceGen' \in Nat
  BY DEF ClientInv, ScreenInv, ClientTypeOK, SessionKept
<1>3. DisclosureKept
  BY <1>1 DEF DisclosureKept
<1>4. ASSUME NEW c \in requests, Opens(c), IsActive(c)
      PROVE  /\ view'.kind \in Opening
             /\ \A p \in requests' \ requests : p.op \in BundleOps
  <2>1. view.kind \in Opening /\ (IsActive(q) => q = c \/ q.op \in BundleOps)
    BY <1>4 DEF ClientInv, ScreenInv, OpeningAlone
  <2>2. q.op = "DIGEST" \/ IsActive(q)
    BY <1>1 DEF StillWanted
  <2>3. q.op \in BundleOps
    BY <1>4, <2>1, <2>2 DEF BundleOps
  <2> QED
    BY <1>1, <2>1, <2>3 DEF Opening
<1> QED
  BY <1>1, <1>2, <1>3, <1>4, SessionGoesOn DEF ClientInv

-----------------------------------------------------------------------------
(* The user's operations.                                                  *)

LEMMA UnchangedIsKept ==
    ASSUME ClientInv, UNCHANGED <<session, counters>>
    PROVE  SessionKept
  BY DEF SessionKept, counters, ClientInv, ScreenInv, ClientTypeOK

LEMMA LeaveIsKept ==
    ASSUME ClientInv, NEW a \in Named, Leave(a)
    PROVE  SessionKept /\ session'.mon = session.mon + 1
<1>1. /\ session \in [gen : Nat, asm : Named, mon : Nat, timer : Nat]
      /\ evidenceGen \in Nat /\ session.mon + 1 \in Nat
  BY DEF ClientInv, ScreenInv, ClientTypeOK, Sessions
<1>2. session' = [session EXCEPT !.mon = session.mon + 1, !.timer = 0, !.asm = a]
  BY DEF Leave
<1>3. session' = [gen |-> session.gen, asm |-> a, mon |-> session.mon + 1, timer |-> 0]
  BY <1>1, <1>2
<1>4. session' \in Sessions /\ session'.gen = session.gen /\ session'.mon = session.mon + 1
  BY <1>1, <1>3 DEF Sessions
<1> QED
  BY <1>1, <1>4 DEF Leave, SessionKept

LEMMA LeaveEvidenceIsKept ==
    ASSUME ClientInv, LeaveEvidence
    PROVE  SessionKept
<1>1. session \in Sessions /\ evidenceGen \in Nat
  BY DEF ClientInv, ScreenInv, ClientTypeOK
<1>2. session' = [session EXCEPT !.timer = 0]
  BY DEF LeaveEvidence
<1>3. session' \in Sessions /\ session'.gen = session.gen /\ session'.mon = session.mon
  BY <1>1, <1>2 DEF Sessions
<1> QED
  BY <1>1, <1>3 DEF LeaveEvidence, SessionKept

\* What may be painted: a page of its own, and the Assessment that is shown.
LEMMA PagesRepaint ==
    ASSUME NEW shown, shown.kind \notin {"READY", "SELECTION_READY"}
    PROVE  Repaints(shown)
  BY DEF Repaints, SameRevision

LEMMA ShownRepaints ==
    ASSUME NEW shown, view.kind = "READY", shown.kind = "READY",
           shown.asm = view.asm, shown.rev = view.rev,
           Busy(shown) => Busy(view) \/ session'.mon = session.mon + 1
    PROVE  Repaints(shown)
  BY DEF Repaints, SameRevision

\* The selector, the pages and the start wizard.
LEMMA PageCallsKeepInv ==
    ASSUME ClientInv,
           \/ LoadMoreAssessments \/ \E a \in Assessments : SelectAssessment(a)
           \/ /\ view.kind \in {"SELECTION_READY", "SELECTION_LOADING_MORE"}
              /\ OpenRepositories \/ OpenRuntimeHealth
           \/ RefreshRuntimeHealth \/ SelectRepository
           \/ RequestStartPreflight \/ ConfirmStartAssessment
    PROVE  ClientStep
<1> USE UnchangedIsKept, LeaveIsKept DEF Opening
<1>1. ViewSound(view) /\ session \in Sessions
  BY DEF ClientInv, ScreenInv, ClientTypeOK
<1>2. CASE LoadMoreAssessments
  <2> DEFINE shown == [view EXCEPT !.kind = "SELECTION_LOADING_MORE"]
             p == Request("MORE", None, view, 0, session'.gen, calls + 1)
  <2>1. /\ SessionKept /\ session' = session /\ view.kind = "SELECTION_READY"
        /\ Call("MORE", None, 0, shown)
    BY <1>2 DEF LoadMoreAssessments
  <2>2. view.evidence = "NOT_LOADED" /\ view \in Views
    BY <1>1, <2>1 DEF ViewSound
  <2>3. shown \in Views /\ shown.kind = "SELECTION_LOADING_MORE" /\ shown.evidence = "NOT_LOADED"
    BY <2>2 DEF Views, Kinds
  <2>4. requests' = requests \cup {p} /\ view' = shown /\ head' = head
    BY <2>1 DEF Call
  <2>5. p.op = "MORE" /\ p.was = view
    BY DEF Request
  <2> HIDE DEF shown, p
  <2>6. ViewSound(shown)
    BY <2>3 DEF ViewSound
  <2>7. OpSound("MORE", None, view) /\ "MORE" \in Ops /\ None \in Named
    BY DEF OpSound, PageOps, ReadyOps, BundleOps, Ops, Named
  <2>8. ScreenInv'
    BY <2>1, <2>3, <2>6, <2>7, CallKeepsScreen
  <2>9. Live' \subseteq Live \cup {p}
    BY <2>1, <2>4 DEF Live, IsActive
  <2>10. RevisionInv(Live', view', session'.mon, head'[Fresh])
    BY <2>1, <2>3, <2>4, <2>5, <2>9, LiveIsNumbered, MoreAskedKeeps
  <2> QED
    BY <2>1, <2>8, <2>10 DEF ClientStep, ClientInv, Advances
<1>3. ASSUME NEW a \in Assessments, SelectAssessment(a)
      PROVE  ClientStep
  <2> DEFINE p == Request("LOAD", a, view, 0, session'.gen, calls + 1)
  <2>1. /\ session' = [session EXCEPT !.asm = a] /\ UNCHANGED counters
        /\ view.kind = "SELECTION_READY" /\ a \in view.listed
        /\ Call("LOAD", a, 0, Page("LOADING", a))
    BY <1>3 DEF SelectAssessment
  <2>2. session' \in Sessions /\ session'.gen = session.gen /\ session'.mon = session.mon
    BY <1>1, <2>1 DEF Sessions, Named
  <2>3. SessionKept
    BY <2>1, <2>2 DEF SessionKept, counters, ClientInv, ScreenInv, ClientTypeOK
  <2>4. /\ ViewSound(Page("LOADING", a)) /\ Page("LOADING", a).evidence = "NOT_LOADED"
        /\ Page("LOADING", a).kind = "LOADING"
    BY PagesAreViews DEF Kinds, Named
  <2>5. OpSound("LOAD", a, view) /\ "LOAD" \in Ops /\ a \in Named
    BY DEF OpSound, PageOps, ReadyOps, BundleOps, Ops, Named
  <2>6. ScreenInv'
    BY <2>1, <2>3, <2>4, <2>5, CallKeepsScreen
  <2>7. requests' = requests \cup {p} /\ view'.kind = "LOADING" /\ head' = head
    BY <2>1, <2>4 DEF Call
  <2>8. p.op = "LOAD" /\ p.asm = a
    BY DEF Request
  <2> HIDE DEF p
  <2>9. Live' \subseteq Live \cup {p}
    BY <2>2, <2>7 DEF Live, IsActive
  <2>10. RevisionInv(Live', view', session'.mon, head'[Fresh])
    BY <2>1, <2>2, <2>7, <2>8, <2>9, LiveIsNumbered, SelectionKeeps
  <2> QED
    BY <2>1, <2>6, <2>10 DEF ClientStep, ClientInv, Advances
<1>4. ASSUME NEW op \in {"REPOSITORIES", "HEALTH", "CATALOG", "PREFLIGHT"},
             NEW kind \in Kinds \ {"READY", "BUNDLE_READY", "SELECTION_READY"},
             SessionKept, view.kind \notin Opening, Call(op, None, 0, Page(kind, None))
      PROVE  ClientStep
  <2>1. /\ ViewSound(Page(kind, None)) /\ Page(kind, None).evidence = "NOT_LOADED"
        /\ Page(kind, None).kind = kind
    BY <1>4, PagesAreViews DEF Kinds, Named
  <2>2. Repaints(Page(kind, None))
    BY <1>4, <2>1, PagesRepaint
  <2>3. /\ OpSound(op, None, view) /\ op \in Ops \ Turns /\ op \notin ReadyOps /\ op # "START"
        /\ None \in Named
    BY <1>4 DEF OpSound, PageOps, ReadyOps, BundleOps, Ops, Turns, Named
  <2> QED
    BY <1>4, <2>1, <2>2, <2>3, CallKeepsInv
<1>5. ASSUME view.kind \in {"SELECTION_READY", "SELECTION_LOADING_MORE"}, OpenRepositories
      PROVE  ClientStep
  <2>1. Leave(None) /\ Call("REPOSITORIES", None, 0, Page("REPOSITORIES_LOADING", None))
    BY <1>5 DEF OpenRepositories
  <2> QED
    BY <1>4, <1>5, <2>1 DEF Kinds, Named
<1>6. ASSUME view.kind \in {"SELECTION_READY", "SELECTION_LOADING_MORE"}, OpenRuntimeHealth
      PROVE  ClientStep
  <2>1. Leave(None) /\ Call("HEALTH", None, 0, Page("HEALTH_LOADING", None))
    BY <1>6 DEF OpenRuntimeHealth
  <2> QED
    BY <1>4, <1>6, <2>1 DEF Kinds, Named
<1>7. CASE RefreshRuntimeHealth
  <2>1. /\ UNCHANGED <<session, counters>> /\ view.kind = "HEALTH_READY"
        /\ Call("HEALTH", None, 0, Page("HEALTH_LOADING", None))
    BY <1>7 DEF RefreshRuntimeHealth
  <2> QED
    BY <1>4, <2>1 DEF Kinds
<1>8. CASE SelectRepository
  <2>1. /\ UNCHANGED <<session, counters>> /\ view.kind = "REPOSITORIES_READY"
        /\ Call("CATALOG", None, 0, Page("CATALOG_LOADING", None))
    BY <1>8 DEF SelectRepository
  <2> QED
    BY <1>4, <2>1 DEF Kinds
<1>9. CASE RequestStartPreflight
  <2>1. /\ UNCHANGED <<session, counters>> /\ view.kind = "WIZARD_READY"
        /\ Call("PREFLIGHT", None, 0, Page("PREFLIGHT_LOADING", None))
    BY <1>9 DEF RequestStartPreflight
  <2> QED
    BY <1>4, <2>1 DEF Kinds
<1>10. CASE ConfirmStartAssessment
  <2>1. /\ UNCHANGED <<session, counters>> /\ view.kind = "WIZARD_READY"
        /\ Call("START", Fresh, 0, Wizard("SUBMITTING"))
    BY <1>10 DEF ConfirmStartAssessment
  <2>2. /\ ViewSound(Wizard("SUBMITTING")) /\ Wizard("SUBMITTING").evidence = "NOT_LOADED"
        /\ Wizard("SUBMITTING").kind = "WIZARD_READY"
    BY WizardsAreViews DEF WizardStates
  <2>3. Repaints(Wizard("SUBMITTING"))
    BY <2>2, PagesRepaint
  <2>4. /\ OpSound("START", Fresh, view) /\ Fresh \in Named
        /\ "START" \in Ops \ Turns /\ "START" \notin ReadyOps
    BY ClientsAssumption DEF OpSound, PageOps, ReadyOps, BundleOps, Ops, Turns, Named
  <2> QED
    BY <2>1, <2>2, <2>3, <2>4, CallKeepsInv
<1> QED
  BY <1>2, <1>3, <1>5, <1>6, <1>7, <1>8, <1>9, <1>10

\* Findings, evidence and commands of the Assessment that is shown.
LEMMA ReadyCallsKeepInv ==
    ASSUME ClientInv,
           \/ OpenFindings \/ LoadMoreFindings \/ SelectFinding \/ SelectEvidence
           \/ DiscloseEvidence \/ RecordRiskDecision \/ OpenBundle
           \/ \E command \in {"RESUME", "CANCEL"} : SubmitAssessmentCommand(command)
    PROVE  ClientStep
<1> USE UnchangedIsKept, LeaveIsKept
<1>1. /\ ViewSound(view) /\ session \in Sessions /\ session.asm \in Named /\ session.mon \in Nat
      /\ evidenceGen \in Nat
  BY DEF ClientInv, ScreenInv, ClientTypeOK, Sessions
<1>2. view.kind = "READY"
  BY DEF OpenFindings, LoadMoreFindings, SelectFinding, SelectEvidence, DiscloseEvidence,
         RecordRiskDecision, OpenBundle, SubmitAssessmentCommand
<1>3. view.asm \in Assessments /\ view.asm \in Named
  BY <1>1, <1>2 DEF ViewSound, Named
<1>4. ASSUME NEW op \in ReadyOps \ {"POLL", "READ"}, NEW tok \in Nat, NEW shown,
             ViewSound(shown), shown.evidence # "DISCLOSURE_READY", Repaints(shown), SessionKept,
             op \in {"METADATA", "DISCLOSURE"} => IsTerminal(view.asm, view.rev),
             Call(op, view.asm, tok, shown)
      PROVE  ClientStep
  <2>1. OpSound(op, view.asm, view) /\ op \in Ops \ Turns /\ op # "START"
    BY <1>2, <1>3, <1>4 DEF OpSound, ReadyOps, BundleOps, Ops, Turns
  <2>2. view.kind \notin Opening
    BY <1>2 DEF Opening
  <2> QED
    BY <1>2, <1>3, <1>4, <2>1, <2>2, CallKeepsInv
<1>5. ASSUME NEW op \in {"FINDINGS", "MORE_FINDINGS", "FINDING"}, NEW state \in FindingStates,
             SessionKept, Call(op, view.asm, 0, Findings(view, state))
      PROVE  ClientStep
  <2> DEFINE shown == Findings(view, state)
  <2>1. /\ ViewSound(shown) /\ shown.evidence = "NOT_LOADED" /\ shown.kind = "READY"
        /\ shown.asm = view.asm /\ shown.rev = view.rev /\ ~Busy(shown)
    <3>1. SameRecord(shown, view, "NOT_LOADED")
      BY <1>1, <1>2, <1>5, FindingsAreViews
    <3> QED
      BY <3>1 DEF SameRecord
  <2>2. Call(op, view.asm, 0, shown)
    BY <1>5
  <2> HIDE DEF shown
  <2>3. Repaints(shown)
    BY <1>2, <2>1, ShownRepaints
  <2> QED
    BY <1>4, <1>5, <2>1, <2>2, <2>3 DEF ReadyOps
<1>6. CASE OpenFindings
  <2>1. /\ UNCHANGED <<session, counters>>
        /\ Call("FINDINGS", view.asm, 0, Findings(view, "LIST_LOADING"))
    BY <1>6 DEF OpenFindings
  <2> QED
    BY <1>5, <2>1 DEF FindingStates
<1>7. CASE LoadMoreFindings
  <2>1. /\ UNCHANGED <<session, counters>>
        /\ Call("MORE_FINDINGS", view.asm, 0, Findings(view, "LIST_LOADING_MORE"))
    BY <1>7 DEF LoadMoreFindings
  <2> QED
    BY <1>5, <2>1 DEF FindingStates
<1>8. CASE SelectFinding
  <2>1. /\ UNCHANGED <<session, counters>>
        /\ Call("FINDING", view.asm, 0, Findings(view, "DETAIL_LOADING"))
    BY <1>8 DEF SelectFinding
  <2> QED
    BY <1>5, <2>1 DEF FindingStates
<1>9. ASSUME NEW op \in {"METADATA", "DISCLOSURE"}, IsTerminal(view.asm, view.rev),
             NEW state \in EvidenceStates \ {"DISCLOSURE_READY"}, NEW tok \in Nat,
             SessionKept, Call(op, view.asm, tok, Evidence(view, state))
      PROVE  ClientStep
  <2> DEFINE shown == Evidence(view, state)
  <2>1. /\ ViewSound(shown) /\ shown.evidence = state /\ shown.kind = "READY"
        /\ shown.asm = view.asm /\ shown.rev = view.rev /\ ~Busy(shown)
    <3>1. state \in EvidenceStates
      BY <1>9
    <3>2. SameRecord(shown, view, state)
      BY <1>1, <1>2, <1>9, <3>1, EvidenceIsView
    <3> QED
      BY <3>2 DEF SameRecord
  <2>2. Call(op, view.asm, tok, shown)
    BY <1>9
  <2> HIDE DEF shown
  <2>3. Repaints(shown)
    BY <1>2, <2>1, ShownRepaints
  <2> QED
    BY <1>4, <1>9, <2>1, <2>2, <2>3 DEF ReadyOps
<1>10. CASE SelectEvidence
  <2>1. /\ IsTerminal(view.asm, view.rev) /\ evidenceGen' = evidenceGen + 1
        /\ UNCHANGED <<session, nextGen>>
        /\ Call("METADATA", view.asm, evidenceGen', Evidence(view, "METADATA_LOADING"))
    BY <1>10 DEF SelectEvidence
  <2>2. evidenceGen' \in Nat
    BY <1>1, <2>1
  <2>3. SessionKept
    BY <1>1, <2>1, <2>2 DEF SessionKept
  <2> QED
    BY <1>9, <2>1, <2>2, <2>3 DEF EvidenceStates
<1>11. CASE DiscloseEvidence
  <2>1. /\ view.evidence # "NOT_LOADED" /\ evidenceGen' = evidenceGen + 1 /\ nextGen' = nextGen
        /\ session' = [session EXCEPT !.timer = 0]
        /\ Call("DISCLOSURE", view.asm, evidenceGen', Evidence(view, "DISCLOSURE_LOADING"))
    BY <1>11 DEF DiscloseEvidence
  <2>2. IsTerminal(view.asm, view.rev)
    BY <1>1, <2>1 DEF ViewSound
  <2>3. session' \in Sessions /\ session'.gen = session.gen /\ session'.mon = session.mon
    BY <1>1, <2>1 DEF Sessions
  <2>4. evidenceGen' \in Nat
    BY <1>1, <2>1
  <2>5. SessionKept
    BY <2>1, <2>3, <2>4 DEF SessionKept
  <2> QED
    BY <1>9, <2>1, <2>2, <2>4, <2>5 DEF EvidenceStates
<1>12. CASE RecordRiskDecision
  <2> DEFINE shown == [Evidence(view, "NOT_LOADED") EXCEPT !.deciding = TRUE]
  <2>1. Leave(session.asm) /\ Call("DECIDE", view.asm, 0, shown)
    BY <1>12 DEF RecordRiskDecision
  <2>2. /\ ViewSound(shown) /\ shown.evidence = "NOT_LOADED"
        /\ shown.kind = "READY" /\ shown.asm = view.asm /\ shown.rev = view.rev
    BY <1>1, <1>2, DecidingIsView
  <2> HIDE DEF shown
  <2>3. Repaints(shown)
    BY <1>1, <1>2, <2>1, <2>2, ShownRepaints
  <2> QED
    BY <1>1, <1>4, <2>1, <2>2, <2>3 DEF ReadyOps
<1>13. CASE OpenBundle
  <2>1. Leave(session.asm) /\ Call("MANIFEST", view.asm, 0, Page("BUNDLE_LOADING", view.asm))
    BY <1>13 DEF OpenBundle
  <2>2. /\ ViewSound(Page("BUNDLE_LOADING", view.asm))
        /\ Page("BUNDLE_LOADING", view.asm).evidence = "NOT_LOADED"
        /\ Page("BUNDLE_LOADING", view.asm).kind = "BUNDLE_LOADING"
    BY <1>3, PagesAreViews DEF Kinds
  <2>3. Repaints(Page("BUNDLE_LOADING", view.asm))
    BY <2>2, PagesRepaint
  <2> QED
    BY <1>1, <1>4, <2>1, <2>2, <2>3 DEF ReadyOps
<1>14. ASSUME NEW command \in {"RESUME", "CANCEL"}, SubmitAssessmentCommand(command)
       PROVE  ClientStep
  <2> DEFINE shown == [view EXCEPT !.command = command]
  <2>1. /\ ~IsTerminal(view.asm, view.rev) /\ session' = [session EXCEPT !.mon = session.mon + 1]
        /\ UNCHANGED counters /\ Call(command, view.asm, 0, shown)
    BY <1>14 DEF SubmitAssessmentCommand
  <2>2. view.evidence = "NOT_LOADED" /\ view \in Views
    BY <1>1, <2>1 DEF ViewSound
  <2>3. /\ shown \in Views /\ shown.kind = view.kind /\ shown.asm = view.asm
        /\ shown.rev = view.rev /\ shown.evidence = "NOT_LOADED"
    BY <2>2 DEF Views
  <2> HIDE DEF shown
  <2>4. ViewSound(shown)
    BY <1>3, <2>3 DEF ViewSound
  <2>5. /\ session' \in Sessions /\ session'.gen = session.gen
        /\ session'.mon = session.mon + 1
    BY <1>1, <2>1 DEF Sessions
  <2>6. SessionKept
    BY <1>1, <2>1, <2>5 DEF SessionKept, counters
  <2>7. Repaints(shown)
    BY <1>2, <2>3, <2>5, ShownRepaints
  <2>8. command \in ReadyOps \ {"POLL", "READ", "METADATA", "DISCLOSURE"}
    BY <1>14 DEF ReadyOps
  <2> QED
    BY <1>4, <2>1, <2>3, <2>4, <2>6, <2>7, <2>8
<1> QED
  BY <1>6, <1>7, <1>8, <1>10, <1>11, <1>12, <1>13, <1>14

\* The Bundle and its exports.
LEMMA BundleCallsKeepInv ==
    ASSUME ClientInv, PreviewExport \/ RequestExport \/ RefreshExportStatus \/ DownloadExport
    PROVE  ClientStep
<1>1. ViewSound(view) /\ view.kind = "BUNDLE_READY" /\ UNCHANGED <<session, counters>>
  BY DEF ClientInv, ScreenInv, ClientTypeOK, PreviewExport, RequestExport, RefreshExportStatus,
         DownloadExport
<1>2. SessionKept
  BY <1>1, UnchangedIsKept
<1>3. /\ view \in Views /\ view.asm \in Assessments /\ view.asm \in Named
      /\ view.evidence = "NOT_LOADED"
  BY <1>1 DEF ViewSound, Named
<1>4. \A op \in BundleOps :
        /\ OpSound(op, view.asm, view)
        /\ op \in Ops \ Turns /\ op \notin ReadyOps /\ op # "START"
  BY <1>1, <1>3 DEF OpSound, ReadyOps, BundleOps, PageOps, Ops, Turns
<1>5. ASSUME NEW op \in BundleOps, NEW shown, ViewSound(shown), shown.kind = "BUNDLE_READY",
             shown.evidence = "NOT_LOADED", Call(op, view.asm, 0, shown)
      PROVE  ClientStep
  <2>1. Repaints(shown)
    BY <1>5, PagesRepaint
  <2> QED
    BY <1>2, <1>3, <1>4, <1>5, <2>1, CallKeepsInv
<1>6. CASE PreviewExport
  <2> DEFINE shown == Exporting(view, "PREVIEW_LOADING")
  <2>1. Call("PREVIEW", view.asm, 0, shown)
    BY <1>6 DEF PreviewExport
  <2>2. ViewSound(shown) /\ shown.kind = "BUNDLE_READY" /\ shown.evidence = "NOT_LOADED"
    BY <1>1, BundlesAreViews DEF ExportStates
  <2> HIDE DEF shown
  <2> QED
    BY <1>5, <2>1, <2>2 DEF BundleOps
<1>7. CASE RequestExport
  <2> DEFINE shown == Exporting(view, "REQUESTING")
  <2>1. Call("REQUEST", view.asm, 0, shown)
    BY <1>7 DEF RequestExport
  <2>2. ViewSound(shown) /\ shown.kind = "BUNDLE_READY" /\ shown.evidence = "NOT_LOADED"
    BY <1>1, BundlesAreViews DEF ExportStates
  <2> HIDE DEF shown
  <2> QED
    BY <1>5, <2>1, <2>2 DEF BundleOps
<1>8. CASE RefreshExportStatus
  <2>1. Call("REFRESH_STATUS", view.asm, 0, view)
    BY <1>8 DEF RefreshExportStatus
  <2> QED
    BY <1>1, <1>3, <1>5, <2>1 DEF BundleOps
<1>9. CASE DownloadExport
  <2> DEFINE shown == [view EXCEPT !.download = "DOWNLOADING", !.stamp = calls + 1]
  <2>1. Call("DOWNLOAD", view.asm, 0, shown)
    BY <1>9 DEF DownloadExport
  <2>2. calls + 1 \in Nat
    BY DEF ClientInv, ScreenInv, ClientTypeOK
  <2>3. /\ shown \in Views /\ shown.kind = "BUNDLE_READY" /\ shown.asm = view.asm
        /\ shown.evidence = "NOT_LOADED"
    BY <1>1, <1>3, <2>2 DEF Views
  <2> HIDE DEF shown
  <2>4. ViewSound(shown)
    BY <1>3, <2>3 DEF ViewSound
  <2> QED
    BY <1>5, <2>1, <2>3, <2>4 DEF BundleOps
<1> QED
  BY <1>6, <1>7, <1>8, <1>9

\* What asks the Service nothing.
LEMMA ActsKeepInv ==
    ASSUME ClientInv,
           \/ CancelStartPreflight \/ HideEvidenceDisclosure
           \/ BackToFindingDetail \/ BackToFindingList
    PROVE  ClientStep
<1> USE DEF Opening
<1>1. ViewSound(view)
  BY DEF ClientInv, ScreenInv, ClientTypeOK
<1>2. CASE CancelStartPreflight
  <2>1. SessionKept
    BY <1>2, UnchangedIsKept DEF CancelStartPreflight
  <2>2. view.kind = "WIZARD_READY" /\ Act(Wizard("EMPTY"))
    BY <1>2 DEF CancelStartPreflight
  <2>3. /\ ViewSound(Wizard("EMPTY")) /\ Wizard("EMPTY").evidence = "NOT_LOADED"
        /\ Wizard("EMPTY").kind = "WIZARD_READY"
    BY WizardsAreViews DEF WizardStates
  <2>4. Repaints(Wizard("EMPTY"))
    BY <2>3, PagesRepaint
  <2> QED
    BY <2>1, <2>2, <2>3, <2>4, ActKeepsInv
<1>3. CASE HideEvidenceDisclosure
  <2> DEFINE shown == Evidence(view, "METADATA_READY")
  <2>1. SessionKept
    BY <1>3, LeaveEvidenceIsKept DEF HideEvidenceDisclosure
  <2>2. view.kind = "READY" /\ view.evidence # "NOT_LOADED" /\ Act(shown)
    BY <1>3 DEF HideEvidenceDisclosure
  <2>3. /\ ViewSound(shown) /\ shown.evidence = "METADATA_READY" /\ shown.kind = "READY"
        /\ shown.asm = view.asm /\ shown.rev = view.rev /\ ~Busy(shown)
    <3>1. "METADATA_READY" \in EvidenceStates /\ IsTerminal(view.asm, view.rev)
      BY <1>1, <2>2 DEF EvidenceStates, ViewSound
    <3>2. SameRecord(shown, view, "METADATA_READY")
      BY <1>1, <2>2, <3>1, EvidenceIsView
    <3> QED
      BY <3>2 DEF SameRecord
  <2> HIDE DEF shown
  <2>4. Repaints(shown)
    BY <2>2, <2>3, ShownRepaints
  <2> QED
    BY <2>1, <2>2, <2>3, <2>4, ActKeepsInv
<1>4. CASE BackToFindingDetail
  <2> DEFINE shown == [Evidence(view, "NOT_LOADED") EXCEPT !.deciding = view.deciding]
  <2>1. SessionKept
    BY <1>4, LeaveEvidenceIsKept DEF BackToFindingDetail
  <2>2. view.kind = "READY" /\ Act(shown)
    BY <1>4 DEF BackToFindingDetail
  <2>3. view.deciding \in BOOLEAN
    BY <1>1 DEF ViewSound, Views
  <2>4. /\ ViewSound(shown) /\ shown.evidence = "NOT_LOADED" /\ shown.kind = "READY"
        /\ shown.asm = view.asm /\ shown.rev = view.rev
        /\ shown.command = "IDLE" /\ shown.deciding = view.deciding
    BY <1>1, <2>2, <2>3, DecidingIsView
  <2> HIDE DEF shown
  <2>5. Busy(shown) => Busy(view)
    BY <2>4 DEF Busy
  <2>6. Repaints(shown)
    BY <2>2, <2>4, <2>5, ShownRepaints
  <2> QED
    BY <2>1, <2>2, <2>4, <2>6, ActKeepsInv
<1>5. CASE BackToFindingList
  <2> DEFINE shown == Findings(view, "LIST_READY")
  <2>1. SessionKept
    BY <1>5, LeaveEvidenceIsKept DEF BackToFindingList
  <2>2. view.kind = "READY" /\ Act(shown)
    BY <1>5 DEF BackToFindingList
  <2>3. /\ ViewSound(shown) /\ shown.evidence = "NOT_LOADED" /\ shown.kind = "READY"
        /\ shown.asm = view.asm /\ shown.rev = view.rev /\ ~Busy(shown)
    <3>1. "LIST_READY" \in FindingStates
      BY DEF FindingStates
    <3>2. SameRecord(shown, view, "NOT_LOADED")
      BY <1>1, <2>2, <3>1, FindingsAreViews
    <3> QED
      BY <3>2 DEF SameRecord
  <2> HIDE DEF shown
  <2>4. Repaints(shown)
    BY <2>2, <2>3, ShownRepaints
  <2> QED
    BY <2>1, <2>2, <2>3, <2>4, ActKeepsInv
<1> QED
  BY <1>2, <1>3, <1>4, <1>5
-----------------------------------------------------------------------------
(* Sessions that begin and end.                                            *)

\* Nothing of before is active in a new session.
LEMMA OnlyTheNewIsLive ==
    ASSUME ClientInv, session'.gen = nextGen + 1, NEW p, requests' \subseteq requests \cup {p}
    PROVE  Live' \subseteq {p}
<1>1. \A q \in requests : q.gen \in Nat /\ q.gen <= nextGen
  BY DEF ClientInv, ScreenInv, ClientTypeOK, RequestSound, Requests
<1>2. nextGen \in Nat
  BY DEF ClientInv, ScreenInv, ClientTypeOK
<1>3. \A q \in requests' : IsActive(q)' => q = p
  BY <1>1, <1>2 DEF IsActive
<1> QED
  BY <1>3 DEF Live, IsActive

LEMMA OpeningsKeepInv ==
    ASSUME ClientInv,
           \/ OpenAssessmentSelection
           \/ \E a \in Assessments : OpenAssessment(a)
           \/ \E a \in Assessments \cup {None} : OpenUnderLocalContext(a)
    PROVE  ClientStep
<1>1. /\ ViewSound(view) /\ nextGen \in Nat /\ calls \in Nat /\ evidenceGen \in Nat
      /\ head \in [Assessments -> Nat]
  BY DEF ClientInv, ScreenInv, ClientTypeOK
<1>2. ASSUME NEW op \in {"LIST", "LOAD", "CONTEXT"}, NEW a \in Named,
             op = "LOAD" => a \in Assessments, op # "LIST" /\ head[Fresh] = 0 => a # Fresh,
             NEW kind \in {"SELECTION_LOADING", "LOADING"},
             NewSession(a), evidenceGen' = evidenceGen, Call(op, a, 0, Page(kind, a))
      PROVE  ClientStep
  <2> DEFINE p == Request(op, a, view, 0, session'.gen, calls + 1)
  <2>1. /\ calls' = calls + 1 /\ head' = head /\ requests' = requests \cup {p}
        /\ view' = Page(kind, a)
    BY <1>2 DEF Call
  <2>2. session'.gen = nextGen + 1 /\ session'.mon = 0
    BY <1>2 DEF NewSession, NoSession
  <2>3. OpSound(op, a, view) /\ op \in Ops
    BY <1>2 DEF OpSound, PageOps, ReadyOps, BundleOps, Ops
  <2>4. RequestSound(p) /\ p.gen = nextGen + 1 /\ p.op = op /\ p.asm = a
    <3>1. session'.gen \in Nat
      BY <1>1, <2>2
    <3>2. Asks(p, op, a, view, 0, session'.gen)
      BY <1>1, <2>3, <3>1, RequestsAreSound
    <3> QED
      BY <2>2, <3>2 DEF Asks
  <2>5. ViewSound(view') /\ view'.kind = kind /\ view'.evidence = "NOT_LOADED"
    BY <2>1, PagesAreViews DEF Kinds
  <2> HIDE DEF p
  <2>6. ScreenInv'
    BY <1>1, <1>2, <2>1, <2>4, <2>5, SessionBegins DEF ClientInv, Opening
  <2>7. Live' \subseteq {p}
    BY <2>1, <2>2, OnlyTheNewIsLive
  <2> QED
    BY <1>2, <2>1, <2>2, <2>4, <2>5, <2>6, <2>7, BeginningIsStep
<1>3. CASE OpenAssessmentSelection
  BY <1>2, <1>3 DEF OpenAssessmentSelection, Named
<1>4. ASSUME NEW a \in Assessments, OpenAssessment(a)
      PROVE  ClientStep
  BY <1>2, <1>4 DEF OpenAssessment, Named
<1>5. ASSUME NEW a \in Assessments \cup {None}, OpenUnderLocalContext(a)
      PROVE  ClientStep
  <2> DEFINE kind == IF a = None THEN "SELECTION_LOADING" ELSE "LOADING"
  <2>1. /\ NewSession(a) /\ evidenceGen' = evidenceGen
        /\ Call("CONTEXT", a, 0, Page(kind, a))
    BY <1>5 DEF OpenUnderLocalContext
  <2>2. kind \in {"SELECTION_LOADING", "LOADING"}
    OBVIOUS
  <2>3. head[Fresh] = 0 => a # Fresh
    BY <1>5, ClientsAssumption DEF OpenUnderLocalContext
  <2> HIDE DEF kind
  <2> QED
    BY <1>2, <2>1, <2>2, <2>3 DEF Named
<1> QED
  BY <1>3, <1>4, <1>5

\* A session that ends.
LEMMA EndingIsStep ==
    ASSUME ClientInv, ScreenInv', session' = NoSession,
           view'.kind \notin {"READY", "SELECTION_READY"}
    PROVE  ClientStep
<1> DEFINE p == [op |-> "LIST"]
<1>1. session'.gen = 0 /\ session'.mon = 0
  BY DEF NoSession
<1>2. Live' \subseteq {p}
  BY <1>1 DEF Live, IsActive
<1>3. p.op = "LIST"
  OBVIOUS
<1> HIDE DEF p
<1> QED
  BY <1>1, <1>2, <1>3, BeginningIsStep

LEMMA FailureKeepsInv ==
    ASSUME ClientInv, Fail, calls' \in Nat, head' = head, requests' \subseteq requests
    PROVE  ClientStep
<1>1. session.asm \in Named /\ evidenceGen \in Nat /\ head \in [Assessments -> Nat]
  BY DEF ClientInv, ScreenInv, ClientTypeOK, Sessions
<1>2. /\ session' = NoSession /\ view' = Page("FAILED", session.asm)
      /\ nextGen' = nextGen /\ evidenceGen' = evidenceGen
  BY DEF Fail, counters
<1>3. ViewSound(view') /\ view'.evidence = "NOT_LOADED" /\ view'.kind = "FAILED"
  BY <1>1, <1>2, PagesAreViews DEF Kinds
<1>4. ScreenInv'
  BY <1>1, <1>2, <1>3, SessionEnds DEF ClientInv
<1> QED
  BY <1>2, <1>3, <1>4, EndingIsStep

LEMMA ClosingsKeepInv ==
    ASSUME ClientInv, CloseAssessment \/ SelectUnlisted \/ Mismatch
    PROVE  ClientStep
<1>1. calls \in Nat /\ evidenceGen \in Nat /\ head \in [Assessments -> Nat]
  BY DEF ClientInv, ScreenInv, ClientTypeOK
<1>2. ASSUME NEW shown, ViewSound(shown), shown.evidence = "NOT_LOADED",
             shown.kind \in {"CLOSED", "FAILED"}, Act(shown),
             session' = NoSession, UNCHANGED counters
      PROVE  ClientStep
  <2>1. view' = shown
    BY <1>2 DEF Act
  <2>2. ScreenInv'
    BY <1>1, <1>2, SessionEnds DEF Act, counters, ClientInv
  <2> QED
    BY <1>2, <2>1, <2>2, EndingIsStep
<1>3. CASE CloseAssessment
  BY <1>2, <1>3, ClosedIsView DEF CloseAssessment
<1>4. CASE SelectUnlisted
  <2>1. /\ ViewSound(Page("FAILED", None)) /\ Page("FAILED", None).evidence = "NOT_LOADED"
        /\ Page("FAILED", None).kind = "FAILED"
    BY PagesAreViews DEF Kinds, Named
  <2> QED
    BY <1>2, <1>4, <2>1 DEF SelectUnlisted
<1>5. CASE Mismatch
  BY <1>1, <1>5, FailureKeepsInv DEF Mismatch
<1> QED
  BY <1>3, <1>4, <1>5

\* Everything the screen offers.
LEMMA UserKeepsInv ==
    ASSUME ClientInv, UserOffers
    PROVE  ClientStep
<1> USE DEF UserOffers
<1>1. CASE LauncherOffers
  BY <1>1, OpeningsKeepInv DEF LauncherOffers
<1>2. CASE DialogOffers \/ LateClick
  BY <1>2, ClosingsKeepInv DEF DialogOffers, LateClick
<1>3. CASE SelectionOffers
  BY <1>3, PageCallsKeepInv DEF SelectionOffers
<1>4. CASE HealthOffers \/ RepositoriesOffer \/ WizardOffers \/ PreflightOffers
  BY <1>4, PageCallsKeepInv, OpeningsKeepInv, ActsKeepInv
     DEF HealthOffers, RepositoriesOffer, WizardOffers, PreflightOffers
<1>5. CASE BundleOffers
  <2>1. ASSUME view.kind = "BUNDLE_READY", OpenAssessment(view.asm)
        PROVE  ClientStep
    <3>1. view.asm \in Assessments
      BY <2>1 DEF ClientInv, ScreenInv, ClientTypeOK, ViewSound
    <3> QED
      BY <2>1, <3>1, OpeningsKeepInv
  <2> QED
    BY <1>5, <2>1, BundleCallsKeepInv DEF BundleOffers
<1>6. CASE DetailOffers \/ RecoveryOffers
  BY <1>6, ReadyCallsKeepInv, OpeningsKeepInv DEF DetailOffers, RecoveryOffers
<1>7. CASE FindingsOffer \/ FindingOffers \/ EvidenceOffers \/ DisclosureOffers
  BY <1>7, ReadyCallsKeepInv, ActsKeepInv
     DEF FindingsOffer, FindingOffers, EvidenceOffers, DisclosureOffers
<1> QED
  BY <1>1, <1>2, <1>3, <1>4, <1>5, <1>6, <1>7
-----------------------------------------------------------------------------
(* The answers.                                                            *)

LEMMA RequestFacts ==
    ASSUME ClientInv, NEW q \in requests
    PROVE  /\ RequestSound(q) /\ ViewSound(q.was) /\ q.was \in Views
           /\ OpSound(q.op, q.asm, q.was) /\ q.op \in Ops /\ q.asm \in Named
           /\ q.op \notin PageOps => q.asm \in Assessments
           /\ q.tok \in Nat /\ q.id \in Nat /\ q.gen \in Nat /\ q.gen <= nextGen
           /\ q.was.rev \in Nat
  BY DEF ClientInv, ScreenInv, ClientTypeOK, RequestSound, Requests, ViewSound, OpSound, Views

\* What still waits for an answer is of the session, but for a digest.
LEMMA WantedIsActive ==
    ASSUME NEW q, StillWanted(q), q.op # "DIGEST"
    PROVE  IsActive(q)
  BY DEF StillWanted

\* Findings, evidence and commands are answered on the revision that they are about.
LEMMA RevisionIsShown ==
    ASSUME NEW q, StillWanted(q),
           q.op \in {"FINDINGS", "MORE_FINDINGS", "FINDING", "METADATA", "DISCLOSURE",
                     "RESUME_READ", "CANCEL_READ", "DECIDE_READ"}
    PROVE  /\ IsActive(q) /\ view.kind = "READY" /\ view.rev = q.was.rev
           /\ q.op \in {"METADATA", "DISCLOSURE"} => evidenceGen = q.tok
           /\ q.op \in {"RESUME_READ", "CANCEL_READ", "DECIDE_READ"} => Busy(view)
<1>1. IsActive(q)
  BY WantedIsActive
<1>2. FindingsAreAwaited(q) \/ EvidenceIsAwaited(q) \/ CommandIsAwaited(q)
  BY DEF StillWanted, Unfenced, PageIsAwaited, PageAwaited, StartIsAwaited, MonitorIsCurrent,
         ExportIsAwaited
<1>3. view.kind = "READY" /\ view.rev = q.was.rev
  BY <1>2 DEF FindingsAreAwaited, EvidenceIsAwaited, CommandIsAwaited, ShowsRevision
<1>4. q.op \in {"METADATA", "DISCLOSURE"} => evidenceGen = q.tok
  BY <1>2 DEF FindingsAreAwaited, FindingsAwaited, EvidenceIsAwaited, CommandIsAwaited, CommandOf
<1>5. ASSUME q.op \in {"RESUME_READ", "CANCEL_READ", "DECIDE_READ"}
      PROVE  Busy(view)
  <2>1. CommandIsAwaited(q)
    BY <1>2, <1>5 DEF FindingsAreAwaited, FindingsAwaited, EvidenceIsAwaited, EvidenceAwaited
  <2> QED
    BY <1>5, <2>1 DEF CommandIsAwaited, CommandOf, Busy
<1> QED
  BY <1>1, <1>3, <1>4, <1>5

\* What such an operation shows has the revision on the screen.
LEMMA AnswerRepaints ==
    ASSUME ClientInv, NEW q \in requests, q.op \in ReadyOps, IsActive(q),
           view.kind = "READY", view.rev = q.was.rev,
           NEW shown, shown.kind = "READY", shown.asm = q.was.asm, shown.rev = q.was.rev,
           ~Busy(shown)
    PROVE  Repaints(shown)
<1>1. q \in Live /\ Shows(q)
  BY DEF Live, Shows
<1>2. q.was.asm = q.asm
  BY <1>1 DEF ClientInv, RevisionInv, NamesItsOwn
<1>3. SameRevision(Live, view, shown)
  BY <1>1, <1>2 DEF SameRevision
<1> QED
  BY <1>3 DEF Repaints

\* A revision that is read.
LEMMA ReadsAreNumbers ==
    ASSUME ClientInv, NEW q \in requests, NEW a \in Assessments, NEW r \in Reads(q, a)
    PROVE  r \in Nat
<1>1. q.since[a] \in Nat /\ head[a] \in Nat
  BY DEF ClientInv, ScreenInv, ClientTypeOK, RequestSound, Requests
<1> QED
  BY <1>1 DEF Reads

\* The first poll of a monitor.
LEMMA PollsAreSound ==
    ASSUME ClientInv, NEW a \in Assessments, NEW r \in Nat, NEW id \in Nat,
           session' \in Sessions, session'.gen = session.gen
    PROVE  \A p \in Poll(a, r, id) :
             /\ RequestSound(p) /\ p.gen <= nextGen /\ ~Opens(p)
             /\ IsPollOf(p, a, r, session'.mon)
<1> DEFINE p == Request("POLL", a, Ready(a, r), session'.mon, session'.gen, id)
<1>1. /\ ViewSound(Ready(a, r)) /\ Ready(a, r).kind = "READY"
      /\ Ready(a, r).asm = a /\ Ready(a, r).rev = r
  BY ReadyIsView
<1>2. /\ session'.mon \in Nat /\ session'.gen \in Nat /\ session'.gen <= nextGen
      /\ head \in [Assessments -> Nat]
  BY DEF Sessions, ClientInv, ScreenInv, ClientTypeOK
<1>3. OpSound("POLL", a, Ready(a, r)) /\ "POLL" \in Ops /\ a \in Named
  BY <1>1 DEF OpSound, PageOps, BundleOps, ReadyOps, Ops, Named
<1>4. /\ RequestSound(p) /\ p.gen = session'.gen /\ p.op = "POLL" /\ p.asm = a
      /\ p.was = Ready(a, r) /\ p.tok = session'.mon
  <2>1. ViewSound(Ready(a, r)) /\ session'.mon \in Nat /\ session'.gen \in Nat
    BY <1>1, <1>2
  <2> QED
    <3>1. Asks(p, "POLL", a, Ready(a, r), session'.mon, session'.gen)
      BY <1>2, <1>3, <2>1, RequestsAreSound
    <3> QED
      BY <3>1 DEF Asks
<1>5. Poll(a, r, id) = IF IsTerminal(a, r) THEN {} ELSE {p}
  BY DEF Poll
<1> HIDE DEF p
<1>6. ~Opens(p) /\ IsPollOf(p, a, r, session'.mon) /\ p.gen <= nextGen
  BY <1>1, <1>2, <1>4 DEF Opens, IsPollOf
<1> QED
  BY <1>4, <1>5, <1>6

\* An Assessment that was read, and the monitor of the revision.
LEMMA ReadsKeepScreen ==
    ASSUME ClientInv, NEW q \in requests, q.op \in ReadyOps \cup {"LOAD"},
           NEW r \in Reads(q, q.asm), NEW mon \in {session.mon, session.mon + 1},
           session' = [session EXCEPT !.mon = mon], UNCHANGED counters,
           Answered(q, Poll(q.asm, r, q.id), Ready(q.asm, r))
    PROVE  /\ ScreenInv' /\ session'.gen = session.gen /\ session'.mon = mon /\ head' = head
           /\ q \in Live /\ StillWanted(q) /\ r \in Nat /\ Reread(view', q.asm, r)
           /\ Live' \subseteq (Live \ {q}) \cup Poll(q.asm, r, q.id)
           /\ \A p \in Poll(q.asm, r, q.id) : IsPollOf(p, q.asm, r, mon)
           /\ \/ Poll(q.asm, r, q.id) = {} /\ IsTerminal(q.asm, r)
              \/ ~IsTerminal(q.asm, r) /\ \E p : Poll(q.asm, r, q.id) = {p}
<1>1. q.asm \in Assessments /\ q.id \in Nat
  BY RequestFacts DEF ReadyOps, PageOps
<1>2. r \in Nat
  BY <1>1, ReadsAreNumbers
<1>3. session' \in Sessions /\ session'.gen = session.gen /\ session'.mon = mon
  BY DEF ClientInv, ScreenInv, ClientTypeOK, Sessions
<1>4. SessionKept
  BY <1>3 DEF SessionKept, counters, ClientInv, ScreenInv, ClientTypeOK
<1>5. /\ ViewSound(Ready(q.asm, r)) /\ Ready(q.asm, r).evidence = "NOT_LOADED"
      /\ Reread(Ready(q.asm, r), q.asm, r)
  BY <1>1, <1>2, ReadyIsView DEF Reread
<1>6. \A p \in Poll(q.asm, r, q.id) :
        /\ RequestSound(p) /\ p.gen <= nextGen /\ ~Opens(p)
        /\ IsPollOf(p, q.asm, r, mon)
  BY <1>1, <1>2, <1>3, PollsAreSound
<1>7. ~Opens(q) /\ q.op \notin BundleOps /\ q.op # "DIGEST"
  BY DEF ReadyOps, BundleOps, Opens
<1>8. ScreenInv'
  BY <1>4, <1>5, <1>6, <1>7, AnswerKeepsScreen
<1>9. /\ StillWanted(q) /\ requests' = (requests \ {q}) \cup Poll(q.asm, r, q.id)
      /\ view' = Ready(q.asm, r) /\ head' = head
  BY DEF Answered
<1>10. q \in Live
  BY <1>7, <1>9, WantedIsActive DEF Live
<1>11. Live' \subseteq (Live \ {q}) \cup Poll(q.asm, r, q.id)
  BY <1>3, <1>9, LiveGoesOn
<1>12. \/ Poll(q.asm, r, q.id) = {} /\ IsTerminal(q.asm, r)
       \/ ~IsTerminal(q.asm, r) /\ \E p : Poll(q.asm, r, q.id) = {p}
  BY DEF Poll
<1> QED
  BY <1>2, <1>3, <1>5, <1>6, <1>8, <1>9, <1>10, <1>11, <1>12

\* A load: its Assessment was not on the screen.
LEMMA LoadKeepsInv ==
    ASSUME ClientInv, NEW q \in requests, LoadAnswers(q)
    PROVE  ClientStep
<1>1. PICK r \in Reads(q, q.asm) :
        /\ session' = [session EXCEPT !.mon = IF IsTerminal(q.asm, r) THEN session.mon
                                              ELSE session.mon + 1]
        /\ Answered(q, Poll(q.asm, r, q.id), Ready(q.asm, r))
  BY DEF LoadAnswers
<1> DEFINE mon == IF IsTerminal(q.asm, r) THEN session.mon ELSE session.mon + 1
           polls == Poll(q.asm, r, q.id)
<1>2. q.op = "LOAD" /\ UNCHANGED counters
  BY DEF LoadAnswers
<1>3. /\ ScreenInv' /\ session'.gen = session.gen /\ session'.mon = mon /\ head' = head
      /\ q \in Live /\ r \in Nat /\ Reread(view', q.asm, r)
      /\ Live' \subseteq (Live \ {q}) \cup polls
      /\ \A p \in polls : IsPollOf(p, q.asm, r, mon)
      /\ \/ polls = {} /\ IsTerminal(q.asm, r)
         \/ ~IsTerminal(q.asm, r) /\ \E p : polls = {p}
  BY <1>1, <1>2, ReadsKeepScreen
<1>4. \/ polls = {} /\ mon = session.mon
      \/ mon = session.mon + 1 /\ \E p : polls = {p} /\ IsPollOf(p, q.asm, r, mon)
  BY <1>3
<1>5. Loads(q)
  BY <1>2 DEF Loads
<1> HIDE DEF mon, polls
<1>6. RevisionInv(Live', view', session'.mon, head'[Fresh])
  <2>1. RevisionInv(Live, view, session.mon, head[Fresh]) /\ Numbered(Live, view, session.mon)
    BY LiveIsNumbered
  <2>2. RevisionInv(Live', view', mon, head[Fresh])
    BY <1>3, <1>4, <1>5, <2>1, LoadKeeps, Zenon
  <2> QED
    BY <1>3, <2>2
<1>7. view.kind = "READY" => view.asm # view'.asm
  BY <1>3, <1>5 DEF ClientInv, RevisionInv, LoadsAreApart, Reread
<1> QED
  BY <1>3, <1>6, <1>7 DEF ClientStep, ClientInv, Advances

\* A read of the monitor: it is the current one, and the screen is not ahead of it.
LEMMA ReadKeepsInv ==
    ASSUME ClientInv, NEW q \in requests, ReadAnswers(q)
    PROVE  ClientStep
<1>1. PICK r \in Reads(q, q.asm) :
        /\ r > q.was.rev /\ UNCHANGED <<session, counters>>
        /\ Answered(q, Poll(q.asm, r, q.id), Ready(q.asm, r))
  BY DEF ReadAnswers
<1>2. q.op = "READ"
  BY DEF ReadAnswers
<1> DEFINE polls == Poll(q.asm, r, q.id)
<1>3. session' = [session EXCEPT !.mon = session.mon]
  BY <1>1 DEF ClientInv, ScreenInv, ClientTypeOK, Sessions
<1>4. /\ ScreenInv' /\ session'.mon = session.mon /\ head' = head
      /\ q \in Live /\ StillWanted(q) /\ r \in Nat /\ Reread(view', q.asm, r)
      /\ Live' \subseteq (Live \ {q}) \cup polls
      /\ \A p \in polls : IsPollOf(p, q.asm, r, session.mon)
      /\ \/ polls = {} /\ IsTerminal(q.asm, r)
         \/ ~IsTerminal(q.asm, r) /\ \E p : polls = {p}
  BY <1>1, <1>2, <1>3, ReadsKeepScreen DEF ReadyOps
<1>5. \A p1, p2 \in polls : p1 = p2
  BY <1>4
<1> HIDE DEF polls
<1>6. Current(q, session.mon) /\ Shows(q)
  <2>1. q.tok = session.mon
    BY <1>2, <1>4
       DEF StillWanted, Unfenced, PageIsAwaited, PageAwaited, StartIsAwaited, FindingsAreAwaited,
           FindingsAwaited, EvidenceIsAwaited, EvidenceAwaited, CommandIsAwaited, CommandOf,
           MonitorIsCurrent, ExportIsAwaited
  <2> QED
    BY <1>2, <2>1 DEF Current, Monitors, Shows, ReadyOps
<1>7. /\ RevisionInv(Live, view, session.mon, head[Fresh]) /\ Numbered(Live, view, session.mon)
  BY LiveIsNumbered
<1>8. \A x \in Live : x # q => ~Current(x, session.mon)
  BY <1>4, <1>6, <1>7 DEF RevisionInv, OneMonitor
<1>9. ASSUME Single(Live, view, head[Fresh])
      PROVE  \A x \in Live : Shows(x) => x.was.rev <= r
  <2>1. \A x \in Live : Shows(x) => x.was.rev <= q.was.rev
    BY <1>4, <1>6, <1>7, <1>9 DEF RevisionInv, NewestShown
  <2> QED
    BY <1>1, <1>4, <1>7, <2>1 DEF Numbered
<1>10. RevisionInv(Live', view', session'.mon, head'[Fresh])
  BY <1>4, <1>5, <1>6, <1>7, <1>8, <1>9, RereadKeeps
<1>11. view.kind = "READY" /\ view.asm = view'.asm => view'.rev >= view.rev
  <2>1. view.kind = "READY" /\ view.asm = q.asm => view.rev <= q.was.rev
    BY <1>4, <1>6, <1>7 DEF RevisionInv, MonitorLeads
  <2> QED
    BY <1>1, <1>4, <1>7, <2>1 DEF Reread, Numbered
<1> QED
  BY <1>4, <1>10, <1>11 DEF ClientStep, ClientInv, Advances

\* The read after a command: no monitor is current, and the screen shows the command's revision.
LEMMA RefreshKeepsInv ==
    ASSUME ClientInv, NEW q \in requests, CommandRefreshes(q)
    PROVE  ClientStep
<1>1. PICK r \in Reads(q, q.asm) :
        /\ r >= q.was.rev
        /\ session' = [session EXCEPT !.mon = IF IsTerminal(q.asm, r) THEN session.mon
                                              ELSE session.mon + 1]
        /\ Answered(q, Poll(q.asm, r, q.id), Ready(q.asm, r))
  BY DEF CommandRefreshes
<1> DEFINE mon == IF IsTerminal(q.asm, r) THEN session.mon ELSE session.mon + 1
           polls == Poll(q.asm, r, q.id)
<1>2. q.op \in {"RESUME_READ", "CANCEL_READ", "DECIDE_READ"} /\ UNCHANGED counters
  BY DEF CommandRefreshes, CommandOf, ReadAfter
<1>3. mon \in {session.mon, session.mon + 1}
  OBVIOUS
<1>4. /\ ScreenInv' /\ session'.mon = mon /\ head' = head
      /\ q \in Live /\ StillWanted(q) /\ r \in Nat /\ Reread(view', q.asm, r)
      /\ Live' \subseteq (Live \ {q}) \cup polls
      /\ \A p \in polls : IsPollOf(p, q.asm, r, mon)
      /\ \/ polls = {} /\ IsTerminal(q.asm, r)
         \/ ~IsTerminal(q.asm, r) /\ \E p : polls = {p}
  BY <1>1, <1>2, <1>3, ReadsKeepScreen DEF ReadyOps
<1>5. /\ \A p1, p2 \in polls : p1 = p2
      /\ \A p \in polls : IsPollOf(p, q.asm, r, session'.mon)
      /\ session'.mon \in {session.mon, session.mon + 1}
  BY <1>3, <1>4
<1> HIDE DEF mon, polls
<1>6. Shows(q)
  BY <1>2 DEF Shows, ReadyOps
<1>7. view.kind = "READY" /\ view.rev = q.was.rev /\ Busy(view)
  BY <1>2, <1>4, RevisionIsShown
<1>8. /\ RevisionInv(Live, view, session.mon, head[Fresh]) /\ Numbered(Live, view, session.mon)
  BY LiveIsNumbered
<1>9. \A x \in Live : x # q => ~Current(x, session'.mon)
  <2> SUFFICES ASSUME NEW x \in Live PROVE ~Current(x, session'.mon)
    OBVIOUS
  <2>1. ~Current(x, session.mon)
    BY <1>7, <1>8 DEF RevisionInv, OneMonitor
  <2>2. Monitors(x) => x.tok <= session.mon /\ x.tok \in Nat /\ session.mon \in Nat
    BY <1>8 DEF RevisionInv, OneMonitor, Numbered
  <2> QED
    BY <1>5, <2>1, <2>2 DEF Current
<1>10. ASSUME Single(Live, view, head[Fresh])
       PROVE  \A x \in Live : Shows(x) => x.was.rev <= r
  <2>1. \A x \in Live : Shows(x) => x.was.rev <= view.rev
    BY <1>7, <1>8, <1>10 DEF RevisionInv, NewestShown
  <2> QED
    BY <1>1, <1>4, <1>7, <1>8, <2>1 DEF Numbered
<1>11. RevisionInv(Live', view', session'.mon, head'[Fresh])
  BY <1>4, <1>5, <1>6, <1>8, <1>9, <1>10, RereadKeeps
<1>12. view'.rev >= view.rev
  BY <1>1, <1>4, <1>7 DEF Reread
<1> QED
  BY <1>4, <1>11, <1>12 DEF ClientStep, ClientInv, Advances

\* The operation asks again, and what is shown stays.
LEMMA FollowKeepsInv ==
    ASSUME ClientInv, NEW q \in requests, NEW op \in Ops, OpSound(op, q.asm, q.was),
           q.op # "DIGEST",
           \/ {op, q.op} \subseteq {"POLL", "READ"}
           \/ {op, q.op} \subseteq ReadyOps \ {"POLL", "READ"}
           \/ {op, q.op} \subseteq BundleOps,
           Answered(q, {Follow(q, op, q.asm)}, view), UNCHANGED <<session, counters>>
    PROVE  ClientStep
<1> DEFINE p == Follow(q, op, q.asm)
<1>1. q.asm \in Named /\ q.gen <= nextGen
  BY RequestFacts
<1>2. /\ RequestSound(p) /\ p.op = op /\ p.gen = q.gen /\ p.asm = q.asm /\ p.was = q.was
      /\ p.tok = q.tok
  <2>1. Asks(p, op, q.asm, q.was, q.tok, q.gen)
    BY <1>1, FollowsAreSound DEF ClientInv, ScreenInv
  <2> QED
    BY <2>1 DEF Asks
<1>3. /\ Answered(q, {p}, view) /\ StillWanted(q) /\ requests' = (requests \ {q}) \cup {p}
      /\ view' = view /\ head' = head
  BY DEF Answered
<1> HIDE DEF p
<1>4. ViewSound(view) /\ SessionKept /\ session' = session /\ evidenceGen' = evidenceGen
  BY UnchangedIsKept DEF ClientInv, ScreenInv, ClientTypeOK, counters
<1>5. ~Opens(q) /\ ~Opens(p) /\ (q.op \in BundleOps => p.op \in BundleOps)
  BY <1>2 DEF Opens, ReadyOps, BundleOps
<1>6. \A x \in {p} : RequestSound(x) /\ x.gen <= nextGen /\ ~Opens(x)
  BY <1>1, <1>2, <1>5
<1>7. q.op \in BundleOps => \A x \in {p} : x.op \in BundleOps
  BY <1>5
<1>8. ScreenInv'
  BY <1>3, <1>4, <1>5, <1>6, <1>7, AnswerKeepsScreen
<1>9. Alike(p, q)
  BY <1>2 DEF Alike, Loads, Shows, Monitors, ReadyOps, BundleOps
<1>10. IsActive(q)
  BY <1>3, WantedIsActive
<1> QED
  BY <1>3, <1>4, <1>8, <1>9, <1>10, ReplacementIsStep

\* The operation ends, and what it found is shown.
LEMMA ResultKeepsInv ==
    ASSUME ClientInv, NEW q \in requests, ~Opens(q), NEW shown, ViewSound(shown),
           shown.evidence # "DISCLOSURE_READY",
           q.op \in BundleOps => shown.kind = "BUNDLE_READY",
           SessionKept, Repaints(shown), Answered(q, {}, shown)
    PROVE  ClientStep
<1>1. ScreenInv'
  BY AnswerKeepsScreen
<1>2. requests' = requests \ {q} /\ view' = shown /\ head' = head
  BY DEF Answered
<1>3. session'.gen = session.gen /\ session'.mon \in {session.mon, session.mon + 1}
  BY DEF SessionKept
<1>4. Live' \subseteq Live
  BY <1>2, <1>3 DEF Live, IsActive
<1>5. Repaints(view')
  BY <1>2
<1> QED
  BY <1>1, <1>2, <1>3, <1>4, <1>5, RepaintIsStep

\* Superseded and failing requests, and the local context.
LEMMA LossesKeepInv ==
    ASSUME ClientInv, NEW q \in requests,
           Superseded(q) \/ Failing(q) \/ ContextIssued(q) \/ ContextAbsent(q)
    PROVE  ClientStep
<1>1. /\ ViewSound(view) /\ session \in Sessions /\ nextGen \in Nat /\ calls \in Nat
      /\ evidenceGen \in Nat /\ head \in [Assessments -> Nat]
  BY DEF ClientInv, ScreenInv, ClientTypeOK
<1>2. CASE Superseded(q)
  <2>1. /\ UNCHANGED <<view, session, counters, calls, head>> /\ requests' = requests \ {q}
    BY <1>2 DEF Superseded
  <2>2. /\ view' = view /\ session' = session /\ nextGen' = nextGen /\ evidenceGen' = evidenceGen
        /\ calls' = calls /\ head' = head
    BY <2>1 DEF counters
  <2>3. requests' \ requests = {}
    BY <2>1
  <2>4. DisclosureKept
    BY <2>2 DEF DisclosureKept
  <2>5. \A c \in requests : Opens(c) /\ IsActive(c) => view.kind \in Opening
    BY DEF ClientInv, ScreenInv, OpeningAlone
  <2>6. ScreenInv'
    BY <1>1, <2>2, <2>3, <2>4, <2>5, SessionGoesOn DEF ClientInv
  <2>7. Live' \subseteq Live /\ Repaints(view')
    BY <2>1, <2>2 DEF Live, IsActive, Repaints
  <2> QED
    BY <2>2, <2>6, <2>7, RepaintIsStep
<1>3. CASE Failing(q)
  BY <1>1, <1>3, FailureKeepsInv DEF Failing
<1>4. CASE ContextIssued(q)
  <2> DEFINE op == IF q.asm = None THEN "LIST" ELSE "LOAD"
             kind == IF q.asm = None THEN "SELECTION_LOADING" ELSE "LOADING"
             p == Request(op, q.asm, CLOSED, 0, session'.gen, q.id)
  <2>1. /\ q.op = "CONTEXT" /\ NewSession(q.asm) /\ Answered(q, {p}, Page(kind, q.asm))
        /\ evidenceGen' = evidenceGen
    BY <1>4 DEF ContextIssued
  <2>2. /\ StillWanted(q) /\ requests' = (requests \ {q}) \cup {p}
        /\ view' = Page(kind, q.asm) /\ calls' = calls /\ head' = head
    BY <2>1 DEF Answered
  <2>3. IsActive(q)
    BY <2>1, <2>2 DEF StillWanted
  <2>4. q.asm \in Named /\ q.id \in Nat
    BY RequestFacts
  <2>5. kind \in {"SELECTION_LOADING", "LOADING"}
    OBVIOUS
  <2> HIDE DEF kind
  <2>6. ViewSound(view') /\ view'.evidence = "NOT_LOADED" /\ view'.kind \in Opening
    BY <2>2, <2>4, <2>5, PagesAreViews DEF Kinds, Opening
  <2>7. op \in Ops /\ op # "CONTEXT" /\ OpSound(op, q.asm, CLOSED)
    BY <2>4 DEF Ops, PageOps, ReadyOps, BundleOps, OpSound, Named
  <2>8. session'.gen = nextGen + 1 /\ session'.mon = 0
    BY <2>1 DEF NewSession, NoSession
  <2>9. op \in {"LIST", "LOAD"} /\ (op = "LOAD" => q.asm \in Assessments)
    BY <2>4 DEF Named
  <2> HIDE DEF op
  <2>10. RequestSound(p) /\ p.gen = nextGen + 1 /\ p.op = op /\ p.asm = q.asm
    <3>1. ViewSound(CLOSED) /\ 0 \in Nat /\ session'.gen \in Nat
      BY <1>1, <2>8, ClosedIsView
    <3>2. Asks(p, op, q.asm, CLOSED, 0, session'.gen)
      BY <1>1, <2>4, <2>7, <3>1, RequestsAreSound
    <3> QED
      BY <2>8, <3>2 DEF Asks
  <2> HIDE DEF p
  <2>11. requests' \subseteq requests \cup {p}
    BY <2>2
  <2>12. ScreenInv'
    BY <1>1, <2>1, <2>2, <2>4, <2>6, <2>10, <2>11, SessionBegins DEF ClientInv
  <2>13. Live' \subseteq {p}
    BY <2>8, <2>11, OnlyTheNewIsLive
  <2>14. head[Fresh] = 0 => q.asm # Fresh
    BY <2>1, <2>3 DEF ClientInv, RevisionInv, FreshExists, Live
  <2> QED
    BY <2>2, <2>6, <2>8, <2>9, <2>10, <2>12, <2>13, <2>14, BeginningIsStep DEF Opening
<1>5. CASE ContextAbsent(q)
  <2>1. /\ requests' = requests \ {q} /\ view' = CLOSED /\ calls' = calls /\ head' = head
        /\ session' = NoSession /\ UNCHANGED counters
    BY <1>5 DEF ContextAbsent, Answered
  <2>2. nextGen' = nextGen /\ evidenceGen' = evidenceGen /\ requests' \subseteq requests
    BY <2>1 DEF counters
  <2>3. ScreenInv'
    BY <1>1, <2>1, <2>2, ClosedIsView, SessionEnds DEF ClientInv
  <2> QED
    BY <2>1, <2>3, ClosedIsView, EndingIsStep
<1> QED
  BY <1>2, <1>3, <1>4, <1>5

\* The listing that opens a session, and its continuation.
LEMMA ListingsKeepInv ==
    ASSUME ClientInv, NEW q \in requests, ListingAnswers(q)
    PROVE  ClientStep
<1>1. PICK listed \in SUBSET {a \in Assessments : head[a] # 0} :
        /\ q.op = "MORE" => listed = q.was.listed
        /\ Answered(q, {}, Selection(listed))
  BY DEF ListingAnswers
<1>2. q.op \in {"LIST", "MORE"} /\ SessionKept /\ session' = session /\ evidenceGen' = evidenceGen
  BY UnchangedIsKept DEF ListingAnswers, counters
<1>3. /\ ViewSound(Selection(listed)) /\ Selection(listed).evidence = "NOT_LOADED"
      /\ Selection(listed).kind = "SELECTION_READY" /\ Selection(listed).listed = listed
  BY SelectionsAreViews
<1>4. /\ StillWanted(q) /\ requests' = requests \ {q} /\ view' = Selection(listed)
      /\ calls' = calls /\ head' = head
  BY <1>1 DEF Answered
<1>5. IsActive(q) /\ q \in Live
  BY <1>2, <1>4, WantedIsActive DEF Live
<1>6. Live' \subseteq Live \ {q}
  BY <1>2, <1>4 DEF Live, IsActive
<1>7. CASE q.op = "LIST"
  <2>1. \A x \in requests : IsActive(x) => x = q \/ x.op \in BundleOps
    BY <1>5, <1>7 DEF ClientInv, ScreenInv, OpeningAlone, Opens
  <2>2. \A c \in requests' : ~(Opens(c) /\ IsActive(c))
    BY <1>4, <2>1 DEF Opens, BundleOps
  <2>3. DisclosureKept
    BY <1>3, <1>4 DEF DisclosureKept
  <2>4. calls' \in Nat /\ head' \in [Assessments -> Nat] /\ requests' \ requests = {}
    BY <1>4 DEF ClientInv, ScreenInv, ClientTypeOK
  <2>5. ScreenInv'
    BY <1>2, <1>3, <1>4, <2>2, <2>3, <2>4, SessionGoesOn DEF ClientInv, SessionKept
  <2>6. \A x \in Live' : x.op \in BundleOps
    BY <1>6, <2>1 DEF Live
  <2>7. session'.mon \in Nat
    BY <1>2 DEF SessionKept, Sessions
  <2>8. head'[Fresh] = 0 => Fresh \notin view'.listed
    BY <1>3, <1>4
  <2>9. RevisionInv(Live', view', session'.mon, head'[Fresh])
    BY <1>3, <1>4, <2>6, <2>7, <2>8, ListingKeeps
  <2> QED
    BY <1>3, <1>4, <2>5, <2>9 DEF ClientStep, ClientInv, Advances
<1>8. CASE q.op = "MORE"
  <2>1. ~Opens(q) /\ q.op \notin BundleOps
    BY <1>8 DEF Opens, BundleOps
  <2>2. ScreenInv'
    BY <1>1, <1>2, <1>3, <2>1, AnswerKeepsScreen
  <2>3. view'.kind = "SELECTION_READY" /\ view'.listed = q.was.listed
    BY <1>1, <1>3, <1>4, <1>8
  <2>4. RevisionInv(Live', view', session.mon, head[Fresh])
    BY <1>5, <1>6, <1>8, <2>3, LiveIsNumbered, MoreAnsweredKeeps
  <2> QED
    BY <1>2, <1>4, <2>2, <2>3, <2>4 DEF ClientStep, ClientInv, Advances
<1> QED
  BY <1>2, <1>7, <1>8

\* Pages, and the receipt of a start.
LEMMA PageAnswersKeepInv ==
    ASSUME ClientInv, NEW q \in requests, PageAnswers(q) \/ StartAnswers(q)
    PROVE  ClientStep
<1>1. CASE PageAnswers(q)
  <2>1. q.op \in {"REPOSITORIES", "HEALTH", "CATALOG", "PREFLIGHT"}
    BY <1>1 DEF PageAnswers, PageLoaded
  <2>2. PICK loaded \in PageLoaded[q.op] : Answered(q, {}, loaded)
    BY <1>1 DEF PageAnswers
  <2>3. loaded \in {Page("REPOSITORIES_READY", None), Page("HEALTH_READY", None), Wizard("EMPTY"),
                    Wizard("ADMISSIBLE"), Wizard("INADMISSIBLE")}
    BY <2>1, <2>2 DEF PageLoaded
  <2>4. /\ ViewSound(loaded) /\ loaded.evidence = "NOT_LOADED"
        /\ loaded.kind \notin {"READY", "SELECTION_READY"}
    BY <2>3, PagesAreViews, WizardsAreViews DEF Kinds, Named, WizardStates
  <2>5. Repaints(loaded)
    BY <2>4, PagesRepaint
  <2>6. ~Opens(q) /\ q.op \notin BundleOps /\ SessionKept
    BY <1>1, <2>1, UnchangedIsKept DEF PageAnswers, BundleOps, Opens
  <2> QED
    BY <2>2, <2>4, <2>5, <2>6, ResultKeepsInv
<1>2. CASE StartAnswers(q)
  <2> DEFINE p == Follow(q, "LOAD", Fresh)
  <2>1. /\ q.op = "START" /\ q.answered = TRUE
        /\ session' = [session EXCEPT !.asm = Fresh] /\ UNCHANGED counters
        /\ Answered(q, {p}, Page("LOADING", Fresh))
    BY <1>2, RequestFacts DEF StartAnswers, RequestSound, Requests
  <2>2. Fresh \in Named /\ Fresh \in Assessments
    BY ClientsAssumption DEF Named
  <2>3. OpSound("LOAD", Fresh, q.was) /\ "LOAD" \in Ops
    BY <2>2 DEF OpSound, PageOps, ReadyOps, BundleOps, Ops
  <2>4. /\ RequestSound(p) /\ p.op = "LOAD" /\ p.gen = q.gen /\ q.gen <= nextGen
        /\ p.asm = Fresh /\ p.was = q.was /\ p.tok = q.tok
    <3>1. Asks(p, "LOAD", Fresh, q.was, q.tok, q.gen) /\ q.gen <= nextGen
      BY <2>2, <2>3, FollowsAreSound, RequestFacts DEF ClientInv, ScreenInv
    <3> QED
      BY <3>1 DEF Asks
  <2> HIDE DEF p
  <2>5. \A x \in {p} : RequestSound(x) /\ x.gen <= nextGen /\ ~Opens(x)
    BY <2>4 DEF Opens
  <2>6. /\ ViewSound(Page("LOADING", Fresh)) /\ Page("LOADING", Fresh).evidence = "NOT_LOADED"
        /\ Page("LOADING", Fresh).kind = "LOADING"
    BY <2>2, PagesAreViews DEF Kinds
  <2>7. session' \in Sessions /\ session'.gen = session.gen /\ session'.mon = session.mon
    BY <2>1, <2>2 DEF ClientInv, ScreenInv, ClientTypeOK, Sessions
  <2>8. SessionKept
    BY <2>1, <2>7 DEF SessionKept, counters, ClientInv, ScreenInv, ClientTypeOK
  <2>9. ~Opens(q) /\ q.op \notin BundleOps
    BY <2>1 DEF BundleOps, Opens
  <2>10. ScreenInv'
    BY <2>1, <2>5, <2>6, <2>8, <2>9, AnswerKeepsScreen
  <2>11. /\ StillWanted(q) /\ requests' = (requests \ {q}) \cup {p} /\ head' = head
         /\ view'.kind = "LOADING"
    BY <2>1, <2>6 DEF Answered
  <2>12. IsActive(q)
    BY <2>1, <2>11, WantedIsActive
  <2>13. q.asm = Fresh
    BY <2>1, <2>12 DEF ClientInv, RevisionInv, NamesItsOwn, Live
  <2>14. Alike(p, q)
    BY <2>1, <2>4, <2>13 DEF Alike, Loads, Shows, Monitors, ReadyOps
  <2> QED
    BY <2>7, <2>10, <2>11, <2>12, <2>14, ReplacementIsStep
<1> QED
  BY <1>1, <1>2

\* The monitor's polls, and the receipts of commands.
LEMMA MonitorAnswersKeepInv ==
    ASSUME ClientInv, NEW q \in requests, PollTimesOut(q) \/ PollAnswers(q) \/ CommandAnswers(q)
    PROVE  ClientStep
<1>1. /\ ViewSound(view) /\ session \in Sessions
      /\ evidenceGen \in Nat /\ head \in [Assessments -> Nat]
  BY DEF ClientInv, ScreenInv, ClientTypeOK
<1>2. CASE PollTimesOut(q)
  <2> DEFINE p == [q EXCEPT !.since = head]
  <2>1. /\ q.op = "POLL" /\ Answered(q, {p}, view) /\ UNCHANGED <<session, counters>>
    BY <1>2 DEF PollTimesOut
  <2>2. RequestSound(q) /\ q.gen <= nextGen
    BY RequestFacts
  <2>3. /\ RequestSound(p) /\ p.op = "POLL" /\ p.gen = q.gen
        /\ p.asm = q.asm /\ p.was = q.was /\ p.tok = q.tok
    BY <1>1, <2>1, <2>2 DEF RequestSound, Requests
  <2> HIDE DEF p
  <2>4. \A x \in {p} : RequestSound(x) /\ x.gen <= nextGen /\ ~Opens(x)
    BY <2>2, <2>3 DEF Opens
  <2>5. ~Opens(q) /\ q.op \notin BundleOps
    BY <2>1 DEF BundleOps, Opens
  <2>6. SessionKept /\ session' = session /\ evidenceGen' = evidenceGen
    BY <2>1, UnchangedIsKept DEF counters
  <2>7. ScreenInv'
    BY <1>1, <2>1, <2>4, <2>5, <2>6, AnswerKeepsScreen
  <2>8. /\ StillWanted(q) /\ requests' = (requests \ {q}) \cup {p} /\ head' = head
        /\ view' = view
    BY <2>1 DEF Answered
  <2>9. IsActive(q)
    BY <2>1, <2>8, WantedIsActive
  <2>10. Alike(p, q)
    BY <2>1, <2>3 DEF Alike, Loads, Shows, Monitors
  <2> QED
    BY <2>6, <2>7, <2>8, <2>9, <2>10, ReplacementIsStep
<1>3. CASE PollAnswers(q)
  <2>1. /\ q.op = "POLL" /\ Answered(q, {Follow(q, "READ", q.asm)}, view)
        /\ UNCHANGED <<session, counters>>
    BY <1>3 DEF PollAnswers
  <2>2. q.asm \in Assessments /\ q.was.kind = "READY"
    BY <2>1, RequestFacts DEF OpSound, ReadyOps, PageOps
  <2>3. OpSound("READ", q.asm, q.was) /\ "READ" \in Ops
    BY <2>2 DEF OpSound, BundleOps, ReadyOps, Ops
  <2> QED
    BY <2>1, <2>3, FollowKeepsInv
<1>4. CASE CommandAnswers(q)
  <2>1. /\ q.op \in {"RESUME", "CANCEL", "DECIDE"}
        /\ Answered(q, {Follow(q, ReadAfter[q.op], q.asm)}, view) /\ UNCHANGED <<session, counters>>
    BY <1>4 DEF CommandAnswers, ReadAfter
  <2>2. q.asm \in Assessments /\ q.was.kind = "READY"
    BY <2>1, RequestFacts DEF OpSound, ReadyOps, PageOps
  <2>3. ReadAfter[q.op] \in {"RESUME_READ", "CANCEL_READ", "DECIDE_READ"}
    BY <2>1 DEF ReadAfter
  <2>4. OpSound(ReadAfter[q.op], q.asm, q.was) /\ ReadAfter[q.op] \in Ops
    BY <2>2, <2>3 DEF OpSound, BundleOps, ReadyOps, Ops
  <2>5. {ReadAfter[q.op], q.op} \subseteq ReadyOps \ {"POLL", "READ"} /\ q.op # "DIGEST"
    BY <2>1, <2>3 DEF ReadyOps
  <2> QED
    BY <2>1, <2>4, <2>5, FollowKeepsInv
<1> QED
  BY <1>2, <1>3, <1>4

\* Findings, and the metadata of their evidence.
LEMMA FindingsAnswersKeepInv ==
    ASSUME ClientInv, NEW q \in requests, FindingsAnswer(q) \/ MetadataAnswers(q)
    PROVE  ClientStep
<1>1. ViewSound(q.was) /\ OpSound(q.op, q.asm, q.was)
  BY RequestFacts
<1>2. CASE FindingsAnswer(q)
  <2> DEFINE shown == Findings(q.was, FindingsLoaded[q.op])
  <2>1. /\ q.op \in {"FINDINGS", "MORE_FINDINGS", "FINDING"} /\ Answered(q, {}, shown)
        /\ SessionKept
    BY <1>2, UnchangedIsKept DEF FindingsAnswer, FindingsLoaded
  <2>2. q.was.kind = "READY" /\ q.op \in ReadyOps /\ q.op \notin BundleOps /\ ~Opens(q)
    BY <1>1, <2>1 DEF OpSound, ReadyOps, BundleOps, Opens
  <2>3. FindingsLoaded[q.op] \in FindingStates
    BY <2>1 DEF FindingsLoaded, FindingStates
  <2>4. /\ ViewSound(shown) /\ shown.evidence = "NOT_LOADED" /\ shown.kind = "READY"
        /\ shown.asm = q.was.asm /\ shown.rev = q.was.rev /\ ~Busy(shown)
    <3>1. SameRecord(shown, q.was, "NOT_LOADED")
      BY <1>1, <2>2, <2>3, FindingsAreViews
    <3> QED
      BY <3>1 DEF SameRecord
  <2> HIDE DEF shown
  <2>5. IsActive(q) /\ view.kind = "READY" /\ view.rev = q.was.rev
    BY <2>1, RevisionIsShown DEF Answered
  <2>6. Repaints(shown)
    BY <2>2, <2>4, <2>5, AnswerRepaints
  <2> QED
    BY <2>1, <2>2, <2>4, <2>6, ResultKeepsInv
<1>3. CASE MetadataAnswers(q)
  <2> DEFINE shown == Evidence(q.was, "METADATA_READY")
  <2>1. q.op = "METADATA" /\ Answered(q, {}, shown) /\ SessionKept
    BY <1>3, UnchangedIsKept DEF MetadataAnswers
  <2>2. /\ q.was.kind = "READY" /\ IsTerminal(q.was.asm, q.was.rev)
        /\ q.op \in ReadyOps /\ q.op \notin BundleOps /\ ~Opens(q)
    BY <1>1, <2>1 DEF OpSound, ReadyOps, BundleOps, Opens
  <2>3. /\ ViewSound(shown) /\ shown.evidence = "METADATA_READY" /\ shown.kind = "READY"
        /\ shown.asm = q.was.asm /\ shown.rev = q.was.rev /\ ~Busy(shown)
    <3>1. "METADATA_READY" \in EvidenceStates
      BY DEF EvidenceStates
    <3>2. SameRecord(shown, q.was, "METADATA_READY")
      BY <1>1, <2>2, <3>1, EvidenceIsView
    <3> QED
      BY <3>2 DEF SameRecord
  <2> HIDE DEF shown
  <2>4. IsActive(q) /\ view.kind = "READY" /\ view.rev = q.was.rev
    BY <2>1, RevisionIsShown DEF Answered
  <2>5. Repaints(shown)
    BY <2>2, <2>3, <2>4, AnswerRepaints
  <2> QED
    BY <2>1, <2>2, <2>3, <2>5, ResultKeepsInv
<1> QED
  BY <1>2, <1>3

\* The disclosure: where it shows content, it is the last evidence request of a session that
\* lives, made of a sealed record, and its timer is armed.
LEMMA DisclosureKeepsInv ==
    ASSUME ClientInv, NEW q \in requests, DisclosureAnswers(q)
    PROVE  ClientStep
<1>1. /\ session \in Sessions /\ session.gen <= nextGen /\ nextGen \in Nat /\ evidenceGen \in Nat
      /\ calls \in Nat /\ head \in [Assessments -> Nat]
  BY DEF ClientInv, ScreenInv, ClientTypeOK
<1>2. q.op = "DISCLOSURE" /\ nextGen' = nextGen /\ evidenceGen' = evidenceGen
  BY DEF DisclosureAnswers, counters
<1>3. /\ ViewSound(q.was) /\ q.was.kind = "READY" /\ IsTerminal(q.was.asm, q.was.rev)
      /\ q.tok \in Nat /\ q.op \in ReadyOps /\ q.op \notin BundleOps /\ ~Opens(q)
  BY <1>2, RequestFacts DEF OpSound, ReadyOps, BundleOps, Opens
<1>4. /\ StillWanted(q) /\ requests' = requests \ {q} /\ calls' = calls /\ head' = head
  BY DEF DisclosureAnswers, Answered
<1>5. /\ IsActive(q) /\ view.kind = "READY" /\ view.rev = q.was.rev /\ evidenceGen = q.tok
  BY <1>2, <1>4, RevisionIsShown
<1>6. ASSUME NEW state \in EvidenceStates \ {"DISCLOSURE_READY"},
             Answered(q, {}, Evidence(q.was, state)), SessionKept
      PROVE  ClientStep
  <2> DEFINE shown == Evidence(q.was, state)
  <2>1. /\ ViewSound(shown) /\ shown.evidence = state /\ shown.kind = "READY"
        /\ shown.asm = q.was.asm /\ shown.rev = q.was.rev /\ ~Busy(shown)
    <3>1. state \in EvidenceStates
      BY <1>6
    <3>2. SameRecord(shown, q.was, state)
      BY <1>3, <3>1, EvidenceIsView
    <3> QED
      BY <3>2 DEF SameRecord
  <2>2. Answered(q, {}, shown)
    BY <1>6
  <2> HIDE DEF shown
  <2>3. Repaints(shown)
    BY <1>3, <1>5, <2>1, AnswerRepaints
  <2> QED
    BY <1>3, <1>6, <2>1, <2>2, <2>3, ResultKeepsInv
<1>7. CASE Answered(q, {}, Evidence(q.was, "REDACTED")) /\ UNCHANGED session
  <2>1. SessionKept
    BY <1>1, <1>2, <1>7 DEF SessionKept
  <2> QED
    BY <1>6, <1>7, <2>1 DEF EvidenceStates
<1>8. CASE /\ Answered(q, {}, Evidence(q.was, "EXPIRED"))
           /\ session' = [session EXCEPT !.timer = 0]
  <2>1. session' \in Sessions /\ session'.gen = session.gen /\ session'.mon = session.mon
    BY <1>1, <1>8 DEF Sessions
  <2>2. SessionKept
    BY <1>1, <1>2, <2>1 DEF SessionKept
  <2> QED
    BY <1>6, <1>8, <2>2 DEF EvidenceStates
<1>9. CASE /\ Answered(q, {}, [Evidence(q.was, "DISCLOSURE_READY") EXCEPT !.shownBy = q.tok])
           /\ session' = [session EXCEPT !.timer = q.tok]
  <2> DEFINE e == Evidence(q.was, "DISCLOSURE_READY")
             shown == [e EXCEPT !.shownBy = q.tok]
  <2>1. view' = shown
    BY <1>9 DEF Answered
  <2>2. /\ session' \in Sessions /\ session'.gen = session.gen /\ session'.timer = q.tok
        /\ session'.mon = session.mon
    BY <1>1, <1>3, <1>9 DEF Sessions
  <2>3. /\ ViewSound(shown) /\ shown.kind = "READY" /\ shown.asm = q.was.asm
        /\ shown.rev = q.was.rev /\ shown.shownBy = q.tok /\ ~Busy(shown)
    BY <1>3, DisclosuresAreViews
  <2> HIDE DEF shown
  <2>4. ClientTypeOK'
    BY <1>1, <1>2, <1>4, <2>1, <2>2, <2>3 DEF ClientInv, ScreenInv, ClientTypeOK
  <2>5. \A c \in requests : ~(Opens(c) /\ IsActive(c))
    BY <1>3, <1>5 DEF ClientInv, ScreenInv, OpeningAlone
  <2>6. OpeningAlone'
    <3>1. \A c : IsActive(c)' <=> IsActive(c)
      BY <2>2 DEF IsActive
    <3> QED
      BY <1>4, <2>5, <3>1 DEF OpeningAlone, Opens
  <2>7. IsTerminal(shown.asm, shown.rev)
    BY <1>3, <2>3
  <2>8. session'.gen # 0
    BY <1>5, <2>2 DEF IsActive
  <2>9. DisclosureIsWanted'
    BY <1>2, <1>5, <2>1, <2>2, <2>3, <2>7, <2>8 DEF DisclosureIsWanted, IsTerminal
  <2>10. ScreenInv'
    BY <2>4, <2>6, <2>9 DEF ScreenInv
  <2>11. Repaints(view')
    BY <1>3, <1>5, <2>1, <2>3, AnswerRepaints
  <2>12. Live' \subseteq Live
    BY <1>4, <2>2 DEF Live, IsActive
  <2> QED
    BY <1>4, <2>2, <2>10, <2>11, <2>12, RepaintIsStep
<1> QED
  BY <1>7, <1>8, <1>9 DEF DisclosureAnswers


\* The Bundle and its exports.
LEMMA BundleAnswersKeepInv ==
    ASSUME ClientInv, NEW q \in requests,
           \/ ManifestAnswers(q) \/ BindingsAnswer(q) \/ PreviewAnswers(q) \/ RequestAnswers(q)
           \/ StatusAnswers(q) \/ DownloadAnswers(q) \/ DigestAnswers(q)
    PROVE  ClientStep
<1>1. /\ ViewSound(q.was) /\ q.was \in Views /\ OpSound(q.op, q.asm, q.was) /\ q.asm \in Named
      /\ q.op \notin PageOps => q.asm \in Assessments
      /\ q.id \in Nat
  BY RequestFacts
<1>2. UNCHANGED <<session, counters>> /\ SessionKept
  BY UnchangedIsKept DEF ManifestAnswers, BindingsAnswer, PreviewAnswers, RequestAnswers,
                         StatusAnswers, DownloadAnswers, DigestAnswers
<1>3. CASE ManifestAnswers(q)
  <2>1. q.op = "MANIFEST" /\ Answered(q, {Follow(q, "BINDINGS", q.asm)}, view)
    BY <1>3 DEF ManifestAnswers
  <2>2. OpSound("BINDINGS", q.asm, q.was) /\ "BINDINGS" \in Ops
    BY <1>1, <2>1 DEF OpSound, PageOps, ReadyOps, BundleOps, Ops
  <2>3. {"BINDINGS", q.op} \subseteq ReadyOps \ {"POLL", "READ"}
    BY <2>1 DEF ReadyOps
  <2> QED
    BY <1>2, <2>1, <2>2, <2>3, FollowKeepsInv
<1>4. ASSUME q.op \in BundleOps \ {"DIGEST"}, NEW op \in BundleOps,
             Answered(q, {Follow(q, op, q.asm)}, view)
      PROVE  ClientStep
  <2>1. OpSound(op, q.asm, q.was) /\ op \in Ops /\ {op, q.op} \subseteq BundleOps
    BY <1>1, <1>4 DEF OpSound, PageOps, ReadyOps, BundleOps, Ops
  <2> QED
    BY <1>2, <1>4, <2>1, FollowKeepsInv
<1>5. CASE RequestAnswers(q)
  BY <1>4, <1>5 DEF RequestAnswers, BundleOps
<1>6. CASE DownloadAnswers(q)
  BY <1>4, <1>6 DEF DownloadAnswers, BundleOps
<1>7. ASSUME NEW shown, ViewSound(shown), shown.kind = "BUNDLE_READY", ~Opens(q),
             Answered(q, {}, shown)
      PROVE  ClientStep
  <2>1. shown.evidence # "DISCLOSURE_READY" /\ Repaints(shown)
    BY <1>7, PagesRepaint DEF ViewSound
  <2> QED
    BY <1>2, <1>7, <2>1, ResultKeepsInv
<1>8. CASE BindingsAnswer(q)
  <2> DEFINE p == Page("BUNDLE_READY", q.asm)
             shown == [p EXCEPT !.rev = q.was.rev]
  <2>1. q.op = "BINDINGS" /\ Answered(q, {}, shown)
    BY <1>8 DEF BindingsAnswer
  <2>2. q.asm \in Assessments /\ q.was.rev \in Nat
    BY <1>1, <2>1 DEF Views, PageOps
  <2>3. p \in Views /\ p.kind = "BUNDLE_READY" /\ p.asm = q.asm /\ p.evidence = "NOT_LOADED"
    BY <2>2, PagesAreViews DEF ViewSound, Kinds, Named
  <2> HIDE DEF p
  <2>4. /\ shown \in Views /\ shown.kind = "BUNDLE_READY" /\ shown.asm = q.asm
        /\ shown.evidence = "NOT_LOADED"
    BY <2>2, <2>3 DEF Views
  <2> HIDE DEF shown
  <2>5. ViewSound(shown)
    BY <2>2, <2>4 DEF ViewSound
  <2> QED
    BY <1>7, <2>1, <2>4, <2>5 DEF Opens
<1>9. CASE PreviewAnswers(q)
  <2> DEFINE w == Exporting(q.was, "PREVIEW_READY")
             shown == [w EXCEPT !.preview = q.id]
  <2>1. q.op = "PREVIEW" /\ Answered(q, {}, shown)
    BY <1>9 DEF PreviewAnswers
  <2>2. q.was.kind = "BUNDLE_READY"
    BY <1>1, <2>1 DEF OpSound, BundleOps
  <2>3. /\ ViewSound(w) /\ w \in Views /\ w.kind = "BUNDLE_READY" /\ w.evidence = "NOT_LOADED"
    BY <1>1, <2>2, BundlesAreViews DEF ExportStates, ViewSound
  <2> HIDE DEF w
  <2>4. /\ shown \in Views /\ shown.kind = "BUNDLE_READY" /\ shown.asm = w.asm
        /\ shown.evidence = "NOT_LOADED"
    BY <1>1, <2>3 DEF Views
  <2> HIDE DEF shown
  <2>5. ViewSound(shown)
    BY <2>3, <2>4 DEF ViewSound
  <2> QED
    BY <1>7, <2>1, <2>4, <2>5 DEF Opens
<1>10. CASE StatusAnswers(q)
  <2> DEFINE w == Exporting(q.was, "STATUS_READY")
             With(status) == [w EXCEPT !.stamp = q.id, !.status = status, !.statusBy = q.id]
  <2>1. q.op \in {"STATUS", "REFRESH_STATUS"}
    BY <1>10 DEF StatusAnswers
  <2>2. PICK status \in AllowedTransitions[q.was.status] : Answered(q, {}, With(status))
    BY <1>10 DEF StatusAnswers
  <2>3. status \in Statuses
    <3>1. q.was.status \in Statuses
      BY <1>1 DEF Views
    <3> QED
      BY <2>2, <3>1 DEF Statuses, AllowedTransitions
  <2>4. q.was.kind = "BUNDLE_READY"
    BY <1>1, <2>1 DEF OpSound, BundleOps
  <2>5. /\ ViewSound(w) /\ w \in Views /\ w.kind = "BUNDLE_READY" /\ w.evidence = "NOT_LOADED"
    BY <1>1, <2>4, BundlesAreViews DEF ExportStates, ViewSound
  <2> HIDE DEF w
  <2> DEFINE shown == With(status)
  <2>6. /\ shown \in Views /\ shown.kind = "BUNDLE_READY" /\ shown.asm = w.asm
        /\ shown.evidence = "NOT_LOADED"
    BY <1>1, <2>3, <2>5 DEF Views
  <2>7. Answered(q, {}, shown)
    BY <2>2
  <2> HIDE DEF shown
  <2>8. ViewSound(shown)
    BY <2>5, <2>6 DEF ViewSound
  <2> QED
    BY <1>7, <2>1, <2>6, <2>7, <2>8 DEF Opens
<1>11. CASE DigestAnswers(q)
  <2> DEFINE shown == [q.was EXCEPT !.download = "COMPLETE", !.stamp = q.id + MaxCalls]
  <2>1. q.op = "DIGEST" /\ Answered(q, {}, shown)
    BY <1>11 DEF DigestAnswers
  <2>2. q.was.kind = "BUNDLE_READY" /\ q.id + MaxCalls \in Nat
    BY <1>1, <2>1, ClientsAssumption DEF OpSound, BundleOps
  <2>3. q.was.evidence = "NOT_LOADED"
    BY <1>1, <2>2 DEF ViewSound
  <2>4. /\ shown \in Views /\ shown.kind = "BUNDLE_READY" /\ shown.asm = q.was.asm
        /\ shown.evidence = "NOT_LOADED"
    BY <1>1, <2>2, <2>3 DEF Views
  <2> HIDE DEF shown
  <2>5. ViewSound(shown)
    BY <1>1, <2>2, <2>4 DEF ViewSound
  <2> QED
    BY <1>7, <2>1, <2>4, <2>5 DEF Opens
<1> QED
  BY <1>3, <1>5, <1>6, <1>8, <1>9, <1>10, <1>11
-----------------------------------------------------------------------------
(* The Service and the expiry timer.                                       *)

LEMMA AdvanceKeepsInv ==
    ASSUME ClientInv, ServiceAdvances
    PROVE  ClientStep
<1>1. /\ ViewSound(view) /\ session \in Sessions /\ head \in [Assessments -> Nat]
      /\ calls \in Nat /\ evidenceGen \in Nat /\ session.mon \in Nat
  BY DEF ClientInv, ScreenInv, ClientTypeOK, Sessions
<1>2. PICK a \in Assessments : AssessmentAdvances(a)
  BY DEF ServiceAdvances
<1>3. /\ view' = view /\ session' = session /\ nextGen' = nextGen /\ evidenceGen' = evidenceGen
      /\ calls' = calls /\ requests' = requests /\ head' = [head EXCEPT ![a] = head[a] + 1]
  BY <1>2 DEF AssessmentAdvances, counters
<1>4. head' \in [Assessments -> Nat] /\ (head'[Fresh] = 0 => head[Fresh] = 0)
  BY <1>1, <1>3, ClientsAssumption
<1>5. \A c \in requests : Opens(c) /\ IsActive(c) => view.kind \in Opening
  BY DEF ClientInv, ScreenInv, OpeningAlone
<1>6. DisclosureKept
  BY <1>3 DEF DisclosureKept
<1>7. ScreenInv'
  BY <1>1, <1>3, <1>4, <1>5, <1>6, SessionGoesOn DEF ClientInv
<1>8. Live' \subseteq Live /\ Repaints(view')
  BY <1>3 DEF Live, IsActive, Repaints
<1> QED
  BY <1>1, <1>3, <1>4, <1>7, <1>8, RepaintIsStep

LEMMA DecisionKeepsInv ==
    ASSUME ClientInv, NEW q \in requests, ServiceDecides(q)
    PROVE  ClientStep
<1> DEFINE p == [q EXCEPT !.answered = TRUE]
<1>1. /\ ViewSound(view) /\ session \in Sessions /\ head \in [Assessments -> Nat]
      /\ calls \in Nat /\ evidenceGen \in Nat /\ session.mon \in Nat
  BY DEF ClientInv, ScreenInv, ClientTypeOK, Sessions
<1>2. /\ view' = view /\ session' = session /\ nextGen' = nextGen /\ evidenceGen' = evidenceGen
      /\ calls' = calls /\ requests' = (requests \ {q}) \cup {p}
  BY DEF ServiceDecides, counters
<1>3. /\ q.op \in {"RESUME", "CANCEL", "DECIDE", "START"}
      /\ q.op = "START" => head[Fresh] = 0 /\ head' = [head EXCEPT ![q.asm] = head[q.asm] + 1]
      /\ head' = head \/ head' = [head EXCEPT ![q.asm] = head[q.asm] + 1]
  BY DEF ServiceDecides, ReadAfter
<1>4. RequestSound(q) /\ q.gen <= nextGen /\ q.asm \in Assessments
  BY <1>3, RequestFacts DEF PageOps
<1>5. /\ RequestSound(p) /\ p.op = q.op /\ p.gen = q.gen /\ p.asm = q.asm
      /\ p.was = q.was /\ p.tok = q.tok /\ p.answered = TRUE
  BY <1>4 DEF RequestSound, Requests
<1>6. head' \in [Assessments -> Nat] /\ (head'[Fresh] = 0 => head[Fresh] = 0)
  BY <1>1, <1>3, <1>4, ClientsAssumption
<1> HIDE DEF p
<1>7. ScreenInv'
  <2>1. \A x \in requests' \ requests : RequestSound(x) /\ x.gen <= nextGen /\ ~Opens(x)
    BY <1>2, <1>3, <1>4, <1>5 DEF Opens
  <2>2. IsActive(p) <=> IsActive(q)
    BY <1>5 DEF IsActive
  <2>3. \A c \in requests : Opens(c) /\ IsActive(c) =>
          /\ view.kind \in Opening
          /\ \A x \in requests : IsActive(x) => x = c \/ x.op \in BundleOps
    BY DEF ClientInv, ScreenInv, OpeningAlone
  <2>4. \A c \in requests : Opens(c) /\ IsActive(c) => view.kind \in Opening /\ ~IsActive(q)
    BY <1>3, <2>3 DEF Opens, BundleOps
  <2>5. \A x \in requests' \ requests : x = p
    BY <1>2
  <2>6. DisclosureKept
    BY <1>2 DEF DisclosureKept
  <2> QED
    BY <1>1, <1>2, <1>6, <2>1, <2>2, <2>4, <2>5, <2>6, SessionGoesOn DEF ClientInv
<1>8. CASE ~IsActive(q)
  <2>1. Live' \subseteq Live /\ Repaints(view')
    BY <1>2, <1>5, <1>8 DEF Live, IsActive, Repaints
  <2> QED
    BY <1>1, <1>2, <1>6, <1>7, <2>1, RepaintIsStep
<1>9. CASE IsActive(q) /\ q.op # "START"
  <2>1. Alike(p, q)
    BY <1>3, <1>5, <1>9 DEF Alike, Loads, Shows, Monitors
  <2> QED
    BY <1>2, <1>6, <1>7, <1>9, <2>1, ReplacementIsStep
<1>10. CASE IsActive(q) /\ q.op = "START"
  <2>1. q \in Live /\ Live' \subseteq (Live \ {q}) \cup {p}
    BY <1>2, <1>10, LiveGoesOn DEF Live
  <2>2. RevisionInv(Live, view, session.mon, 0)
    BY <1>3, <1>10 DEF ClientInv
  <2>3. q.asm = Fresh
    BY <1>10, <2>1, <2>2 DEF RevisionInv, NamesItsOwn
  <2>4. head'[Fresh] # 0
    BY <1>1, <1>3, <1>10, <2>3, ClientsAssumption
  <2>5. p.op = "START" /\ p.asm = q.asm /\ p.answered = TRUE
    BY <1>5, <1>10
  <2>6. RevisionInv(Live', view, session.mon, head'[Fresh])
    BY <1>10, <2>1, <2>2, <2>4, <2>5, StartKeeps
  <2>7. Advances
    BY <1>1, <1>2 DEF Advances, ViewSound, Views
  <2> QED
    BY <1>2, <1>7, <2>6, <2>7 DEF ClientStep, ClientInv
<1> QED
  BY <1>8, <1>9, <1>10

\* A disclosure is on the screen exactly while its own timer is armed, so the timer that fires
\* is the one of what it hides.
LEMMA ExpiryKeepsInv ==
    ASSUME ClientInv, EvidenceExpires
    PROVE  ClientStep
<1>1. /\ ViewSound(view) /\ session \in Sessions /\ nextGen \in Nat /\ calls \in Nat
      /\ evidenceGen \in Nat /\ head \in [Assessments -> Nat]
  BY DEF ClientInv, ScreenInv, ClientTypeOK
<1>2. /\ session' = [session EXCEPT !.timer = 0] /\ requests' = requests
      /\ nextGen' = nextGen /\ evidenceGen' = evidenceGen /\ calls' = calls /\ head' = head
  BY DEF EvidenceExpires, counters
<1>3. session' \in Sessions /\ session'.gen = session.gen /\ session'.mon = session.mon
  BY <1>1, <1>2 DEF Sessions
<1>4. /\ ViewSound(view') /\ view'.evidence # "DISCLOSURE_READY" /\ Repaints(view')
      /\ view' = view \/ view.kind = "READY"
  <2>1. CASE view.evidence = "DISCLOSURE_READY"
    <3>1. view.kind = "READY" /\ IsTerminal(view.asm, view.rev) /\ session.timer = evidenceGen
      BY <2>1 DEF ClientInv, ScreenInv, DisclosureIsWanted
    <3>2. view' = Evidence(view, "EXPIRED")
      BY <2>1, <3>1 DEF EvidenceExpires
    <3>3. /\ ViewSound(Evidence(view, "EXPIRED")) /\ Evidence(view, "EXPIRED").evidence = "EXPIRED"
          /\ Evidence(view, "EXPIRED").kind = "READY" /\ ~Busy(Evidence(view, "EXPIRED"))
          /\ Evidence(view, "EXPIRED").asm = view.asm /\ Evidence(view, "EXPIRED").rev = view.rev
      <4>1. "EXPIRED" \in EvidenceStates
        BY DEF EvidenceStates
      <4>2. SameRecord(Evidence(view, "EXPIRED"), view, "EXPIRED")
        BY <1>1, <3>1, <4>1, EvidenceIsView
      <4> QED
        BY <4>2 DEF SameRecord
    <3>4. Repaints(view')
      BY <3>1, <3>2, <3>3, ShownRepaints
    <3> QED
      BY <3>1, <3>2, <3>3, <3>4
  <2>2. CASE view.evidence # "DISCLOSURE_READY"
    <3>1. view' = view
      BY <2>2 DEF EvidenceExpires
    <3> QED
      BY <1>1, <2>2, <3>1 DEF Repaints
  <2> QED
    BY <2>1, <2>2
<1>5. DisclosureKept
  BY <1>4 DEF DisclosureKept
<1>6. \A c \in requests : Opens(c) /\ IsActive(c) => view'.kind \in Opening
  BY <1>4 DEF ClientInv, ScreenInv, OpeningAlone, Opening
<1>7. requests' \ requests = {}
  BY <1>2
<1>8. ScreenInv'
  BY <1>1, <1>2, <1>3, <1>4, <1>5, <1>6, <1>7, SessionGoesOn DEF ClientInv
<1>9. Live' \subseteq Live /\ (head'[Fresh] = 0 => head[Fresh] = 0)
  BY <1>2, <1>3 DEF Live, IsActive
<1>10. session'.mon \in {session.mon, session.mon + 1}
  BY <1>3
<1> QED
  BY <1>3, <1>4, <1>8, <1>9, <1>10, RepaintIsStep

-----------------------------------------------------------------------------
LEMMA InitEstablishesInv == ClientInit => ClientInv
<1> SUFFICES ASSUME ClientInit PROVE ClientInv
  OBVIOUS
<1>1. ViewSound(view) /\ view.evidence = "NOT_LOADED" /\ view.kind = "CLOSED"
  BY ClosedIsView DEF ClientInit
<1>2. session \in Sessions /\ session.gen = 0 /\ session.mon \in Nat
  BY DEF ClientInit, NoSession, Sessions, Named
<1>3. head \in [Assessments -> Nat] /\ requests = {} /\ nextGen = 0 /\ evidenceGen = 0 /\ calls = 0
  BY DEF ClientInit
<1>4. ScreenInv
  BY <1>1, <1>2, <1>3 DEF ScreenInv, ClientTypeOK, OpeningAlone, DisclosureIsWanted
<1>5. PICK p : p.op = "LIST"
  <2>1. [op |-> "LIST"].op = "LIST"
    OBVIOUS
  <2> QED
    BY <2>1
<1>6. Live \subseteq {p}
  BY <1>3 DEF Live
<1>7. RevisionInv(Live, view, session.mon, head[Fresh])
  BY <1>1, <1>2, <1>5, <1>6, BeginningKeeps
<1> QED
  BY <1>4, <1>7 DEF ClientInv

LEMMA StutterKeepsInv ==
    ASSUME ClientInv, UNCHANGED clientVars
    PROVE  ClientStep
<1>1. /\ view' = view /\ session' = session /\ nextGen' = nextGen /\ evidenceGen' = evidenceGen
      /\ requests' = requests /\ calls' = calls /\ head' = head
  BY DEF clientVars, counters
<1>2. ScreenInv'
  BY <1>1 DEF ClientInv, ScreenInv, ClientTypeOK, OpeningAlone, DisclosureIsWanted, IsActive,
              IsTerminal
<1>3. Live' \subseteq Live /\ Repaints(view')
  BY <1>1 DEF Live, IsActive, Repaints
<1> QED
  BY <1>1, <1>2, <1>3, RepaintIsStep

LEMMA NextIsStep == ClientInv /\ [OverlayNext]_clientVars => ClientStep
<1> SUFFICES ASSUME ClientInv, [OverlayNext]_clientVars PROVE ClientStep
  OBVIOUS
<1>1. CASE UserOffers
  BY <1>1, UserKeepsInv
<1>2. CASE EvidenceExpires
  BY <1>2, ExpiryKeepsInv
<1>3. CASE ServiceAdvances
  BY <1>3, AdvanceKeepsInv
<1>4. ASSUME NEW q \in requests, Arrival(q)
      PROVE  ClientStep
  BY <1>4, LossesKeepInv, ListingsKeepInv, LoadKeepsInv, ReadKeepsInv, RefreshKeepsInv,
     PageAnswersKeepInv, MonitorAnswersKeepInv, FindingsAnswersKeepInv, DisclosureKeepsInv,
     BundleAnswersKeepInv, DecisionKeepsInv
     DEF Arrival
<1>5. CASE UNCHANGED clientVars
  BY <1>5, StutterKeepsInv
<1> QED
  BY <1>1, <1>2, <1>3, <1>4, <1>5 DEF OverlayNext, ClientArrives

LEMMA NextKeepsInv == ClientInv /\ [OverlayNext]_clientVars => ClientInv'
  BY NextIsStep DEF ClientStep

\* Whatever the screen offers and in whatever order the answers arrive, the published view, the
\* session and every waiting operation are well formed: a view names its Assessment, evidence is
\* shown of terminal Assessments only, and each operation waits with the view that offered it.
THEOREM TypeCorrect == OverlaySpec => []ClientTypeOK
<1>1. ClientInv => ClientTypeOK
  BY DEF ClientInv, ScreenInv
<1> QED
  BY <1>1, InitEstablishesInv, NextKeepsInv, PTL DEF OverlaySpec

\* Content of an Evidence Artifact is on the screen only as the answer to the last evidence
\* request of the live session, on a sealed record and with its expiry timer armed, for any
\* number of operations that wait at once, sessions erased and requests answered late.
THEOREM DisclosureStaysWanted == OverlaySpec => []DisclosureIsWanted
<1>1. ClientInv => DisclosureIsWanted
  BY DEF ClientInv, ScreenInv
<1> QED
  BY <1>1, InitEstablishesInv, NextKeepsInv, PTL DEF OverlaySpec

\* In a session the screen never goes back to an older revision of the Assessment it shows: the
\* answers of monitors, loads, commands and finding reads of the two Assessments a session may be
\* about are applied in any order, late, or to a screen that has moved on.
THEOREM RevisionsStayForward == OverlaySpec => RevisionsAdvance
<1> DEFINE Forward ==
             (view.kind = "READY" /\ view'.kind = "READY" /\ view.asm = view'.asm
              /\ session.gen = session'.gen) => view'.rev >= view.rev
<1>1. ClientInv /\ [OverlayNext]_clientVars => [Forward]_clientVars
  BY NextIsStep DEF ClientStep, Advances
<1> HIDE DEF Forward
<1>2. OverlaySpec => [][Forward]_clientVars
  BY <1>1, InitEstablishesInv, NextKeepsInv, PTL DEF OverlaySpec
<1> QED
  BY <1>2 DEF Forward, RevisionsAdvance
=============================================================================
