---------------------------- MODULE SubjectFreeze ----------------------------
(***************************************************************************)
(* Subject Freeze (src/src/internal/subject-freeze.ts): the files of a     *)
(* repository that other programs keep editing are copied into a staging   *)
(* directory, read a second time, described by a manifest and published    *)
(* under the manifest's digest with one rename.  A starting Service        *)
(* removes the staging directories it finds, those of a call that an       *)
(* earlier Service of the same process still runs included.                *)
(*                                                                         *)
(* A command of Git and a read of a file are steps: an edit falls between  *)
(* any two of them.  An edit gives a file a stamp no other version has,    *)
(* which is what device, inode, size, mtime and ctime are compared for.    *)
(* A digest is the value digested.  Sizes, permissions, submodules and the *)
(* spelling of paths are abstracted; exceeding a limit, an unreadable      *)
(* entry, a failing Git and an abort are the one step FreezeFails.         *)
(***************************************************************************)
EXTENDS Integers, FiniteSets, Sequences

CONSTANTS
    Freezes,     \* calls of freezeSubject
    Paths,       \* paths of the repository, integers: Git lists them in order
    Indexed,     \* those in Git's index; the others are untracked
    Bytes,       \* what a file, or the target of a link, may hold
    Committed,   \* the tree of the commit that a git_revision names
    Manifest,    \* the name of manifest.json in a directory
    Gone,        \* no such file, directory or value
    MaxEdits     \* bound on the edits of the repository

ASSUME PathsAssumption == Paths \subseteq Nat /\ Indexed \subseteq Paths /\ Manifest \notin Paths
ASSUME EditsAssumption == MaxEdits \in Nat

VARIABLES
    history,     \* the workspace after each edit: its last element is now
    freeze,      \* the local variables of each call
    staged,      \* securityRoot/staging/subject-<uuid>: the files in it
    published,   \* securityRoot/subjects: a digest and the files under it
    reaping      \* staging directories a starting Service is removing

freezeVars == <<history, freeze, staged, published, reaping>>

-----------------------------------------------------------------------------
(* The workspace and what Git tells of it. *)

Missing == [kind |-> "missing", bytes |-> Gone, stamp |-> 0]
Workspace == history[Len(history)]
Existing(tree) == {p \in Paths : tree[p].kind # "missing"}

\* ls-files --cached --others --exclude-standard, and ls-files --deleted.
Selection(tree) == Indexed \cup Existing(tree)
Deleted(tree) == Indexed \ Existing(tree)

\* status and diff show the content of indexed files and the names of the others.
Status(tree) ==
    [tracked |-> [p \in Indexed |-> [kind |-> tree[p].kind, bytes |-> tree[p].bytes]],
     untracked |-> Existing(tree) \ Indexed]

\* The fingerprints of a Control Plane run: the content of an untracked file is
\* taken from entries, that is from what was captured.
Fingerprint(status, entries) ==
    [status |-> status, untracked |-> [p \in status.untracked |-> entries[p].bytes]]

\* Another program writes, replaces or removes a file.
Edit(p) ==
    /\ Len(history) <= MaxEdits
    /\ \E entry \in [kind : {"file", "symbolic_link"}, bytes : Bytes, stamp : {Len(history)}]
                       \cup {Missing} :
          history' = Append(history, [Workspace EXCEPT ![p] = entry])
    /\ UNCHANGED <<freeze, staged, published, reaping>>

-----------------------------------------------------------------------------
(* A call of freezeSubject. *)

Unread == [kind |-> "unread", bytes |-> Gone, stamp |-> 0]
NoFiles == [file \in Paths \cup {Manifest} |-> Gone]

FreezeInit ==
    /\ \E bytes \in Bytes :
          history = <<[p \in Paths |-> [kind |-> "file", bytes |-> bytes, stamp |-> 0]]>>
    /\ freeze = [f \in Freezes |->
          [at |-> "uncalled", source |-> Gone, expected |-> Gone, status |-> Gone,
           selection |-> {}, deleted |-> {}, opened |-> Unread,
           entries |-> [p \in Paths |-> Unread], checked |-> {}]]
    /\ staged = [f \in Freezes |-> Gone]
    /\ published = {}
    /\ reaping = {}

Calling(f) == freeze[f].at \notin {"uncalled", "done", "failed", "crashed"}
Goes(f, to) == freeze' = [freeze EXCEPT ![f].at = to]
Proceeds(f, to) == Goes(f, to) /\ UNCHANGED <<history, staged, published, reaping>>

\* The call throws; a directory that was not published is removed.
Throws(f) ==
    /\ Goes(f, "failed")
    /\ staged' = [staged EXCEPT ![f] = Gone]
    /\ UNCHANGED <<history, published, reaping>>

\* A request names its kind of source; that of a Control Plane run also the
\* fingerprints of the workspace the run has produced.
CallFreezeSubject(f) ==
    /\ freeze[f].at = "uncalled"
    /\ \E source \in {"git_revision", "workspace_snapshot", "workspace_change"} :
          freeze' = [freeze EXCEPT
              ![f].at = CASE source = "git_revision" -> "tree"
                          [] source = "workspace_change" -> "status"
                          [] source = "workspace_snapshot" -> "selection",
              ![f].source = source,
              ![f].expected = IF source = "workspace_change"
                              THEN Fingerprint(Status(Workspace), Workspace) ELSE Gone]
    /\ staged' = [staged EXCEPT ![f] = NoFiles]
    /\ UNCHANGED <<history, published, reaping>>

\* Writing a file makes the directories that are missing.
Writes(f, files) ==
    LET kept == IF staged[f] = Gone THEN NoFiles ELSE staged[f] IN
    staged' = [staged EXCEPT ![f] =
        [file \in DOMAIN kept |-> IF file \in DOMAIN files THEN files[file] ELSE kept[file]]]

\* The blobs of a commit cannot change: reading them all is one step.
MaterializeGitTree(f) ==
    /\ freeze[f].at = "tree"
    /\ freeze' = [freeze EXCEPT ![f].at = "manifest", ![f].entries = Committed]
    /\ Writes(f, [p \in {p \in Paths : Committed[p].kind = "file"} |-> Committed[p].bytes])
    /\ UNCHANGED <<history, published, reaping>>

ReadStatus(f) ==
    /\ freeze[f].at = "status"
    /\ freeze' = [freeze EXCEPT ![f].status = Status(Workspace), ![f].at = "selection"]
    /\ UNCHANGED <<history, staged, published, reaping>>

ReadSelection(f) ==
    /\ freeze[f].at = "selection"
    /\ freeze' = [freeze EXCEPT ![f].selection = Selection(Workspace), ![f].at = "deletions"]
    /\ UNCHANGED <<history, staged, published, reaping>>

ReadDeletions(f) ==
    /\ freeze[f].at = "deletions"
    /\ freeze' = [freeze EXCEPT ![f].deleted = Deleted(Workspace), ![f].at = "capture"]
    /\ UNCHANGED <<history, staged, published, reaping>>

Uncaptured(f) ==
    {p \in freeze[f].selection \ freeze[f].deleted : freeze[f].entries[p].kind = "unread"}
InOrder(paths) == CHOOSE p \in paths : \A q \in paths : p <= q
Capturing(f) == freeze[f].at = "capture" /\ Uncaptured(f) # {}

\* A link is read where it stands, and never again.
CaptureLink(f) ==
    /\ Capturing(f) /\ freeze[f].opened = Unread
    /\ LET p == InOrder(Uncaptured(f)) IN
          /\ Workspace[p].kind = "symbolic_link"
          /\ freeze' = [freeze EXCEPT ![f].entries[p] = Workspace[p]]
    /\ UNCHANGED <<history, staged, published, reaping>>

\* A file is opened and its signature taken; then it is read to its end, where
\* it must have the same signature.
Unchanged(before, after) == before = after

OpenFile(f) ==
    /\ Capturing(f) /\ freeze[f].opened = Unread
    /\ LET found == Workspace[InOrder(Uncaptured(f))] IN
       \/ /\ found.kind = "file"
          /\ freeze' = [freeze EXCEPT ![f].opened = found]
          /\ UNCHANGED <<history, staged, published, reaping>>
       \/ found.kind = "missing" /\ Throws(f)

ReadFile(f) ==
    /\ Capturing(f) /\ freeze[f].opened # Unread
    /\ LET p == InOrder(Uncaptured(f)) IN
       \/ /\ Unchanged(freeze[f].opened, Workspace[p])
          /\ freeze' = [freeze EXCEPT ![f].entries[p] = Workspace[p], ![f].opened = Unread]
          /\ Writes(f, [file \in {p} |-> Workspace[p].bytes])
          /\ UNCHANGED <<history, published, reaping>>
       \/ ~ Unchanged(freeze[f].opened, Workspace[p]) /\ Throws(f)

\* What Git told before must be what it tells now.
ReadSelectionAgain(f) ==
    /\ freeze[f].at = "capture" /\ Uncaptured(f) = {}
    /\ IF freeze[f].selection = Selection(Workspace) THEN Proceeds(f, "deletions again")
                                                     ELSE Throws(f)

ReadDeletionsAgain(f) ==
    /\ freeze[f].at = "deletions again"
    /\ IF freeze[f].deleted = Deleted(Workspace)
       THEN Proceeds(f, IF freeze[f].source = "workspace_change" THEN "status again" ELSE "recheck")
       ELSE Throws(f)

ReadStatusAgain(f) ==
    /\ freeze[f].at = "status again"
    /\ IF /\ freeze[f].status = Status(Workspace)
          /\ freeze[f].selection = Selection(Workspace)
          /\ freeze[f].deleted = Deleted(Workspace)
          /\ freeze[f].status.untracked \subseteq freeze[f].selection
       THEN Proceeds(f, "recheck")
       ELSE Throws(f)

\* So must every file that was captured.
BugNoSecondRead(f) == {}
Unchecked(f) == {p \in Paths : freeze[f].entries[p].kind = "file"} \ freeze[f].checked

RecheckFile(f) ==
    /\ freeze[f].at = "recheck" /\ Unchecked(f) # {}
    /\ LET p == InOrder(Unchecked(f)) IN
       \/ /\ Unchanged(freeze[f].entries[p], Workspace[p])
          /\ freeze' = [freeze EXCEPT ![f].checked = @ \cup {p}]
          /\ UNCHANGED <<history, staged, published, reaping>>
       \/ ~ Unchanged(freeze[f].entries[p], Workspace[p]) /\ Throws(f)

AcceptWorkspace(f) ==
    /\ freeze[f].at = "recheck" /\ Unchecked(f) = {}
    /\ IF \/ freeze[f].source = "workspace_snapshot"
          \/ freeze[f].expected = Fingerprint(freeze[f].status, freeze[f].entries)
       THEN Proceeds(f, "manifest")
       ELSE Throws(f)

-----------------------------------------------------------------------------
(* Publication. *)

\* The manifest, which is also its digest: rootDigest names the directory.
Digest(f) ==
    [source |-> freeze[f].source, deleted |-> freeze[f].deleted,
     entries |-> [p \in Paths |->
         [kind |-> freeze[f].entries[p].kind, bytes |-> freeze[f].entries[p].bytes]]]
Subjects(digest) == {s \in published : s.digest = digest}

\* verifyPublishedSnapshot: the manifest and exactly the files it lists.
Verified(subject) ==
    /\ subject.files[Manifest] = subject.digest
    /\ \A p \in Paths : subject.files[p] =
          IF subject.digest.entries[p].kind = "file" THEN subject.digest.entries[p].bytes ELSE Gone

\* The manifest is written into a directory that must be there.
WriteManifest(f) ==
    /\ freeze[f].at = "manifest"
    /\ IF staged[f] = Gone THEN Throws(f)
       ELSE /\ Goes(f, "rename")
            /\ Writes(f, [file \in {Manifest} |-> Digest(f)])
            /\ UNCHANGED <<history, published, reaping>>

\* rename publishes the directory as it is, unless the same Subject was
\* published before, which is then the one verified.
PublishSubject(f) ==
    /\ freeze[f].at = "rename" /\ staged[f] # Gone /\ Subjects(Digest(f)) = {}
    /\ published' = published \cup {[digest |-> Digest(f), files |-> staged[f]]}
    /\ staged' = [staged EXCEPT ![f] = Gone]
    /\ Goes(f, "verify")
    /\ UNCHANGED <<history, reaping>>

UsePublished(f) ==
    /\ freeze[f].at = "rename" /\ staged[f] # Gone /\ Subjects(Digest(f)) # {}
    /\ Goes(f, IF \A s \in Subjects(Digest(f)) : Verified(s) THEN "done" ELSE "failed")
    /\ staged' = [staged EXCEPT ![f] = Gone]
    /\ UNCHANGED <<history, published, reaping>>

RenameFails(f) == freeze[f].at = "rename" /\ staged[f] = Gone /\ Throws(f)

VerifySubject(f) ==
    /\ freeze[f].at = "verify"
    /\ IF \A s \in Subjects(Digest(f)) : Verified(s) THEN Proceeds(f, "done") ELSE Throws(f)

-----------------------------------------------------------------------------
(* Failures. *)

\* A limit is exceeded, Git or a read fails, or the caller aborts.
FreezeFails(f) == Calling(f) /\ Throws(f)

\* The process ends.  What is on disk stays.
CrashFreeze(f) == Calling(f) /\ Proceeds(f, "crashed")

\* reapSubjectStaging lists the directories and removes them file by file.
ListStaging ==
    /\ reaping = {}
    /\ \E f \in Freezes : staged[f] # Gone
    /\ reaping' = {f \in Freezes : staged[f] # Gone}
    /\ UNCHANGED <<history, freeze, staged, published>>

RemoveStaged(f) ==
    /\ f \in reaping
    /\ \/ /\ staged[f] # Gone
          /\ \E file \in {x \in DOMAIN staged[f] : staged[f][x] # Gone} :
                staged' = [staged EXCEPT ![f][file] = Gone]
          /\ UNCHANGED reaping
       \/ /\ staged[f] # Gone => staged[f] = NoFiles
          /\ staged' = [staged EXCEPT ![f] = Gone]
          /\ reaping' = reaping \ {f}
    /\ UNCHANGED <<history, freeze, published>>

FreezeNext ==
    \/ \E p \in Paths : Edit(p)
    \/ \E f \in Freezes :
          \/ CallFreezeSubject(f) \/ MaterializeGitTree(f) \/ ReadStatus(f)
          \/ ReadSelection(f) \/ ReadDeletions(f) \/ CaptureLink(f) \/ OpenFile(f)
          \/ ReadFile(f) \/ ReadSelectionAgain(f) \/ ReadDeletionsAgain(f)
          \/ ReadStatusAgain(f) \/ RecheckFile(f) \/ AcceptWorkspace(f)
          \/ WriteManifest(f) \/ PublishSubject(f) \/ UsePublished(f) \/ RenameFails(f)
          \/ VerifySubject(f) \/ FreezeFails(f) \/ CrashFreeze(f) \/ RemoveStaged(f)
    \/ ListStaging

FreezeSpec == FreezeInit /\ [][FreezeNext]_freezeVars

-----------------------------------------------------------------------------
(* Properties. *)

\* A Subject that was frozen from a workspace is one the workspace has been: at
\* one instant, with no edit between two of them, all its files were what the
\* Subject says (links are only inventoried and are not promised), and what is
\* published under its digest is the manifest and exactly those files, although
\* edits, a second freeze of the same tree, crashes and the removal of staging
\* directories fall between any two steps (ADR 0264).
FrozenIsOneInstant ==
    \A f \in Freezes : freeze[f].at = "done" =>
        /\ \E s \in Subjects(Digest(f)) : Verified(s)
        /\ freeze[f].source # "git_revision" =>
              \E i \in 1 .. Len(history) : \A p \in Paths :
                  freeze[f].entries[p].kind = "file" => history[i][p] = freeze[f].entries[p]
=============================================================================
