-------------------------- MODULE AttemptWorkspace --------------------------
(***************************************************************************)
(* The files of one Attempt, from the Repository's base tree to the commit *)
(* that is delivered: the archive is normalised and recorded in a trusted  *)
(* manifest, split and seeded into the workspace volume, changed by the    *)
(* Agent's file tools (through a helper process in the volume holder) and  *)
(* by its commands, exported, scanned, compared with the manifest, and     *)
(* written as a Git tree over the base tree.                               *)
(*                                                                         *)
(* An entry is what a manifest can tell apart: its kind, its text, its     *)
(* line endings, whether it is executable, and a link's target (the text   *)
(* of a "symlink").  Kinds "fifo", "escape" (a symlink out of the          *)
(* workspace) and "lfs" (a Git LFS pointer) have no further detail.        *)
(***************************************************************************)
EXTENDS Naturals, FiniteSets

CONSTANTS
    Ordinary,      \* paths anybody may change
    Env,           \* a quarantined path the tools do not refuse (.env)
    Hub,           \* a path under .github; a "symlink" there is .github itself
    Modules,       \* .gitmodules
    Temp,          \* the helper's temporary file (.mewcode-write-*)
    Texts,         \* texts of files
    BaseTrees,     \* the base trees considered
    MaxFiles,      \* most files one Delivery may change
    MaxWork        \* bound: writes, edits and commands of the Attempt

Paths == Ordinary \cup {Env, Hub, Modules, Temp}

LineEnds == {"lf", "crlf"}

\* The entry kinds of an archive member, and none.
Odd(kind) == [kind |-> kind, text |-> "", eol |-> "lf", exec |-> FALSE]

Absent == Odd("absent")

\* The mode of a member: executable for anybody or not.
Regular(text, eol, exec) ==
    [kind |-> "file", text |-> text, eol |-> eol, exec |-> exec]

LinkTo(path) == [kind |-> "symlink", text |-> path, eol |-> "lf", exec |-> FALSE]

\* A file with another name in the workspace.
HardLink(text) == [kind |-> "hardlink", text |-> text, eol |-> "lf", exec |-> FALSE]

Entries == {Absent} \cup {Odd(k) : k \in {"fifo", "escape", "lfs"}}
           \cup {HardLink(t) : t \in Texts}
           \cup {LinkTo(p) : p \in Ordinary}
           \cup {Regular(t, e, x) : t \in Texts, e \in LineEnds, x \in BOOLEAN}

\* The special paths are paths of their own; the temporary file's name is one
\* that mkstemp found free.
ASSUME WorkspaceConstants ==
    /\ Ordinary \cap {Env, Hub, Modules, Temp} = {}
    /\ Env \notin {Hub, Modules, Temp} /\ Hub \notin {Modules, Temp} /\ Modules # Temp
    /\ BaseTrees \subseteq [Paths -> Entries] /\ \A tree \in BaseTrees : tree[Temp] = Absent
    /\ MaxWork \in Nat

NoVersion == <<>>

VARIABLES
    base,       \* the base commit's tree
    stage,      \* how far the Attempt has come
    work,       \* the workspace volume, .github's volume included
    versions,   \* the tools' versions: path -> version last read or written
    helper,     \* a helper whose request was given up, before its os.replace
    made,       \* paths a tool or a command of the Attempt has changed
    worked,     \* writes, edits and commands so far
    cut,        \* a helper was killed between its temporary file and its replace
    listed,     \* the changed paths of the Attempt's diff
    outcome,    \* what became of the changes
    commit,     \* the delivered commit's tree
    known,      \* history: texts a tool has read, or written for the Agent
    left,       \* history: what a command last put at a path
    overtaken   \* history: paths a late helper has replaced since

historyVars == <<known, left, overtaken>>

filesVars == <<base, stage, work, versions, helper, made, worked, cut, listed, outcome, commit,
               known, left, overtaken>>

-----------------------------------------------------------------------------
(* The Repository's archive becomes the workspace.                         *)

\* Paths that never enter a workspace and may not leave one.
Quarantined == {Env}

\* An entry that neither a Repository nor a workspace may hold.
Unsupported(entry) == entry.kind \in {"fifo", "escape", "lfs"}

\* What normalisation refuses: the Attempt fails before it has a workspace.
SourceRefused ==
    \E p \in Paths \ Quarantined :
        \/ Unsupported(base[p])
        \/ base[p].kind = "hardlink"
        \/ p = Modules /\ base[p] # Absent

\* The trusted manifest, and the normalised archive it was written with.
Manifest == [p \in Paths |-> IF p \in Quarantined THEN Absent ELSE base[p]]

\* .github goes to a read-only volume of its own; .github itself is skipped,
\* so that one that is no directory is lost.
Split(tree) == [tree EXCEPT ![Hub] = IF @.kind = "symlink" THEN Absent ELSE @]

WorkspaceInit ==
    /\ base \in BaseTrees
    /\ stage = "source"
    /\ work = [p \in Paths |-> Absent]
    /\ versions = [p \in Paths |-> NoVersion]
    /\ helper = Absent
    /\ made = {} /\ worked = 0 /\ cut = FALSE /\ listed = {}
    /\ outcome = "none"
    /\ commit = base
    /\ known = {} /\ left = [p \in Paths |-> Absent] /\ overtaken = {}

Prepare ==
    /\ stage = "source"
    /\ IF SourceRefused
         THEN /\ stage' = "over" /\ outcome' = "refused"
              /\ UNCHANGED work
         ELSE /\ stage' = "working"
              /\ work' = Split(Manifest)
              /\ UNCHANGED outcome
    /\ UNCHANGED <<base, versions, helper, made, worked, cut, listed, commit, historyVars>>

-----------------------------------------------------------------------------
(* The Agent's file tools.                                                 *)

\* The file a path stands for once its links are followed.
Target(p) == IF work[p].kind = "symlink" THEN work[p].text ELSE p

\* Path.is_file, and the text can be read.
Readable(p) == work[Target(p)].kind \in {"file", "hardlink", "lfs"}

\* The version of a text.  A file is read with universal newlines, a tool's
\* own content is hashed as it is.
Version(text, eol) == <<text, eol>>

VersionOnDisk(p) == Version(work[Target(p)].text, "lf")

\* The paths the tools read and write: the root, .git and .mewcode are refused
\* and stand for no path here, .github is only read.
Writable(p) == p \in Ordinary \cup {Env, Modules}

\* Reading .github changes nothing that is modelled here.  The version is of the
\* whole file, whatever part of it is shown.
ReadFile(p) ==
    /\ stage = "working" /\ Writable(p)
    /\ Readable(p)
    /\ versions' = [versions EXCEPT ![p] = VersionOnDisk(p)]
    /\ known' = known \cup {work[Target(p)].text}
    /\ UNCHANGED <<base, stage, work, helper, made, worked, cut, listed, outcome, commit>>
    /\ UNCHANGED <<left, overtaken>>

\* Mutant of MayWrite: a file that was read once may be overwritten
MayWrite_AnyVersion(p) ==
    IF work[Target(p)].kind = "absent" THEN TRUE
    ELSE Readable(p) /\ versions[p] # NoVersion

\* A file is overwritten only with the version last read; a path at which
\* nothing exists, a dangling link included, needs none.
MayWrite(p) ==
    IF work[Target(p)].kind = "absent" THEN TRUE
    ELSE Readable(p) /\ versions[p] = VersionOnDisk(p)

MayEdit(p) ==
    Readable(p) /\ versions[p] # NoVersion /\ versions[p] = VersionOnDisk(p)

\* mkstemp's file has mode 0600 and takes the place of what was at q.  A
\* request that is given up after the check is sent again and answered, while
\* the first helper is still before its replace; or it is past it, and the
\* second one finds a file that changed since it was read.
Replace(p, q, entry) ==
    /\ worked < MaxWork /\ worked' = worked + 1
    /\ made' = made \cup {q}
    /\ known' = known \cup {entry.text}
    /\ \/ /\ work' = [work EXCEPT ![q] = entry]
          /\ versions' = [versions EXCEPT ![p] = Version(entry.text, entry.eol)]
          /\ UNCHANGED helper
       \/ /\ helper.kind = "absent" /\ q \in Ordinary
          /\ work' = [work EXCEPT ![q] = entry, ![Temp] = entry]
          /\ versions' = [versions EXCEPT ![p] = Version(entry.text, entry.eol)]
          /\ helper' = LinkTo(q)
       \/ /\ versions[p] # Version(entry.text, "lf")
          /\ work' = [work EXCEPT ![q] = entry]
          /\ UNCHANGED <<versions, helper>>
    /\ UNCHANGED <<base, stage, cut, listed, outcome, commit, left, overtaken>>

\* WriteFile replaces what is at the path itself, a link included.
WriteFile(p, text, eol) ==
    /\ stage = "working" /\ Writable(p)
    /\ MayWrite(p)
    /\ Replace(p, p, Regular(text, eol, FALSE))

\* EditFile changes a text that was read with universal newlines and writes it
\* without any, to the file the path stands for.
EditFile(p, text) ==
    /\ stage = "working" /\ Writable(p)
    /\ MayEdit(p) /\ text # work[Target(p)].text
    /\ Replace(p, Target(p), Regular(text, "lf", FALSE))

\* The helper whose request was given up makes its replace ...
LateReplace ==
    /\ stage = "working" /\ helper.kind = "symlink"
    /\ work' = [work EXCEPT ![helper.text] = work[Temp], ![Temp] = Absent]
    /\ helper' = Absent
    /\ overtaken' = overtaken \cup {helper.text}
    /\ UNCHANGED <<base, stage, versions, made, worked, cut, listed, outcome, commit, known, left>>

\* ... or is killed when the volume holder is restarted for a later request.
HolderRestarts ==
    /\ stage = "working" /\ helper.kind = "symlink"
    /\ helper' = Absent /\ cut' = TRUE
    /\ UNCHANGED <<base, stage, work, versions, made, worked, listed, outcome, commit, historyVars>>

\* A command may do anything to the volume; .github is mounted read-only.
Command(p, entry) ==
    /\ stage = "working"
    /\ p \in Ordinary \cup {Env, Modules}
    /\ p \in Ordinary \/ entry.kind \in {"absent", "file"}
    /\ entry # LinkTo(p) /\ entry # work[p]
    /\ worked < MaxWork /\ worked' = worked + 1
    /\ work' = [work EXCEPT ![p] = entry]
    /\ made' = made \cup {p}
    /\ left' = [left EXCEPT ![p] = entry] /\ overtaken' = overtaken \ {p}
    /\ UNCHANGED <<base, stage, versions, helper, cut, listed, outcome, commit, known>>

-----------------------------------------------------------------------------
(* The workspace becomes a commit.                                         *)

\* A hard link is exported as a file of its own.
Rebased(entry) ==
    IF entry.kind = "hardlink" THEN [entry EXCEPT !.kind = "file"] ELSE entry

Exported == [p \in Paths |-> Rebased(work[p])]

\* What the scan of the exported archive refuses.
ScanRefused ==
    \E p \in Paths : \/ p \in Quarantined /\ Exported[p] # Absent
                     \/ Unsupported(Exported[p])

\* Mutant of Changes: only the exported paths are compared, removals are missed
Changes_PresentOnly == {p \in {x \in Paths : Exported[x] # Absent} : Manifest[p] # Exported[p]}

\* Paths whose entries differ, those only one of the two trees has included.
Changes == {p \in Paths : Manifest[p] # Exported[p]}

\* What the comparison refuses.
DeliveryRefused == \/ Cardinality(Changes) > MaxFiles
                   \/ Hub \in Changes
                   \/ Modules \in Changes

\* The processor exports the workspace and renders its diff.
Review ==
    /\ stage = "working"
    /\ IF ScanRefused \/ (Changes # {} /\ DeliveryRefused)
         THEN stage' = "over" /\ outcome' = "refused" /\ UNCHANGED listed
       ELSE IF Changes = {}
         THEN stage' = "over" /\ outcome' = "no_changes" /\ UNCHANGED listed
       ELSE stage' = "reviewed" /\ listed' = Changes /\ UNCHANGED outcome
    /\ UNCHANGED <<base, work, versions, helper, made, worked, cut, commit, historyVars>>

\* A tree entry per change over the base tree; one without a blob removes its
\* path.
TreeOver(tree, changes) ==
    [p \in Paths |-> IF p \in changes THEN Exported[p] ELSE tree[p]]

\* The adapter scans and compares the same archive again and commits it.
Publish ==
    /\ stage = "reviewed"
    /\ commit' = TreeOver(base, Changes)
    /\ outcome' = "delivered" /\ stage' = "over"
    /\ UNCHANGED <<base, work, versions, helper, made, worked, cut, listed, historyVars>>

WorkspaceNext ==
    \/ Prepare
    \/ \E p \in Paths : \/ ReadFile(p)
                        \/ \E t \in Texts : \/ EditFile(p, t)
                                            \/ \E e \in LineEnds : WriteFile(p, t, e)
                        \/ \E entry \in Entries : Command(p, entry)
    \/ LateReplace \/ HolderRestarts
    \/ Review \/ Publish

WorkspaceSpec == WorkspaceInit /\ [][WorkspaceNext]_filesVars

-----------------------------------------------------------------------------
(* Properties.                                                             *)

Versions == {NoVersion} \cup ((Texts \cup {""}) \X LineEnds)

WorkspaceTypeOK ==
    /\ base \in BaseTrees
    /\ stage \in {"source", "working", "reviewed", "over"}
    /\ work \in [Paths -> Entries] /\ commit \in [Paths -> Entries]
    /\ versions \in [Paths -> Versions]
    /\ helper \in {Absent} \cup {LinkTo(p) : p \in Ordinary}
    /\ made \subseteq Paths /\ worked \in 0..MaxWork /\ listed \subseteq Paths /\ cut \in BOOLEAN
    /\ outcome \in {"none", "refused", "no_changes", "delivered"}
    /\ known \subseteq Texts \cup {""} /\ left \in [Paths -> Entries] /\ overtaken \subseteq Paths

\* The delivered commit is the workspace as it was exported, except that what
\* was quarantined from the base tree stays as it was: normalisation, split,
\* seeding, export, scan, comparison and tree entries lose and add nothing
\* (scm/archive.py, execution/docker.py, scm/adapter.py), and the published
\* diff lists exactly the paths that differ from the base commit.
CommitIsTheWorkspace ==
    outcome = "delivered" =>
        /\ \A p \in Paths \ Quarantined : commit[p] = Exported[p]
        /\ \A p \in Quarantined : commit[p] = base[p]
        /\ listed = {p \in Paths : commit[p] # base[p]}

\* A Delivery, or a refusal of one after review, is about paths the Attempt
\* changed: the way through two archives invents no change, save a .github
\* that is no directory (it is not seeded) and the temporary file of a helper
\* that was killed or is still to replace (docker.py:283, archive.py:362,
\* workspace_helper.py:105).
ChangesWereMade ==
    stage = "reviewed" \/ outcome = "refused" =>
        \/ base[Hub].kind = "symlink"
        \/ SourceRefused
        \/ made # {} /\ listed \ made \subseteq
                IF cut \/ helper.kind = "symlink" THEN {Temp} ELSE {}

\* A file that a command wrote is in the commit as it was left, mode and line
\* endings included, as long as no tool has read its text (in whole or in part)
\* or written the same: the tools know a file by names, links and versions that
\* may be older than the command, and their requests are sent again
\* (workspace_helper.py:121-151, docker.py:1092-1136).  Only a helper that
\* outlived its request may replace it.
UnreadWorkIsDelivered ==
    outcome = "delivered" =>
        \A p \in Ordinary :
            left[p].kind = "file" /\ left[p].text \notin known /\ p \notin overtaken
                => commit[p] = left[p]

\* The description of EditFile says that it replaces an exact string in a file:
\* line endings and mode are not the string's (execution/tools.py:116).
EditChangesOnlyTheString ==
    [][\A p \in Paths, t \in Texts :
         EditFile(p, t) => work'[Target(p)] = [work[Target(p)] EXCEPT !.text = t]]_filesVars

=============================================================================
