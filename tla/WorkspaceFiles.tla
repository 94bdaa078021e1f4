--------------------------- MODULE WorkspaceFiles ---------------------------
(***************************************************************************)
(* The file tools and what they remember: the text cache (cache.py), the   *)
(* read-before-edit gate (tools/file_state_cache.py), and the backups and  *)
(* checkpoints behind /rewind (filehistory/history.py).  Between two steps *)
(* of the agent a command, the user or another program may change a file.  *)
(*                                                                         *)
(* The content of a file is a number, 0 when there is no file; every write *)
(* of new text makes a new number.  A recorded modification time is kept   *)
(* as whether the file has changed since.                                  *)
(***************************************************************************)
EXTENDS Naturals, Sequences, FiniteSets

CONSTANTS
    Files,
    MaxTexts,       \* bound: texts written
    MaxSnapshots,   \* 100 in the code
    MaxVersions     \* bound: backups of a file

ASSUME FilesAssumption == MaxSnapshots \in Nat \ {0} /\ MaxVersions \in Nat \ {0}

VARIABLES
    disk,               \* the content of each file
    texts,              \* number of texts written so far
    textCache,          \* FileCache: the text of a file, 0 if not cached
    seenAt,             \* FileStateCache: no time recorded, the file's, or an older one
    shownText,          \* ghost: what the model was last shown of a file, or wrote
    tracked,            \* FileHistory._tracked: the latest version of a file
    backups,            \* content of backup v of a file, 0 if there is no such file
    checkpoints,          \* FileHistory._snapshots, each with what was on disk (ghost)
    rewound             \* ghost: the last step was a rewind, and to what

diskVars == <<disk, texts>>
historyVars == <<tracked, backups, checkpoints>>
filesVars == <<diskVars, textCache, seenAt, shownText, historyVars, rewound>>

FilesInit ==
    /\ disk \in [Files -> {0, 1}] /\ texts = 1
    /\ textCache = [f \in Files |-> 0] /\ seenAt = [f \in Files |-> "none"]
    /\ shownText = [f \in Files |-> 0]
    /\ tracked = [f \in Files |-> 0]
    /\ backups = [f \in Files |-> [v \in 1 .. MaxVersions |-> 0]]
    /\ checkpoints = <<>> /\ rewound = 0

Older(seen) == IF seen = "same" THEN "older" ELSE seen

-----------------------------------------------------------------------------
(* The tools. *)

\* The text comes from the cache if it is there; the modification time that is
\* recorded beside it is the file's own.
ReadFile(f) ==
    /\ disk[f] # 0
    /\ LET text == IF textCache[f] # 0 THEN textCache[f] ELSE disk[f]
       IN  /\ textCache' = [textCache EXCEPT ![f] = text]
           /\ shownText' = [shownText EXCEPT ![f] = text]
    /\ seenAt' = [seenAt EXCEPT ![f] = "same"]
    /\ rewound' = 0
    /\ UNCHANGED <<diskVars, historyVars>>

\* track_edit: the content before the edit becomes the next version, even of
\* an edit that is refused.  Of a file that is not there nothing is written.
TrackEdit(f) ==
    /\ tracked[f] < MaxVersions
    /\ tracked' = [tracked EXCEPT ![f] = @ + 1]
    /\ backups' = IF disk[f] = 0 THEN backups ELSE [backups EXCEPT ![f][tracked[f] + 1] = disk[f]]

\* FileStateCache.check: read before, and not modified since.
Gate(f) == seenAt[f] = "same"

Written(f) ==
    /\ texts < MaxTexts /\ texts' = texts + 1
    /\ disk' = [disk EXCEPT ![f] = texts']
    /\ textCache' = [textCache EXCEPT ![f] = 0]
    /\ seenAt' = [seenAt EXCEPT ![f] = "same"]
    /\ shownText' = [shownText EXCEPT ![f] = texts']

Refused == UNCHANGED <<diskVars, textCache, seenAt, shownText>>

\* EditFile: refused for a missing file, by the gate, or because the old text
\* does not occur exactly once.
EditFile(f) ==
    /\ TrackEdit(f) /\ rewound' = 0
    /\ \/ disk[f] # 0 /\ Gate(f) /\ Written(f)
       \/ Refused
    /\ UNCHANGED checkpoints

\* WriteFile: an existing file must pass the gate.
WriteFile(f) ==
    /\ TrackEdit(f) /\ rewound' = 0
    /\ \/ (disk[f] = 0 \/ Gate(f)) /\ Written(f)
       \/ disk[f] # 0 /\ ~Gate(f) /\ Refused
    /\ UNCHANGED checkpoints

\* A command, the user or another program writes or removes a file.
Outside(f) ==
    /\ rewound' = 0
    /\ \/ texts < MaxTexts /\ texts' = texts + 1 /\ disk' = [disk EXCEPT ![f] = texts']
       \/ disk[f] # 0 /\ disk' = [disk EXCEPT ![f] = 0] /\ UNCHANGED texts
    /\ seenAt' = [seenAt EXCEPT ![f] = Older(@)]
    /\ UNCHANGED <<textCache, shownText, historyVars>>

-----------------------------------------------------------------------------
(* Checkpoints. *)

Tracked == {f \in Files : tracked[f] > 0}

\* make_snapshot, when a run completes: a missing backup of the current version
\* is filled with the current content; the oldest snapshot may drop out.
MakeSnapshot ==
    /\ rewound' = 0
    /\ backups' = [f \in Files |->
            IF f \in Tracked /\ backups[f][tracked[f]] = 0
            THEN [backups[f] EXCEPT ![tracked[f]] = disk[f]] ELSE backups[f]]
    /\ LET all == Append(checkpoints, [version |-> [f \in Tracked |-> tracked[f]], atDisk |-> disk])
       IN  checkpoints' = SubSeq(all, IF Len(all) > MaxSnapshots THEN 2 ELSE 1, Len(all))
    /\ UNCHANGED <<diskVars, textCache, seenAt, shownText, tracked>>

\* Mutant of Rewind: the snapshots after the chosen one are kept
Rewind_KeepsLater(i) ==
    /\ i \in DOMAIN checkpoints /\ rewound' = i
    /\ LET s == checkpoints[i].version
           Back(f) == IF f \in DOMAIN s THEN backups[f][s[f]] ELSE disk[f]
       IN  /\ disk' = [f \in Files |-> Back(f)]
           /\ seenAt' = [f \in Files |-> IF Back(f) # disk[f] THEN Older(seenAt[f]) ELSE seenAt[f]]
           /\ tracked' = [f \in Files |-> IF f \in DOMAIN s THEN s[f] ELSE tracked[f]]
    /\ UNCHANGED <<checkpoints, texts, textCache, shownText, backups>>

\* rewind: every file of the snapshot gets the content of its backup, or is
\* removed if there is none; later snapshots are dropped and the versions go
\* back, so that the next edits reuse their numbers.  No cache is told.
Rewind(i) ==
    /\ i \in DOMAIN checkpoints /\ rewound' = i
    /\ LET s == checkpoints[i].version
           Back(f) == IF f \in DOMAIN s THEN backups[f][s[f]] ELSE disk[f]
       IN  /\ disk' = [f \in Files |-> Back(f)]
           /\ seenAt' = [f \in Files |-> IF Back(f) # disk[f] THEN Older(seenAt[f]) ELSE seenAt[f]]
           /\ tracked' = [f \in Files |-> IF f \in DOMAIN s THEN s[f] ELSE tracked[f]]
    /\ checkpoints' = SubSeq(checkpoints, 1, i)
    /\ UNCHANGED <<texts, textCache, shownText, backups>>

FilesNext ==
    \/ \E f \in Files : ReadFile(f) \/ EditFile(f) \/ WriteFile(f) \/ Outside(f)
    \/ MakeSnapshot
    \/ \E i \in 1 .. MaxSnapshots : Rewind(i)
FilesSpec == FilesInit /\ [][FilesNext]_filesVars

-----------------------------------------------------------------------------
\* A backup that a checkpoint refers to is never written again, although rewinding
\* makes the next edits reuse version numbers (FileHistory.track_edit,
\* make_snapshot, rewind).
CheckpointsKeepTheirBackups ==
    [][\A i \in DOMAIN checkpoints : \A f \in DOMAIN checkpoints[i].version :
          LET v == checkpoints[i].version[f]
          IN  backups[f][v] = 0 \/ backups'[f][v] = backups[f][v]]_filesVars

\* The agent never replaces a text it was not shown: "Gate 2: file must not
\* have been modified since the read" (tools/file_state_cache.py:12).
NoBlindOverwrite ==
    [][\A f \in Files : (EditFile(f) \/ WriteFile(f)) /\ disk[f] # 0 /\ disk'[f] # disk[f]
            => shownText[f] = disk[f]]_filesVars

\* "Rewind to a previous checkpoint" (commands/handlers/rewind.py:74): every
\* file the checkpoint knows has the content it had when it was taken.
RewindRestoresCheckpoint ==
    rewound # 0 => LET s == checkpoints[rewound]
                   IN  \A f \in DOMAIN s.version : disk[f] = s.atDisk[f]
=============================================================================
