---------------------------- MODULE DeliveryProofs ----------------------------
(***************************************************************************)
(* Proofs about the way from a Repository to a Draft Pull Request, for any *)
(* number of callers, Attempts, paths and texts, and any base tree:        *)
(*                                                                         *)
(*   - tokens and archives (RepositorySource).  TokenIsFresh alone is not  *)
(*     inductive: a caller read the clock before it waited for the lock,   *)
(*     so the lock, the issue and what is cached have to be related;       *)
(*   - the workspace (AttemptWorkspace).  CommitIsTheWorkspace and         *)
(*     ChangesWereMade speak of the end; Seeded and Reviewed say what each *)
(*     stage has kept until then;                                          *)
(*   - publishing (DeliveryPublish).  While nobody interferes the branch   *)
(*     is written once, at most one pull request exists, and every call    *)
(*     works with the branch's one head.  Converging says so for the calls *)
(*     in flight, which OneDelivery and ConvergesUnlessDisturbed, speaking *)
(*     of the calls that ended, do not.                                    *)
(***************************************************************************)
EXTENDS DeliveryPublish, AttemptWorkspace, RepositorySource, SequenceTheorems, TLAPS

-----------------------------------------------------------------------------
(* Tokens and archives.                                                    *)

\* The inductive invariant.  TokenIsFresh alone is not inductive: what a
\* caller that waits for the lock was told by an older clock must be related to
\* the expiry it will find there, and the clock may not run away from an issue.

\* The lock is held by the caller that issues, and by nobody else.
OneIssuer ==
    \A p \in Processes, c \in Callers :
        lock[p] = c <=> at[c] = "issue" /\ ProcessOf(c) = p

\* A token is issued because what was cached has run out; an issue ends in time.
IssueInTime ==
    \A c \in Callers : at[c] = "issue" =>
        /\ since[c] <= clock /\ clock <= since[c] + IssueTime
        /\ cached[ProcessOf(c)] <= since[c] + Margin

\* A caller that asks for a token finds one it will not take, or a fresh one.
AskedInTime ==
    \A c \in Callers : at[c] = "token" =>
        /\ since[c] <= clock
        /\ \/ cached[ProcessOf(c)] <= since[c] + Margin
           \/ cached[ProcessOf(c)] > clock + Margin

\* What an Attempt has on disk, by where it is.
Archives ==
    /\ NothingIsLeft
    /\ \A c \in Preparations :
          /\ at[c] # "over" => ~ready[c]
          /\ at[c] \notin {"download", "normalise", "over"} => raw[c] = "none"

SourceIInv ==
    SourceTypeOK /\ OneIssuer /\ IssueInTime /\ AskedInTime /\ TokenIsFresh /\ Archives

\* Looking at the installation, and asking for a token.
LEMMA ReachingStep ==
    ASSUME SourceIInv, NEW c \in Callers, Enter(c) \/ Installation(c)
    PROVE  SourceIInv'
<1> USE SourceConstants DEF SourceIInv, Goes, Ends, NoAnswer, Callers, Processes, ProcessOf
<1>1. CASE Enter(c)
  <2>1. SourceTypeOK'
    BY <1>1 DEF Enter, SourceTypeOK, IssueInTime
  <2>2. OneIssuer'
    BY <1>1 DEF Enter, OneIssuer, SourceTypeOK
  <2>3. IssueInTime'
    BY <1>1 DEF Enter, IssueInTime, OneIssuer, AskedInTime, SourceTypeOK, Usable
  <2>4. AskedInTime'
    BY <1>1 DEF Enter, AskedInTime, OneIssuer, IssueInTime, SourceTypeOK, Usable
  <2>5. TokenIsFresh'
    BY <1>1 DEF Enter, TokenIsFresh, SourceTypeOK, AskedInTime, IssueInTime, Usable
  <2>6. Archives'
    BY <1>1 DEF Enter, Archives, SourceTypeOK, NothingIsLeft
  <2>7. QED BY <2>1, <2>2, <2>3, <2>4, <2>5, <2>6
<1>2. CASE Installation(c)
  <2>1. SourceTypeOK'
    BY <1>2 DEF Installation, SourceTypeOK, IssueInTime
  <2>2. OneIssuer'
    BY <1>2 DEF Installation, OneIssuer, SourceTypeOK
  <2>3. IssueInTime'
    BY <1>2 DEF Installation, IssueInTime, OneIssuer, AskedInTime, SourceTypeOK, Usable
  <2>4. AskedInTime'
    BY <1>2 DEF Installation, AskedInTime, OneIssuer, IssueInTime, SourceTypeOK, Usable
  <2>5. TokenIsFresh'
    BY <1>2 DEF Installation, TokenIsFresh, SourceTypeOK, AskedInTime, IssueInTime, Usable
  <2>6. Archives'
    BY <1>2 DEF Installation, Archives, SourceTypeOK, NothingIsLeft
  <2>7. QED BY <2>1, <2>2, <2>3, <2>4, <2>5, <2>6
<1>3. QED BY <1>1, <1>2

\* A cached token is taken.
LEMMA CachedStep ==
    ASSUME SourceIInv, NEW c \in Callers, Cached(c)
    PROVE  SourceIInv'
<1> USE SourceConstants DEF SourceIInv, Cached, Goes, Ends, NoAnswer, Callers, Processes, ProcessOf
<1>1. SourceTypeOK'
  BY DEF SourceTypeOK, IssueInTime
<1>2. OneIssuer'
  BY DEF OneIssuer, SourceTypeOK
<1>3. IssueInTime'
  BY DEF IssueInTime, OneIssuer, AskedInTime, SourceTypeOK, Usable
<1>4. AskedInTime'
  BY DEF AskedInTime, OneIssuer, IssueInTime, SourceTypeOK, Usable
<1>5. TokenIsFresh'
  BY DEF TokenIsFresh, SourceTypeOK, AskedInTime, IssueInTime, Usable
<1>6. Archives'
  BY DEF Archives, SourceTypeOK, NothingIsLeft
<1>7. QED BY <1>1, <1>2, <1>3, <1>4, <1>5, <1>6

\* A token is asked of GitHub, under the lock.
LEMMA BeginIssueStep ==
    ASSUME SourceIInv, NEW c \in Callers, BeginIssue(c)
    PROVE  SourceIInv'
<1> USE SourceConstants DEF SourceIInv, BeginIssue, Goes, Ends, NoAnswer, Callers, Processes, ProcessOf
<1>1. SourceTypeOK'
  BY DEF SourceTypeOK, IssueInTime
<1>2. OneIssuer'
  BY DEF OneIssuer, SourceTypeOK
<1>3. IssueInTime'
  BY DEF IssueInTime, OneIssuer, AskedInTime, SourceTypeOK, Usable
<1>4. AskedInTime'
  BY DEF AskedInTime, OneIssuer, IssueInTime, SourceTypeOK, Usable
<1>5. TokenIsFresh'
  BY DEF TokenIsFresh, SourceTypeOK, AskedInTime, IssueInTime, Usable
<1>6. Archives'
  BY DEF Archives, SourceTypeOK, NothingIsLeft
<1>7. QED BY <1>1, <1>2, <1>3, <1>4, <1>5, <1>6

\* The token comes, and has been on its way no longer than IssueTime.
LEMMA IssuedStep ==
    ASSUME SourceIInv, NEW c \in Callers, Issued(c)
    PROVE  SourceIInv'
<1> USE SourceConstants DEF SourceIInv, Issued, Goes, Ends, NoAnswer, Callers, Processes, ProcessOf
<1>1. SourceTypeOK'
  BY DEF SourceTypeOK, IssueInTime
<1>2. OneIssuer'
  BY DEF OneIssuer, SourceTypeOK
<1>3. IssueInTime'
  BY DEF IssueInTime, OneIssuer, AskedInTime, SourceTypeOK, Usable
<1>4. AskedInTime'
  BY DEF AskedInTime, OneIssuer, IssueInTime, SourceTypeOK, Usable
<1>5. TokenIsFresh'
  BY DEF TokenIsFresh, SourceTypeOK, AskedInTime, IssueInTime, Usable
<1>6. Archives'
  BY DEF Archives, SourceTypeOK, NothingIsLeft
<1>7. QED BY <1>1, <1>2, <1>3, <1>4, <1>5, <1>6

\* It does not come: the lock is free again and the cache as it was.
LEMMA IssueFailsStep ==
    ASSUME SourceIInv, NEW c \in Callers, IssueFails(c)
    PROVE  SourceIInv'
<1> USE SourceConstants DEF SourceIInv, IssueFails, Goes, Ends, NoAnswer, Callers, Processes, ProcessOf
<1>1. SourceTypeOK'
  BY DEF SourceTypeOK, IssueInTime
<1>2. OneIssuer'
  BY DEF OneIssuer, SourceTypeOK
<1>3. IssueInTime'
  BY DEF IssueInTime, OneIssuer, AskedInTime, SourceTypeOK, Usable
<1>4. AskedInTime'
  BY DEF AskedInTime, OneIssuer, IssueInTime, SourceTypeOK, Usable
<1>5. TokenIsFresh'
  BY DEF TokenIsFresh, SourceTypeOK, AskedInTime, IssueInTime, Usable
<1>6. Archives'
  BY DEF Archives, SourceTypeOK, NothingIsLeft
<1>7. QED BY <1>1, <1>2, <1>3, <1>4, <1>5, <1>6

\* A caller leaves, wherever it waits.
LEMMA CancelStep ==
    ASSUME SourceIInv, NEW c \in Callers, Cancel(c)
    PROVE  SourceIInv'
<1> USE SourceConstants DEF SourceIInv, Cancel, Goes, Ends, NoAnswer, Callers, Processes, ProcessOf
<1>1. SourceTypeOK'
  BY DEF SourceTypeOK, IssueInTime
<1>2. OneIssuer'
  BY DEF OneIssuer, SourceTypeOK
<1>3. IssueInTime'
  BY DEF IssueInTime, OneIssuer, AskedInTime, SourceTypeOK, Usable
<1>4. AskedInTime'
  BY DEF AskedInTime, OneIssuer, IssueInTime, SourceTypeOK, Usable
<1>5. TokenIsFresh'
  BY DEF TokenIsFresh, SourceTypeOK, AskedInTime, IssueInTime, Usable
<1>6. Archives'
  BY DEF Archives, SourceTypeOK, NothingIsLeft
<1>7. QED BY <1>1, <1>2, <1>3, <1>4, <1>5, <1>6

\* The commit or the branch is read.
LEMMA LookStep ==
    ASSUME SourceIInv, NEW c \in Callers, Look(c)
    PROVE  SourceIInv'
<1> USE SourceConstants DEF SourceIInv, Look, Goes, Ends, NoAnswer, Callers, Processes, ProcessOf
<1>1. SourceTypeOK'
  BY DEF SourceTypeOK, IssueInTime
<1>2. OneIssuer'
  BY DEF OneIssuer, SourceTypeOK
<1>3. IssueInTime'
  BY DEF IssueInTime, OneIssuer, AskedInTime, SourceTypeOK, Usable
<1>4. AskedInTime'
  BY DEF AskedInTime, OneIssuer, IssueInTime, SourceTypeOK, Usable
<1>5. TokenIsFresh'
  BY DEF TokenIsFresh, SourceTypeOK, AskedInTime, IssueInTime, Usable
<1>6. Archives'
  BY DEF Archives, SourceTypeOK, NothingIsLeft
<1>7. QED BY <1>1, <1>2, <1>3, <1>4, <1>5, <1>6

\* The archive is fetched and normalised.
LEMMA ArchiveStep ==
    ASSUME SourceIInv, NEW c \in Callers, StartDownload(c) \/ Downloaded(c) \/ DownloadFails(c) \/ Normalise(c)
    PROVE  SourceIInv'
<1> USE SourceConstants DEF SourceIInv, Goes, Ends, NoAnswer, Callers, Processes, ProcessOf
<1>1. CASE StartDownload(c)
  <2>1. SourceTypeOK'
    BY <1>1 DEF StartDownload, SourceTypeOK, IssueInTime
  <2>2. OneIssuer'
    BY <1>1 DEF StartDownload, OneIssuer, SourceTypeOK
  <2>3. IssueInTime'
    BY <1>1 DEF StartDownload, IssueInTime, OneIssuer, AskedInTime, SourceTypeOK, Usable
  <2>4. AskedInTime'
    BY <1>1 DEF StartDownload, AskedInTime, OneIssuer, IssueInTime, SourceTypeOK, Usable
  <2>5. TokenIsFresh'
    BY <1>1 DEF StartDownload, TokenIsFresh, SourceTypeOK, AskedInTime, IssueInTime, Usable
  <2>6. Archives'
    BY <1>1 DEF StartDownload, Archives, SourceTypeOK, NothingIsLeft
  <2>7. QED BY <2>1, <2>2, <2>3, <2>4, <2>5, <2>6
<1>2. CASE Downloaded(c)
  <2>1. SourceTypeOK'
    BY <1>2 DEF Downloaded, SourceTypeOK, IssueInTime
  <2>2. OneIssuer'
    BY <1>2 DEF Downloaded, OneIssuer, SourceTypeOK
  <2>3. IssueInTime'
    BY <1>2 DEF Downloaded, IssueInTime, OneIssuer, AskedInTime, SourceTypeOK, Usable
  <2>4. AskedInTime'
    BY <1>2 DEF Downloaded, AskedInTime, OneIssuer, IssueInTime, SourceTypeOK, Usable
  <2>5. TokenIsFresh'
    BY <1>2 DEF Downloaded, TokenIsFresh, SourceTypeOK, AskedInTime, IssueInTime, Usable
  <2>6. Archives'
    BY <1>2 DEF Downloaded, Archives, SourceTypeOK, NothingIsLeft
  <2>7. QED BY <2>1, <2>2, <2>3, <2>4, <2>5, <2>6
<1>3. CASE DownloadFails(c)
  <2>1. SourceTypeOK'
    BY <1>3 DEF DownloadFails, SourceTypeOK, IssueInTime
  <2>2. OneIssuer'
    BY <1>3 DEF DownloadFails, OneIssuer, SourceTypeOK
  <2>3. IssueInTime'
    BY <1>3 DEF DownloadFails, IssueInTime, OneIssuer, AskedInTime, SourceTypeOK, Usable
  <2>4. AskedInTime'
    BY <1>3 DEF DownloadFails, AskedInTime, OneIssuer, IssueInTime, SourceTypeOK, Usable
  <2>5. TokenIsFresh'
    BY <1>3 DEF DownloadFails, TokenIsFresh, SourceTypeOK, AskedInTime, IssueInTime, Usable
  <2>6. Archives'
    BY <1>3 DEF DownloadFails, Archives, SourceTypeOK, NothingIsLeft
  <2>7. QED BY <2>1, <2>2, <2>3, <2>4, <2>5, <2>6
<1>4. CASE Normalise(c)
  <2>1. SourceTypeOK'
    <3>1. raw' \in [Callers -> {"none", "part", "whole"}] /\ ready' \in [Callers -> BOOLEAN]
      BY <1>4 DEF Normalise, SourceTypeOK
    <3>2. QED BY <1>4, <3>1 DEF Normalise, SourceTypeOK
  <2>2. OneIssuer'
    BY <1>4 DEF Normalise, OneIssuer, SourceTypeOK
  <2>3. IssueInTime'
    BY <1>4 DEF Normalise, IssueInTime, OneIssuer, AskedInTime, SourceTypeOK, Usable
  <2>4. AskedInTime'
    BY <1>4 DEF Normalise, AskedInTime, OneIssuer, IssueInTime, SourceTypeOK, Usable
  <2>5. TokenIsFresh'
    BY <1>4 DEF Normalise, TokenIsFresh, SourceTypeOK, AskedInTime, IssueInTime, Usable
  <2>6. Archives'
    BY <1>4 DEF Normalise, Archives, SourceTypeOK, NothingIsLeft
  <2>7. QED BY <2>1, <2>2, <2>3, <2>4, <2>5, <2>6
<1>5. QED BY <1>1, <1>2, <1>3, <1>4

\* Time passes only while it endangers nobody's token.
LEMMA TickStep == ASSUME SourceIInv, Tick PROVE SourceIInv'
<1> USE SourceConstants DEF SourceIInv, Tick, Callers, Processes, ProcessOf
<1>1. SourceTypeOK'
  BY DEF SourceTypeOK
<1>2. OneIssuer' /\ TokenIsFresh' /\ Archives'
  BY DEF OneIssuer, TokenIsFresh, Archives, NothingIsLeft
<1>3. IssueInTime'
  BY DEF IssueInTime, SourceTypeOK
<1>4. AskedInTime'
  BY DEF AskedInTime, OneIssuer, IssueInTime, SourceTypeOK
<1>5. QED BY <1>1, <1>2, <1>3, <1>4

LEMMA SourceInitIInv == SourceInit => SourceIInv
BY SourceConstants DEF SourceInit, SourceIInv, SourceTypeOK, OneIssuer, IssueInTime, AskedInTime,
   TokenIsFresh, Archives, NothingIsLeft, Callers, Processes, ProcessOf

LEMMA SourceStepIInv == SourceIInv /\ [SourceNext]_sourceVars => SourceIInv'
<1>1. ASSUME SourceIInv, UNCHANGED sourceVars PROVE SourceIInv'
  BY <1>1 DEF SourceIInv, sourceVars, SourceTypeOK, OneIssuer, IssueInTime, AskedInTime,
     TokenIsFresh, Archives, NothingIsLeft, Callers, Processes, ProcessOf
<1>2. QED
  BY <1>1, TickStep, ReachingStep, CachedStep, BeginIssueStep, IssuedStep, IssueFailsStep, CancelStep, LookStep, ArchiveStep
     DEF SourceNext, Steps

LEMMA SourceInvariance == SourceSpec => []SourceIInv
BY SourceInitIInv, SourceStepIInv, PTL DEF SourceSpec

\* The state of every caller, lock and cached token stays in its type
\* (client.py, adapter.py of the GitHub source).
THEOREM SourceTypeCorrect == SourceSpec => []SourceTypeOK
<1>1. SourceIInv => SourceTypeOK BY DEF SourceIInv
<1>2. QED BY <1>1, SourceInvariance, PTL

\* Whatever waits for whatever issue, and however issues fail or are
\* abandoned, a token that is returned has more than the margin to live
\* (client.py:57-71).
THEOREM FreshTokens == SourceSpec => []TokenIsFresh
<1>1. SourceIInv => TokenIsFresh BY DEF SourceIInv
<1>2. QED BY <1>1, SourceInvariance, PTL

\* An Attempt that has ended left what it should and nothing else, however its
\* download failed or was tried again (adapter.py:149-176, client.py:296-354).
THEOREM NothingLeftBehind == SourceSpec => []NothingIsLeft
<1>1. SourceIInv => NothingIsLeft BY DEF SourceIInv, Archives
<1>2. QED BY <1>1, SourceInvariance, PTL

-----------------------------------------------------------------------------
(* The workspace.                                                          *)

\* What a review has established, until the commit is made.
Reviewed ==
    /\ stage # "over" => outcome = "none" /\ commit \in [Paths -> Entries]
    /\ stage \in {"source", "working"} => listed = {}
    /\ stage = "reviewed" => listed = Changes /\ \A p \in Quarantined : Exported[p] = Absent

\* Where the workspace still is what was seeded: everywhere but at the paths
\* that were changed, and at the temporary file of a helper.
Seeded ==
    /\ stage = "source" => helper = Absent /\ ~cut /\ made = {}
    /\ stage \in {"working", "reviewed"} =>
         /\ ~SourceRefused
         /\ \A p \in Paths \ made : p # Temp => work[p] = Split(Manifest)[p]
         /\ ~cut /\ helper.kind # "symlink" => work[Temp] = Absent
         /\ helper.kind = "symlink" => helper.text \in made
         /\ cut => made # {}

WorkspaceIInv ==
    WorkspaceTypeOK /\ Reviewed /\ Seeded /\ CommitIsTheWorkspace /\ ChangesWereMade

-----------------------------------------------------------------------------
(* Entries *)

\* The entries are records of one shape; a link's text is an ordinary path.
LEMMA EntryShape ==
    /\ Absent \in Entries /\ Absent.kind = "absent" /\ Absent.text = ""
    /\ \A p : LinkTo(p).kind = "symlink" /\ LinkTo(p).text = p
    /\ \A p \in Ordinary : LinkTo(p) \in Entries
    /\ \A t \in Texts, e \in LineEnds, x \in BOOLEAN :
         Regular(t, e, x) \in Entries /\ Regular(t, e, x).kind = "file" /\ Regular(t, e, x).text = t
    /\ \A e \in Entries :
         /\ e.kind = "symlink" => e.text \in Ordinary
         /\ e.kind # "symlink" => e.text \in Texts \cup {""}
         /\ e.kind # "hardlink" => Rebased(e) = e
         /\ e.kind = "absent" => e = Absent
         /\ Rebased(e) \in Entries
<1>1. Absent \in Entries /\ Absent.kind = "absent" /\ Absent.text = ""
  BY DEF Absent, Odd, Entries
<1> DEFINE Entry(k, t, e, x) == [kind |-> k, text |-> t, eol |-> e, exec |-> x]
<1>2. ASSUME NEW p PROVE LinkTo(p) = Entry("symlink", p, "lf", FALSE)
  BY DEF LinkTo
<1>3. ASSUME NEW t PROVE HardLink(t) = Entry("hardlink", t, "lf", FALSE)
  BY DEF HardLink
<1>4. ASSUME NEW t, NEW e, NEW x PROVE Regular(t, e, x) = Entry("file", t, e, x)
  BY DEF Regular
<1>5. ASSUME NEW k PROVE Odd(k) = Entry(k, "", "lf", FALSE)
  BY DEF Odd
<1>6. ASSUME NEW p PROVE LinkTo(p).kind = "symlink" /\ LinkTo(p).text = p
  BY <1>2
<1>7. ASSUME NEW p \in Ordinary PROVE LinkTo(p) \in Entries
  BY DEF Entries
<1>8. ASSUME NEW t \in Texts, NEW e \in LineEnds, NEW x \in BOOLEAN
      PROVE  Regular(t, e, x) \in Entries /\ Regular(t, e, x).kind = "file" /\ Regular(t, e, x).text = t
  <2>1. Regular(t, e, x) \in Entries
    BY DEF Entries
  <2>2. QED BY <2>1, <1>4
<1>9. ASSUME NEW e \in Entries
      PROVE  /\ e.kind = "symlink" => e.text \in Ordinary
             /\ e.kind # "symlink" => e.text \in Texts \cup {""}
             /\ e.kind # "hardlink" => Rebased(e) = e
             /\ e.kind = "absent" => e = Absent
             /\ Rebased(e) \in Entries
  <2>1. CASE e = Absent
    BY <2>1, <1>1 DEF Rebased
  <2>2. CASE \E k \in {"fifo", "escape", "lfs"} : e = Odd(k)
    <3>1. PICK k \in {"fifo", "escape", "lfs"} : e = Odd(k)
      BY <2>2
    <3>2. e.kind = k /\ e.text = ""
      BY <3>1, <1>5
    <3>3. QED BY <3>1, <3>2 DEF Rebased
  <2>3. CASE \E t \in Texts : e = HardLink(t)
    <3>1. PICK t \in Texts : e = HardLink(t)
      BY <2>3
    <3>2. e = Entry("hardlink", t, "lf", FALSE)
      BY <3>1, <1>3
    <3>3. Rebased(e) = Entry("file", t, "lf", FALSE)
      BY <3>2 DEF Rebased
    <3>4. Rebased(e) = Regular(t, "lf", FALSE)
      BY <3>3, <1>4
    <3>5. Rebased(e) \in Entries
      BY <3>4, <1>8 DEF LineEnds
    <3>6. QED BY <3>2, <3>5
  <2>4. CASE \E p \in Ordinary : e = LinkTo(p)
    <3>1. PICK p \in Ordinary : e = LinkTo(p)
      BY <2>4
    <3>2. e.kind = "symlink" /\ e.text = p
      BY <3>1, <1>6
    <3>3. QED BY <3>1, <3>2 DEF Rebased
  <2>5. CASE \E t \in Texts, l \in LineEnds, x \in BOOLEAN : e = Regular(t, l, x)
    <3>1. PICK t \in Texts, l \in LineEnds, x \in BOOLEAN : e = Regular(t, l, x)
      BY <2>5
    <3>2. e.kind = "file" /\ e.text = t
      BY <3>1, <1>8
    <3>3. QED BY <3>1, <3>2 DEF Rebased
  <2>6. e \in {Regular(t, l, x) : t \in Texts, l \in LineEnds, x \in BOOLEAN}
           => \E t \in Texts, l \in LineEnds, x \in BOOLEAN : e = Regular(t, l, x)
    OBVIOUS
  <2>7. \/ e = Absent
        \/ \E k \in {"fifo", "escape", "lfs"} : e = Odd(k)
        \/ \E t \in Texts : e = HardLink(t)
        \/ \E p \in Ordinary : e = LinkTo(p)
        \/ \E t \in Texts, l \in LineEnds, x \in BOOLEAN : e = Regular(t, l, x)
    BY <2>6 DEF Entries
  <2>8. QED BY <2>1, <2>2, <2>3, <2>4, <2>5, <2>7
<1>10. QED BY <1>1, <1>6, <1>7, <1>8, <1>9

-----------------------------------------------------------------------------
(* The steps *)

LEMMA WorkspaceInitIInv == WorkspaceInit => WorkspaceIInv
<1> SUFFICES ASSUME WorkspaceInit PROVE WorkspaceIInv
  OBVIOUS
<1>1. base \in [Paths -> Entries] /\ work \in [Paths -> Entries] /\ helper.kind = "absent"
  BY WorkspaceConstants, EntryShape DEF WorkspaceInit
<1>2. WorkspaceTypeOK
  <2>1. versions \in [Paths -> Versions]
    BY DEF WorkspaceInit, Versions
  <2>2. worked \in 0..MaxWork
    BY WorkspaceConstants DEF WorkspaceInit
  <2>4. made \subseteq Paths /\ listed \subseteq Paths /\ cut \in BOOLEAN
    BY DEF WorkspaceInit
  <2>5. known \subseteq Texts \cup {""} /\ left \in [Paths -> Entries] /\ overtaken \subseteq Paths
    BY EntryShape DEF WorkspaceInit
  <2>3. QED BY <1>1, <2>1, <2>2, <2>4, <2>5 DEF WorkspaceInit, WorkspaceTypeOK
<1>3. Reviewed /\ CommitIsTheWorkspace /\ ChangesWereMade
  BY <1>1 DEF WorkspaceInit, Reviewed, CommitIsTheWorkspace, ChangesWereMade
<1>4. Seeded
  BY <1>1 DEF WorkspaceInit, Seeded
<1>5. QED BY <1>2, <1>3, <1>4 DEF WorkspaceIInv

\* What is seeded is made of entries, and has no temporary file.
LEMMA SeedShape ==
    ASSUME base \in BaseTrees
    PROVE  /\ base \in [Paths -> Entries] /\ Manifest \in [Paths -> Entries]
           /\ Split(Manifest) \in [Paths -> Entries]
           /\ Split(Manifest)[Temp] = Absent /\ Manifest[Temp] = Absent
           /\ \A p \in Paths : base[Hub].kind # "symlink" => Split(Manifest)[p] = Manifest[p]
           /\ \A p \in Paths : p # Hub => Split(Manifest)[p] = Manifest[p]
<1>1. base \in [Paths -> Entries] /\ base[Temp] = Absent
  BY WorkspaceConstants
<1>2. Manifest \in [Paths -> Entries] /\ Manifest[Temp] = Absent
  BY <1>1, EntryShape DEF Manifest, Quarantined, Paths
<1>3. Hub \in Paths /\ Temp \in Paths /\ Hub # Temp /\ Manifest[Hub] = base[Hub]
  BY <1>1, WorkspaceConstants DEF Paths, Manifest, Quarantined
<1>4. Split(Manifest) \in [Paths -> Entries]
  BY <1>2, <1>3, EntryShape DEF Split
<1>5. \A p \in Paths : p # Hub => Split(Manifest)[p] = Manifest[p]
  BY <1>2, <1>3 DEF Split
<1>6. base[Hub].kind # "symlink" => Split(Manifest)[Hub] = Manifest[Hub]
  BY <1>2, <1>3 DEF Split
<1>7. QED BY <1>1, <1>2, <1>3, <1>4, <1>5, <1>6

LEMMA PrepareStep == ASSUME WorkspaceIInv, Prepare PROVE WorkspaceIInv'
<1> USE DEF WorkspaceIInv
<1>1. base \in BaseTrees /\ stage = "source" /\ helper = Absent /\ ~cut /\ made = {}
  BY DEF Prepare, Seeded, WorkspaceTypeOK
<1>2. helper.kind = "absent"
  BY <1>1, EntryShape
<1>3. WorkspaceTypeOK'
  BY <1>1, SeedShape DEF Prepare, WorkspaceTypeOK, historyVars
<1>4. Reviewed' /\ CommitIsTheWorkspace'
  BY DEF Prepare, Reviewed, CommitIsTheWorkspace
<1>5. Seeded'
  <2>1. UNCHANGED <<base, SourceRefused, Split(Manifest), helper, cut, made>>
    BY DEF Prepare, SourceRefused, Split, Manifest, Quarantined
  <2>2. stage' = "over" \/ (stage' = "working" /\ ~SourceRefused /\ work' = Split(Manifest))
    BY DEF Prepare
  <2>3. QED BY <1>1, <1>2, <2>1, <2>2, SeedShape DEF Seeded
<1>6. ChangesWereMade'
  BY DEF Prepare, ChangesWereMade, SourceRefused, Quarantined
<1>7. QED BY <1>3, <1>4, <1>5, <1>6

LEMMA ReadStep == ASSUME WorkspaceIInv, NEW p \in Paths, ReadFile(p) PROVE WorkspaceIInv'
<1> USE DEF WorkspaceIInv, ReadFile
<1>1. WorkspaceTypeOK'
  <2>1. Target(p) \in Paths /\ work[Target(p)] \in Entries
    BY EntryShape DEF WorkspaceTypeOK, Target, Paths
  <2>2. work[Target(p)].kind # "symlink"
    BY DEF Readable
  <2>3. work[Target(p)].text \in Texts \cup {""}
    BY <2>1, <2>2, EntryShape
  <2>4. VersionOnDisk(p) \in Versions
    BY <2>3 DEF VersionOnDisk, Version, LineEnds, Versions
  <2>8. versions \in [Paths -> Versions] /\ versions' = [versions EXCEPT ![p] = VersionOnDisk(p)]
    BY DEF WorkspaceTypeOK
  <2>5. versions' \in [Paths -> Versions]
    BY ONLY <2>4, <2>8, p \in Paths
  <2>6. known' \subseteq Texts \cup {""}
    BY <2>3 DEF WorkspaceTypeOK
  <2>7. QED BY <2>5, <2>6 DEF WorkspaceTypeOK
<1>2. Reviewed' /\ Seeded'
  BY DEF Reviewed, Seeded, Changes, Exported, Manifest, Split, SourceRefused, Quarantined
<1>3. CommitIsTheWorkspace' /\ ChangesWereMade'
  BY DEF CommitIsTheWorkspace, ChangesWereMade, SourceRefused, Quarantined, Exported
<1>4. QED BY <1>1, <1>2, <1>3

\* A write of the tools or of a command: one path of the Attempt's, and the
\* temporary file of a helper that is given up.
LEMMA ChangeStep ==
    ASSUME WorkspaceIInv, stage = "working",
           NEW q \in Paths \ {Hub, Temp}, NEW entry \in Entries,
           worked < MaxWork, worked' = worked + 1, made' = made \cup {q},
           versions' \in [Paths -> Versions],
           known' \subseteq Texts \cup {""}, left' \in [Paths -> Entries], overtaken' \subseteq Paths,
           \/ work' = [work EXCEPT ![q] = entry] /\ helper' = helper
           \/ /\ helper.kind = "absent" /\ q \in Ordinary
              /\ work' = [work EXCEPT ![q] = entry, ![Temp] = entry]
              /\ helper' = LinkTo(q),
           UNCHANGED <<base, stage, cut, listed, outcome, commit>>
    PROVE  WorkspaceIInv'
<1> USE DEF WorkspaceIInv
<1>0. worked \in 0..MaxWork /\ MaxWork \in Nat /\ Temp \in Paths
  BY WorkspaceConstants DEF WorkspaceTypeOK, Paths
<1>9. work \in [Paths -> Entries]
  BY DEF WorkspaceTypeOK
<1>1. work \in [Paths -> Entries] /\ Temp \in Paths /\ q # Temp /\ worked \in Nat
  BY ONLY <1>0, <1>9, q \in Paths \ {Hub, Temp}
<1>2. WorkspaceTypeOK'
  <2>1. work' \in [Paths -> Entries]
    BY <1>1
  <2>2. helper' \in {Absent} \cup {LinkTo(p) : p \in Ordinary}
    BY DEF WorkspaceTypeOK
  <2>3. worked' \in 0..MaxWork
    BY ONLY <1>0, worked < MaxWork, worked' = worked + 1
  <2>4. QED BY <2>1, <2>2, <2>3 DEF WorkspaceTypeOK
<1>3. Reviewed'
  BY DEF Reviewed
<1>4. Seeded'
  <2>0. base' = base /\ ~SourceRefused
    BY DEF Seeded
  <2>1. ~SourceRefused' /\ Split(Manifest)' = Split(Manifest)
    BY ONLY <2>0 DEF SourceRefused, Quarantined, Split, Manifest
  <2>2. \A p \in Paths \ made' : p # Temp => work'[p] = Split(Manifest)'[p]
    BY <1>1, <2>1 DEF Seeded
  <2>6. LinkTo(q).kind = "symlink" /\ LinkTo(q).text = q
    BY EntryShape
  <2>3. (~cut /\ helper.kind # "symlink" => work[Temp] = Absent)'
    <3>1. ASSUME helper' = helper, work' = [work EXCEPT ![q] = entry]
          PROVE  (~cut /\ helper.kind # "symlink" => work[Temp] = Absent)'
      BY <3>1, <1>1 DEF Seeded
    <3>2. ASSUME helper' = LinkTo(q)
          PROVE  (~cut /\ helper.kind # "symlink" => work[Temp] = Absent)'
      BY <3>2, <2>6
    <3>3. QED BY <3>1, <3>2
  <2>4. (helper.kind = "symlink" => helper.text \in made)'
    BY <2>6 DEF Seeded
  <2>7. QED BY <2>1, <2>2, <2>3, <2>4 DEF Seeded
<1>5. CommitIsTheWorkspace' /\ ChangesWereMade'
  BY DEF CommitIsTheWorkspace, ChangesWereMade, Reviewed
<1>6. QED BY <1>2, <1>3, <1>4, <1>5

LEMMA TargetShape ==
    ASSUME WorkspaceTypeOK, NEW p \in Paths
    PROVE  /\ work[p] \in Entries /\ Target(p) \in Paths /\ work[Target(p)] \in Entries
           /\ Writable(p) => Target(p) \in Paths \ {Hub, Temp}
           /\ work[p].kind # "symlink" => Target(p) = p
<1>1. work[p] \in Entries
  BY DEF WorkspaceTypeOK
<1>2. work[p].kind = "symlink" => work[p].text \in Ordinary
  BY <1>1, EntryShape
<1>3. Target(p) = p \/ Target(p) \in Ordinary
  BY <1>2 DEF Target
<1>4. Writable(p) => Target(p) \in Paths \ {Hub, Temp}
  BY <1>3, WorkspaceConstants DEF Writable, Paths
<1>5. Target(p) \in Paths
  BY <1>3 DEF Paths
<1>6. QED BY <1>1, <1>4, <1>5 DEF WorkspaceTypeOK, Target

LEMMA WriteStep ==
    ASSUME WorkspaceIInv, NEW p \in Paths, NEW t \in Texts, NEW e \in LineEnds, WriteFile(p, t, e)
    PROVE  WorkspaceIInv'
<1>1. p \in Paths \ {Hub, Temp} /\ Regular(t, e, FALSE) \in Entries
  BY EntryShape, WorkspaceConstants DEF WriteFile, Writable, Paths
<1>2. Version(t, e) \in Versions /\ Regular(t, e, FALSE).text = t /\ Regular(t, e, FALSE).eol = e
  BY DEF Version, Versions, Regular
<1>3. versions' \in [Paths -> Versions]
  <2>1. versions' = [versions EXCEPT ![p] = Version(t, e)] \/ versions' = versions
    BY <1>2 DEF WriteFile, Replace
  <2>2. versions \in [Paths -> Versions] /\ Version(t, e) \in Versions
    BY <1>2 DEF WorkspaceIInv, WorkspaceTypeOK
  <2>3. QED BY ONLY <2>1, <2>2, p \in Paths
<1>4. known' \subseteq Texts \cup {""} /\ left' \in [Paths -> Entries] /\ overtaken' \subseteq Paths
  BY <1>2 DEF WriteFile, Replace, WorkspaceIInv, WorkspaceTypeOK
<1>5. QED BY <1>1, <1>3, <1>4, ChangeStep DEF WriteFile, Replace

LEMMA EditStep ==
    ASSUME WorkspaceIInv, NEW p \in Paths, NEW t \in Texts, EditFile(p, t)
    PROVE  WorkspaceIInv'
<1>1. "lf" \in LineEnds
  BY DEF LineEnds
<1>2. Target(p) \in Paths \ {Hub, Temp} /\ Regular(t, "lf", FALSE) \in Entries
  BY <1>1, EntryShape, TargetShape DEF EditFile, WorkspaceIInv
<1>3. Version(t, "lf") \in Versions /\ Regular(t, "lf", FALSE).text = t /\ Regular(t, "lf", FALSE).eol = "lf"
  BY <1>1 DEF Version, Versions, Regular
<1>4. versions' \in [Paths -> Versions]
  <2>1. versions' = [versions EXCEPT ![p] = Version(t, "lf")] \/ versions' = versions
    BY <1>3 DEF EditFile, Replace
  <2>2. versions \in [Paths -> Versions] /\ Version(t, "lf") \in Versions
    BY <1>3 DEF WorkspaceIInv, WorkspaceTypeOK
  <2>3. QED BY ONLY <2>1, <2>2, p \in Paths
<1>5. known' \subseteq Texts \cup {""} /\ left' \in [Paths -> Entries] /\ overtaken' \subseteq Paths
  BY <1>3 DEF EditFile, Replace, WorkspaceIInv, WorkspaceTypeOK
<1>6. QED BY <1>2, <1>4, <1>5, ChangeStep DEF EditFile, Replace

LEMMA CommandStep ==
    ASSUME WorkspaceIInv, NEW p \in Paths, NEW entry \in Entries, Command(p, entry)
    PROVE  WorkspaceIInv'
<1>1. p \in Paths \ {Hub, Temp}
  BY WorkspaceConstants DEF Command, Paths
<1>2. versions' \in [Paths -> Versions]
  <2>1. versions' = versions
    BY DEF Command
  <2>2. versions \in [Paths -> Versions]
    BY DEF WorkspaceIInv, WorkspaceTypeOK
  <2>3. QED BY <2>1, <2>2
<1>3. known' \subseteq Texts \cup {""} /\ left' \in [Paths -> Entries] /\ overtaken' \subseteq Paths
  BY DEF Command, WorkspaceIInv, WorkspaceTypeOK
<1>4. QED BY <1>1, <1>2, <1>3, ChangeStep DEF Command

LEMMA HelperStep == ASSUME WorkspaceIInv, LateReplace \/ HolderRestarts PROVE WorkspaceIInv'
<1> USE DEF WorkspaceIInv
<1>1. helper.kind = "symlink" /\ helper.text \in made /\ stage = "working" /\ ~SourceRefused
  BY DEF LateReplace, HolderRestarts, Seeded
<1>0. helper \in {Absent} \cup {LinkTo(p) : p \in Ordinary}
  BY DEF WorkspaceTypeOK
<1>2. helper.text \in Ordinary
  BY ONLY <1>0, <1>1, EntryShape, ZenonT(40)
<1>3. Temp \in Paths /\ helper.text \in Paths /\ helper.text # Temp /\ work \in [Paths -> Entries]
  BY <1>2, WorkspaceConstants DEF Paths, WorkspaceTypeOK
<1>4. work' \in [Paths -> Entries] /\ \A p \in Paths \ made : p # Temp => work'[p] = work[p]
  BY <1>1, <1>3, EntryShape, ZenonT(40) DEF LateReplace, HolderRestarts
<1>5. WorkspaceTypeOK'
  BY <1>3, <1>4 DEF LateReplace, HolderRestarts, WorkspaceTypeOK, historyVars
<1>6. helper'.kind = "absent" /\ (~cut' => work'[Temp] = Absent)
  BY <1>1, <1>3, EntryShape DEF LateReplace, HolderRestarts
<1>7. UNCHANGED <<base, stage, made, listed, outcome, commit, SourceRefused, Split(Manifest)>>
  BY DEF LateReplace, HolderRestarts, SourceRefused, Split, Manifest, Quarantined
<1>8. cut' => made # {}
  BY <1>1
<1>9. Reviewed' /\ CommitIsTheWorkspace' /\ ChangesWereMade'
  BY <1>1, <1>7 DEF Reviewed, CommitIsTheWorkspace, ChangesWereMade
<1>10. Seeded'
  BY <1>1, <1>4, <1>6, <1>7, <1>8 DEF Seeded
<1>11. QED BY <1>5, <1>9, <1>10

-----------------------------------------------------------------------------
(* The review and the commit *)

\* A path that was not changed is exported as it was recorded.
LEMMA UnchangedPaths ==
    ASSUME WorkspaceIInv, stage = "working", base[Hub].kind # "symlink"
    PROVE  \A p \in Paths \ made :
             p # Temp \/ (~cut /\ helper.kind # "symlink") => Exported[p] = Manifest[p]
<1> USE DEF WorkspaceIInv
<1>1. SUFFICES ASSUME NEW p \in Paths \ made, p # Temp \/ (~cut /\ helper.kind # "symlink")
               PROVE  Exported[p] = Manifest[p]
  OBVIOUS
<1>2. base \in BaseTrees /\ ~SourceRefused
  BY DEF WorkspaceTypeOK, Seeded
<1>3. work[p] = Manifest[p]
  BY <1>1, <1>2, SeedShape DEF Seeded
<1>4. Manifest[p] \in Entries /\ Manifest[p].kind # "hardlink"
  <2>1. Manifest[p] \in Entries /\ Absent.kind # "hardlink"
    BY <1>2, SeedShape, EntryShape
  <2>2. Manifest[p] = Absent \/ (p \notin Quarantined /\ Manifest[p] = base[p])
    BY DEF Manifest
  <2>3. p \notin Quarantined => base[p].kind # "hardlink"
    BY <1>2 DEF SourceRefused
  <2>4. QED BY <2>1, <2>2, <2>3
<1>5. Rebased(Manifest[p]) = Manifest[p]
  BY <1>4, EntryShape
<1>6. QED BY <1>3, <1>5 DEF Exported

\* Without a change of the Attempt's there is none, and nothing to refuse.
LEMMA NoChange ==
    ASSUME WorkspaceIInv, stage = "working", base[Hub].kind # "symlink", made = {}
    PROVE  Changes = {} /\ ~ScanRefused
<1> USE DEF WorkspaceIInv
<1>1. ~cut /\ helper.kind # "symlink" /\ base \in BaseTrees /\ ~SourceRefused
  BY DEF Seeded, WorkspaceTypeOK
<1>2. \A p \in Paths : Exported[p] = Manifest[p]
  BY <1>1, UnchangedPaths
<1>3. \A p \in Quarantined : Manifest[p] = Absent
  BY DEF Manifest, Quarantined, Paths
<1>4. \A p \in Paths \ Quarantined : ~Unsupported(Manifest[p])
  BY <1>1 DEF SourceRefused, Manifest
<1>5. ~Unsupported(Absent)
  BY EntryShape DEF Unsupported
<1>6. QED BY <1>2, <1>3, <1>4, <1>5 DEF Changes, ScanRefused

LEMMA ReviewStep == ASSUME WorkspaceIInv, Review PROVE WorkspaceIInv'
<1> USE DEF WorkspaceIInv
<1>1. stage = "working" /\ outcome = "none" /\ listed = {}
  BY DEF Review, Reviewed
<1>2. UNCHANGED <<base, work, versions, helper, made, worked, cut, commit, SourceRefused,
                  Split(Manifest), Changes, Exported, Quarantined, known, left, overtaken>>
  BY DEF Review, historyVars, SourceRefused, Split, Manifest, Changes, Exported, Quarantined
<1>3. CASE stage' = "reviewed"
  <2>1. listed' = Changes /\ outcome' = "none" /\ ~ScanRefused /\ Changes # {}
    BY <1>1, <1>3 DEF Review
  <2>2. Changes \subseteq Paths
    BY DEF Changes
  <2>3. \A p \in Quarantined : Exported[p] = Absent
    BY <2>1 DEF ScanRefused, Quarantined, Paths
  <2>4. WorkspaceTypeOK'
    BY <1>2, <1>3, <2>1, <2>2 DEF WorkspaceTypeOK
  <2>5. Reviewed'
    BY <1>1, <1>2, <1>3, <2>1, <2>3 DEF Reviewed
  <2>6. Seeded'
    BY <1>1, <1>2, <1>3 DEF Seeded
  <2>7. CommitIsTheWorkspace'
    BY <2>1 DEF CommitIsTheWorkspace
  <2>8. ChangesWereMade'
    <3>1. CASE base[Hub].kind = "symlink"
      BY <3>1, <1>2 DEF ChangesWereMade
    <3>2. CASE base[Hub].kind # "symlink"
      <4>1. made # {}
        BY <1>1, <2>1, <3>2, NoChange
      <4>2. listed' \ made \subseteq IF cut \/ helper.kind = "symlink" THEN {Temp} ELSE {}
        BY <1>1, <2>1, <3>2, UnchangedPaths DEF Changes
      <4>3. QED BY <1>2, <4>1, <4>2 DEF ChangesWereMade
    <3>3. QED BY <3>1, <3>2
  <2>9. QED BY <2>4, <2>5, <2>6, <2>7, <2>8
<1>4. CASE stage' = "over"
  <2>1. listed' = {} /\ outcome' \in {"refused", "no_changes"}
    BY <1>1, <1>4 DEF Review
  <2>2. WorkspaceTypeOK'
    BY <1>2, <1>4, <2>1 DEF WorkspaceTypeOK
  <2>3. Reviewed' /\ Seeded' /\ CommitIsTheWorkspace'
    BY <1>4, <2>1 DEF Reviewed, Seeded, CommitIsTheWorkspace
  <2>4. ChangesWereMade'
    <3>1. CASE base[Hub].kind = "symlink"
      BY <3>1, <1>2 DEF ChangesWereMade
    <3>2. CASE base[Hub].kind # "symlink"
      <4>1. outcome' = "refused" => made # {}
        BY <1>1, <3>2, NoChange DEF Review
      <4>2. QED BY <1>2, <1>4, <2>1, <4>1 DEF ChangesWereMade
    <3>3. QED BY <3>1, <3>2
  <2>5. QED BY <2>2, <2>3, <2>4
<1>5. QED BY <1>3, <1>4 DEF Review

LEMMA PublishStep == ASSUME WorkspaceIInv, Publish PROVE WorkspaceIInv'
<1> USE DEF WorkspaceIInv
<1>1. stage = "reviewed" /\ listed = Changes /\ \A p \in Quarantined : Exported[p] = Absent
  BY DEF Publish, Reviewed
<1>2. UNCHANGED <<base, work, versions, helper, made, worked, cut, listed, SourceRefused,
                  Changes, Exported, Quarantined, known, left, overtaken>>
  BY DEF Publish, historyVars, SourceRefused, Manifest, Changes, Exported, Quarantined
<1>3. stage' = "over" /\ outcome' = "delivered"
  BY DEF Publish
<1>4. \A p \in Paths : commit'[p] = IF p \in Changes THEN Exported[p] ELSE base[p]
  BY DEF Publish, TreeOver
<1>5. base \in [Paths -> Entries] /\ Exported \in [Paths -> Entries]
  BY SeedShape, EntryShape DEF WorkspaceTypeOK, Exported
<1>6. commit' \in [Paths -> Entries]
  BY <1>5 DEF Publish, TreeOver
<1>7. WorkspaceTypeOK'
  BY <1>2, <1>3, <1>6 DEF WorkspaceTypeOK
<1>8. \A p \in Paths : /\ p \notin Quarantined => Manifest[p] = base[p]
                       /\ p \in Quarantined => Manifest[p] = Absent
  BY DEF Manifest
<1>9. \A p \in Paths : p \in Changes <=> Manifest[p] # Exported[p]
  BY DEF Changes
<1>10. \A p \in Paths \ Quarantined : commit'[p] = Exported[p]
  BY <1>4, <1>8, <1>9
<1>11. \A p \in Paths : p \in Quarantined => commit'[p] = base[p] /\ p \notin Changes
  BY <1>1, <1>4, <1>8, <1>9
<1>12. \A p \in Paths : p \in Changes <=> commit'[p] # base[p]
  BY <1>4, <1>8, <1>9, <1>11
<1>13. Quarantined \subseteq Paths /\ Changes \subseteq Paths
  BY DEF Quarantined, Paths, Changes
<1>14. CommitIsTheWorkspace'
  BY <1>1, <1>2, <1>10, <1>11, <1>12, <1>13 DEF CommitIsTheWorkspace
<1>15. Reviewed' /\ Seeded' /\ ChangesWereMade'
  BY <1>3 DEF Reviewed, Seeded, ChangesWereMade
<1>16. QED BY <1>7, <1>14, <1>15

LEMMA WorkspaceStepIInv == WorkspaceIInv /\ [WorkspaceNext]_filesVars => WorkspaceIInv'
<1>1. ASSUME WorkspaceIInv, UNCHANGED filesVars PROVE WorkspaceIInv'
  <2>1. UNCHANGED <<base, work, stage, versions, helper, made, worked, cut, listed, outcome, commit,
                    known, left, overtaken>>
    BY <1>1 DEF filesVars
  <2>2. UNCHANGED <<Changes, Exported, SourceRefused, Split(Manifest), Quarantined>>
    BY <2>1 DEF Changes, Exported, SourceRefused, Split, Manifest, Quarantined
  <2>3. WorkspaceTypeOK'
    BY <1>1, <2>1 DEF WorkspaceIInv, WorkspaceTypeOK
  <2>4. Reviewed' /\ Seeded'
    BY <1>1, <2>1, <2>2 DEF WorkspaceIInv, Reviewed, Seeded
  <2>5. CommitIsTheWorkspace' /\ ChangesWereMade'
    BY <1>1, <2>1, <2>2 DEF WorkspaceIInv, CommitIsTheWorkspace, ChangesWereMade
  <2>6. QED BY <2>3, <2>4, <2>5 DEF WorkspaceIInv
<1>2. QED
  BY <1>1, PrepareStep, ReadStep, WriteStep, EditStep, CommandStep, HelperStep, ReviewStep,
     PublishStep DEF WorkspaceNext

LEMMA WorkspaceInvariance == WorkspaceSpec => []WorkspaceIInv
BY WorkspaceInitIInv, WorkspaceStepIInv, PTL DEF WorkspaceSpec

\* Every path of the base tree, the workspace and the commit is an entry the
\* archives can hold, whatever tools and commands do (scm/archive.py,
\* execution/workspace_helper.py).
THEOREM WorkspaceTypeCorrect == WorkspaceSpec => []WorkspaceTypeOK
<1>1. WorkspaceIInv => WorkspaceTypeOK BY DEF WorkspaceIInv
<1>2. QED BY <1>1, WorkspaceInvariance, PTL

\* Whatever the base tree and the Attempt's work, the commit is the workspace,
\* what was quarantined stays, and the diff lists what differs.
THEOREM CommitFidelity == WorkspaceSpec => []CommitIsTheWorkspace
<1>1. WorkspaceIInv => CommitIsTheWorkspace BY DEF WorkspaceIInv
<1>2. QED BY <1>1, WorkspaceInvariance, PTL

\* Normalisation, split, seeding, export and comparison invent no change: what
\* is delivered, or refused after review, the Attempt did, or a helper of its.
THEOREM ChangesExplained == WorkspaceSpec => []ChangesWereMade
<1>1. WorkspaceIInv => ChangesWereMade BY DEF WorkspaceIInv
<1>2. QED BY <1>1, WorkspaceInvariance, PTL


\* What a tool may have a version of, and what a command left that no tool knows.
KnownVersions == \A p \in Paths : versions[p] = NoVersion \/ versions[p][1] \in known

LeftStands ==
    \A p \in Ordinary :
        left[p].kind = "file" /\ left[p].text \notin known /\ p \notin overtaken => work[p] = left[p]

LeftIInv == KnownVersions /\ LeftStands /\ (stage = "source" => left = [p \in Paths |-> Absent])

\* A tool replaces the file at q: it has a version of the text that is there.
LEMMA ReplaceKeepsLeft ==
    ASSUME WorkspaceTypeOK, LeftIInv, NEW p \in Paths, NEW q \in Paths, NEW entry \in Entries,
           Replace(p, q, entry), stage = "working", q # Temp,
           work[q].kind = "file" => versions[p] = <<work[q].text, "lf">>
    PROVE  LeftIInv'
<1> USE DEF LeftIInv, KnownVersions, LeftStands
<1>1. /\ known' = known \cup {entry.text} /\ left' = left /\ overtaken' = overtaken /\ stage' = stage
      /\ versions' = versions \/ versions' = [versions EXCEPT ![p] = Version(entry.text, entry.eol)]
  BY DEF Replace
<1>2. KnownVersions'
  <2>1. Version(entry.text, entry.eol)[1] = entry.text
    BY DEF Version
  <2>2. versions \in [Paths -> Versions]
    BY DEF WorkspaceTypeOK
  <2>3. QED BY <1>1, <2>1, <2>2
<1>3. Temp \in Paths /\ Temp \notin Ordinary /\ Ordinary \subseteq Paths /\ work \in [Paths -> Entries]
  BY WorkspaceConstants DEF Paths, WorkspaceTypeOK
<1>4. \A x \in Ordinary : x # q => work'[x] = work[x]
  BY <1>3 DEF Replace
<1>5. work[q].kind = "file" => work[q].text \in known
  <2>1. ASSUME work[q].kind = "file" PROVE versions[p] # NoVersion /\ versions[p][1] = work[q].text
    BY <2>1 DEF NoVersion
  <2>2. QED BY <2>1
<1>6. LeftStands'
  <2>1. SUFFICES ASSUME NEW x \in Ordinary, left[x].kind = "file", left[x].text \notin known',
                        x \notin overtaken
                 PROVE  work'[x] = left[x]
    BY <1>1
  <2>2. work[x] = left[x]
    BY <1>1, <2>1
  <2>3. x # q
    BY <1>1, <1>5, <2>1, <2>2
  <2>4. QED BY <1>4, <2>2, <2>3
<1>7. QED BY <1>1, <1>2, <1>6

\* Every step keeps what a command left and no tool knows.
LEMMA LeftStep == WorkspaceIInv /\ LeftIInv /\ [WorkspaceNext]_filesVars => LeftIInv'
<1> SUFFICES ASSUME WorkspaceIInv, LeftIInv, [WorkspaceNext]_filesVars PROVE LeftIInv'
  OBVIOUS
<1>0. WorkspaceTypeOK /\ work \in [Paths -> Entries] /\ Temp \notin Ordinary /\ Ordinary \subseteq Paths
  BY WorkspaceConstants DEF WorkspaceIInv, WorkspaceTypeOK, Paths
<1>1. CASE Prepare
  <2>1. \A p \in Ordinary : left[p].kind # "file"
    <3>1. left = [p \in Paths |-> Absent]
      BY <1>1 DEF Prepare, LeftIInv
    <3>2. QED BY ONLY <1>0, <3>1, EntryShape
  <2>2. UNCHANGED <<versions, known, left, overtaken>> /\ stage' # "source"
    BY <1>1 DEF Prepare, historyVars
  <2>3. QED BY <2>1, <2>2 DEF LeftIInv, KnownVersions, LeftStands
<1>2. ASSUME NEW p \in Paths, ReadFile(p) PROVE LeftIInv'
  <2>1. VersionOnDisk(p)[1] \in known'
    BY <1>2 DEF ReadFile, VersionOnDisk, Version
  <2>2. KnownVersions'
    BY <1>0, <1>2, <2>1 DEF ReadFile, LeftIInv, KnownVersions, WorkspaceTypeOK
  <2>3. LeftStands'
    BY <1>2 DEF ReadFile, LeftIInv, LeftStands
  <2>4. QED BY <1>2, <2>2, <2>3 DEF ReadFile, LeftIInv
<1>3. ASSUME NEW p \in Paths, NEW t \in Texts, NEW e \in LineEnds, WriteFile(p, t, e) PROVE LeftIInv'
  <2>1. p # Temp /\ Regular(t, e, FALSE) \in Entries
    BY EntryShape, WorkspaceConstants, <1>3 DEF WriteFile, Writable, Paths
  <2>2. work[p].kind = "file" => versions[p] = <<work[p].text, "lf">>
    BY <1>3 DEF WriteFile, MayWrite, Target, VersionOnDisk, Version
  <2>3. stage = "working" /\ Replace(p, p, Regular(t, e, FALSE))
    BY <1>3 DEF WriteFile
  <2>4. QED BY <1>0, <2>1, <2>2, <2>3, ReplaceKeepsLeft
<1>4. ASSUME NEW p \in Paths, NEW t \in Texts, EditFile(p, t) PROVE LeftIInv'
  <2>1. Target(p) \in Paths \ {Hub, Temp} /\ Regular(t, "lf", FALSE) \in Entries
    BY <1>0, <1>4, EntryShape, TargetShape DEF EditFile, LineEnds
  <2>2. versions[p] = <<work[Target(p)].text, "lf">>
    BY <1>4 DEF EditFile, MayEdit, VersionOnDisk, Version
  <2>3. stage = "working" /\ Replace(p, Target(p), Regular(t, "lf", FALSE))
    BY <1>4 DEF EditFile
  <2>4. QED BY <1>0, <2>1, <2>2, <2>3, ReplaceKeepsLeft
<1>5. ASSUME NEW p \in Paths, NEW entry \in Entries, Command(p, entry) PROVE LeftIInv'
  <2>1. left \in [Paths -> Entries]
    BY <1>0 DEF WorkspaceTypeOK
  <2>2. LeftStands'
    BY <1>0, <1>5, <2>1 DEF Command, LeftIInv, LeftStands
  <2>3. QED BY <1>5, <2>2 DEF Command, LeftIInv, KnownVersions
<1>6. CASE LateReplace
  <2>1. helper.text \in overtaken' /\ \A x \in Ordinary : x # helper.text => work'[x] = work[x]
    BY <1>0, <1>6 DEF LateReplace
  <2>2. LeftStands'
    BY <1>6, <2>1 DEF LateReplace, LeftIInv, LeftStands
  <2>3. QED BY <1>6, <2>2 DEF LateReplace, LeftIInv, KnownVersions
<1>7. CASE HolderRestarts \/ Review \/ Publish
  BY <1>7 DEF HolderRestarts, Review, Publish, historyVars, LeftIInv, KnownVersions, LeftStands
<1>8. CASE UNCHANGED filesVars
  BY <1>8 DEF filesVars, LeftIInv, KnownVersions, LeftStands
<1>9. QED BY <1>1, <1>2, <1>3, <1>4, <1>5, <1>6, <1>7, <1>8 DEF WorkspaceNext

\* Whatever the Attempt's tools, commands and helpers do, and in which order: a
\* file that a command left, and whose text no tool knows, is what is delivered.
THEOREM UnreadDelivered == WorkspaceSpec => []UnreadWorkIsDelivered
<1>1. WorkspaceInit => LeftIInv
  BY EntryShape DEF WorkspaceInit, LeftIInv, KnownVersions, LeftStands, Paths
<1>2. WorkspaceIInv /\ LeftIInv => UnreadWorkIsDelivered
  <2>1. SUFFICES ASSUME WorkspaceIInv, LeftIInv, outcome = "delivered", NEW p \in Ordinary,
                        left[p].kind = "file", left[p].text \notin known, p \notin overtaken
                 PROVE  commit[p] = left[p]
    BY DEF UnreadWorkIsDelivered
  <2>2. p \in Paths \ Quarantined
    BY WorkspaceConstants DEF Paths, Quarantined
  <2>3. commit[p] = Exported[p]
    BY <2>1, <2>2 DEF WorkspaceIInv, CommitIsTheWorkspace
  <2>4. work[p] = left[p]
    BY <2>1 DEF LeftIInv, LeftStands
  <2>5. Exported[p] = Rebased(left[p])
    BY <2>2, <2>4 DEF Exported
  <2>6. QED BY <2>1, <2>3, <2>5 DEF Rebased
<1>3. QED
  BY <1>1, <1>2, LeftStep, WorkspaceInvariance, PTL DEF WorkspaceSpec

-----------------------------------------------------------------------------
(* Publishing.                                                             *)

USE PublishAssumption

\* pulls and ref while nobody has interfered
OnePull ==
  /\ ref # Foreign
  /\ Len(pulls) <= 1
  /\ pulls # <<>> => ref # NoRef /\ OwnPull(pulls[1])

\* what call c may rely on at each of its requests
OnCourse(c) ==
  /\ pc[c] = "look_ref" /\ after[c] # "start" => ref # NoRef
  /\ pc[c] = "look_pulls" => ref # NoRef /\ seen[c] = ref
  /\ pc[c] \in {"look_ref", "look_pulls"} /\ after[c] = "pull" =>
       pulls # <<>> /\ head[c] = ref
  /\ pc[c] = "create_pull" => ref # NoRef /\ head[c] = ref
  /\ pc[c] = "delivered" => pulls # <<>> /\ result[c] = [pull |-> 1, head |-> ref]
  /\ pc[c] = "failed" => outage[c]

Converging == touched = 0 => OnePull /\ \A c \in Calls : OnCourse(c)

\* an Attempt's second call begins when the first is interrupted, and afresh
Turns ==
  /\ \A a \in Attempts : pc[<<a, 1>>] # "interrupted" => pc[<<a, 2>>] = "idle"
  /\ \A c \in Calls : pc[c] = "idle" => after[c] = "start"

OwnCommit == \A c \in Calls : pc[c] = "create_ref" => head[c] = c

\* The inductive invariant.
PublishIInv == TypeOK /\ Turns /\ OwnCommit /\ Converging

Pull == [by : Attempts \union {Foreign}, state : {"draft", "ready", "closed"}]

\* A call is an Attempt and which of its two calls this is.
LEMMA CallsAre ==
  /\ \A c \in Calls : c[1] \in Attempts /\ c[2] \in {1, 2} /\ c = <<c[1], c[2]>>
  /\ \A a \in Attempts : <<a, 1>> \in Calls /\ <<a, 2>> \in Calls
BY DEF Calls

\* The initial state satisfies the invariant.
LEMMA PublishInitIInv == Init => PublishIInv
<1> SUFFICES ASSUME Init PROVE PublishIInv
  OBVIOUS
<1>1. TypeOK
  BY DEF Init, TypeOK, Requesting, NoDelivery
<1>2. Turns
  BY CallsAre DEF Init, Turns
<1>3. Converging /\ OwnCommit
  BY DEF Init, Converging, OnePull, OnCourse, OwnCommit
<1> QED
  BY <1>1, <1>2, <1>3 DEF PublishIInv

\* Appending to a sequence of pull requests.
LEMMA AppendPull ==
  ASSUME NEW s \in Seq(Pull), NEW p \in Pull
  PROVE  /\ Append(s, p) \in Seq(Pull)
         /\ Len(Append(s, p)) = Len(s) + 1
         /\ Append(s, p)[Len(s) + 1] = p
OBVIOUS

\* Changing a sequence of pull requests in place.
LEMMA ChangePulls ==
  ASSUME NEW s \in Seq(Pull), NEW t \in [DOMAIN s -> Pull]
  PROVE  t \in Seq(Pull)
<1>1. Len(s) \in Nat /\ DOMAIN s = 1 .. Len(s)
  OBVIOUS
<1> QED
  BY <1>1, SeqDef

\* What a POST does to the branch and its pull requests.
LEMMA CarryOutType ==
  ASSUME TypeOK, NEW post, NEW c \in Calls, CarryOut(post, c)
  PROVE  ref' \in Calls \union {NoRef, Foreign} /\ pulls' \in Seq(Pull)
<1>1. DraftBy(c) \in Pull
  BY CallsAre DEF DraftBy, Pull
<1>2. pulls \in Seq(Pull) /\ ref \in Calls \union {NoRef, Foreign}
  BY DEF TypeOK, Pull
<1>3. Append(pulls, DraftBy(c)) \in Seq(Pull)
  BY <1>1, <1>2, AppendPull
<1> QED
  BY <1>2, <1>3 DEF CarryOut

\* A call that is interrupted is its Attempt's first, and the second is idle.
LEMMA SecondIsIdle ==
  ASSUME Turns, NEW c \in Calls, c[2] = 1, pc[c] \in Requesting
  PROVE  <<c[1], 2>> \in Calls /\ c # <<c[1], 2>> /\ pc[<<c[1], 2>>] = "idle"
<1>1. c = <<c[1], 1>> /\ c[1] \in Attempts
  BY CallsAre
<1>2. pc[c] # "interrupted"
  BY DEF Requesting
<1> QED
  BY <1>1, <1>2, CallsAre DEF Turns

\* A call that has not delivered and goes on without delivering.
LEMMA GoesOn ==
  ASSUME TypeOK, NEW c \in Calls, pc[c] # "delivered", UNCHANGED result,
         NEW s \in Requesting \union {"failed"}, pc' = [pc EXCEPT ![c] = s]
  PROVE  /\ pc' \in [Calls -> Requesting \union {"idle", "delivered", "failed", "interrupted"}]
         /\ \A d \in Calls : pc'[d] = "delivered" <=> result'[d] # NoDelivery
<1>1. pc \in [Calls -> Requesting \union {"idle", "delivered", "failed", "interrupted"}]
  BY DEF TypeOK
<1>2. s # "delivered"
  BY DEF Requesting
<1>3. \A d \in Calls : pc[d] = "delivered" <=> result[d] # NoDelivery
  BY DEF TypeOK
<1>4. \A d \in Calls : pc'[d] = "delivered" <=> pc[d] = "delivered"
  BY <1>1, <1>2
<1> QED
  BY <1>1, <1>3, <1>4

\* Every step keeps the variables in their ranges.
LEMMA NextType == TypeOK /\ Turns /\ [Next]_vars => TypeOK'
<1> SUFFICES ASSUME TypeOK, Turns, [Next]_vars PROVE TypeOK'
  OBVIOUS
<1> USE DEF TypeOK, github
<1>0. pulls \in Seq(Pull) /\ Len(pulls) \in Nat
  BY DEF Pull
<1>3. ASSUME NEW c \in Calls, Begin(c) PROVE TypeOK'
  BY <1>3 DEF Begin, Lookup, Goto, Requesting
<1>4. ASSUME NEW c \in Calls, LookRef(c) PROVE TypeOK'
  <2>1. UNCHANGED <<github, after, head, result, outage>>
    BY <1>4 DEF LookRef
  <2>2. \E s \in {"make_commit", "failed", "look_pulls"} : pc' = [pc EXCEPT ![c] = s]
    BY <1>4 DEF LookRef, Goto
  <2>3. seen' \in [Calls -> Calls \union {NoRef}]
    BY <1>4 DEF LookRef
  <2>4. pc[c] # "delivered"
    BY <1>4 DEF LookRef
  <2>5. {"make_commit", "failed", "look_pulls"} \subseteq Requesting \union {"failed"}
    BY DEF Requesting
  <2>6. /\ pc' \in [Calls -> Requesting \union {"idle", "delivered", "failed", "interrupted"}]
        /\ \A d \in Calls : pc'[d] = "delivered" <=> result'[d] # NoDelivery
    BY <2>1, <2>2, <2>4, <2>5, GoesOn
  <2> QED
    BY <2>1, <2>3, <2>6
<1>5. ASSUME NEW c \in Calls, LookPulls(c) PROVE TypeOK'
  <2>1. UNCHANGED <<github, after, seen, outage>> /\ pc[c] = "look_pulls"
    BY <1>5 DEF LookPulls
  <2>2. head' \in [Calls -> Calls \union {NoRef}]
    BY <1>5 DEF LookPulls
  <2>3. \/ UNCHANGED result /\ \E s \in {"failed", "create_pull"} : pc' = [pc EXCEPT ![c] = s]
        \/ /\ pc' = [pc EXCEPT ![c] = "delivered"]
           /\ result' = [result EXCEPT ![c] = [pull |-> 1, head |-> seen[c]]]
    BY <1>5 DEF LookPulls, Goto, Deliver
  <2>4. [pull |-> 1, head |-> seen[c]] # NoDelivery
    BY DEF NoDelivery
  <2>5. CASE UNCHANGED result /\ \E s \in {"failed", "create_pull"} : pc' = [pc EXCEPT ![c] = s]
    BY <2>1, <2>2, <2>5 DEF Requesting
  <2>6. CASE /\ pc' = [pc EXCEPT ![c] = "delivered"]
             /\ result' = [result EXCEPT ![c] = [pull |-> 1, head |-> seen[c]]]
    <3>1. [pull |-> 1, head |-> seen[c]] \in [pull : Nat, head : Calls \union {NoRef}]
      OBVIOUS
    <3>2. result' \in [Calls -> [pull : Nat, head : Calls \union {NoRef}]]
      BY <2>6, <3>1
    <3>3. \A d \in Calls : pc'[d] = "delivered" <=> result'[d] # NoDelivery
      BY <2>6, <2>4
    <3> QED
      BY <2>1, <2>2, <2>6, <3>2, <3>3
  <2> QED
    BY <2>3, <2>5, <2>6
<1>6. ASSUME NEW c \in Calls, MakeCommit(c) PROVE TypeOK'
  BY <1>6 DEF MakeCommit, Goto, Requesting
<1>7. ASSUME NEW c \in Calls, CreateRef(c) PROVE TypeOK'
  <2>1. ref' \in Calls \union {NoRef, Foreign} /\ pulls' \in Seq(Pull)
    BY <1>7, CarryOutType DEF CreateRef
  <2>2. UNCHANGED <<late, touched, seen, head, result, outage>> /\ pc[c] = "create_ref"
    BY <1>7 DEF CreateRef
  <2>3. \E s \in {"create_pull", "look_ref"} : pc' = [pc EXCEPT ![c] = s]
    BY <1>7 DEF CreateRef, Goto, Lookup
  <2>4. after' \in [Calls -> {"start", "ref", "pull"}]
    BY <1>7 DEF CreateRef, Lookup
  <2>5. {"create_pull", "look_ref"} \subseteq Requesting \union {"failed"} /\ pc[c] # "delivered"
    BY <2>2 DEF Requesting
  <2>6. /\ pc' \in [Calls -> Requesting \union {"idle", "delivered", "failed", "interrupted"}]
        /\ \A d \in Calls : pc'[d] = "delivered" <=> result'[d] # NoDelivery
    BY <2>2, <2>3, <2>5, GoesOn
  <2> QED
    BY <2>1, <2>2, <2>4, <2>6 DEF Pull
<1>8. ASSUME NEW c \in Calls, CreatePull(c) PROVE TypeOK'
  <2>1. ref' \in Calls \union {NoRef, Foreign} /\ pulls' \in Seq(Pull)
    BY <1>8, CarryOutType DEF CreatePull
  <2>2. UNCHANGED <<late, touched, seen, head, outage>> /\ pc[c] = "create_pull"
    BY <1>8 DEF CreatePull
  <2>3. \/ UNCHANGED result /\ pc' = [pc EXCEPT ![c] = "look_ref"]
        \/ /\ pc' = [pc EXCEPT ![c] = "delivered"]
           /\ result' = [result EXCEPT ![c] = [pull |-> Len(pulls) + 1, head |-> head[c]]]
    BY <1>8 DEF CreatePull, Goto, Lookup, Deliver
  <2>4. after' \in [Calls -> {"start", "ref", "pull"}]
    BY <1>8 DEF CreatePull, Lookup
  <2>5. Len(pulls) + 1 \in Nat /\ [pull |-> Len(pulls) + 1, head |-> head[c]] # NoDelivery
    BY <1>0 DEF NoDelivery
  <2>6. CASE UNCHANGED result /\ pc' = [pc EXCEPT ![c] = "look_ref"]
    BY <2>1, <2>2, <2>4, <2>6 DEF Requesting, Pull
  <2>7. CASE /\ pc' = [pc EXCEPT ![c] = "delivered"]
             /\ result' = [result EXCEPT ![c] = [pull |-> Len(pulls) + 1, head |-> head[c]]]
    <3>1. [pull |-> Len(pulls) + 1, head |-> head[c]] \in [pull : Nat, head : Calls \union {NoRef}]
      BY <2>5
    <3>2. result' \in [Calls -> [pull : Nat, head : Calls \union {NoRef}]]
      BY <2>7, <3>1
    <3>3. \A d \in Calls : pc'[d] = "delivered" <=> result'[d] # NoDelivery
      BY <2>7, <2>5
    <3> QED
      BY <2>1, <2>2, <2>4, <2>7, <3>2, <3>3 DEF Pull
  <2> QED
    BY <2>3, <2>6, <2>7
<1>9. ASSUME NEW c \in Calls, Outage(c) PROVE TypeOK'
  BY <1>9 DEF Outage, GiveUp, Goto, Requesting
<1>10. ASSUME NEW c \in Calls, Interrupt(c) PROVE TypeOK'
  <2>1. pc[c] \in Requesting /\ c[2] = 1
    BY <1>10 DEF Interrupt, GiveUp
  <2>2. <<c[1], 2>> \in Calls /\ c # <<c[1], 2>> /\ pc[<<c[1], 2>>] = "idle"
    BY <2>1, SecondIsIdle
  <2>3. UNCHANGED <<ref, pulls, touched, seen, head, result, after, outage>>
    BY <1>10 DEF Interrupt, GiveUp
  <2>4. late' \subseteq {"create_ref", "create_pull"} \X Calls
    BY <1>10 DEF Interrupt, GiveUp
  <2>5. pc' = [pc EXCEPT ![c] = "interrupted", ![<<c[1], 2>>] = "look_ref"]
    BY <1>10 DEF Interrupt
  <2>6. /\ pc' \in [Calls -> Requesting \union {"idle", "delivered", "failed", "interrupted"}]
        /\ \A d \in Calls : pc'[d] = "delivered" <=> pc[d] = "delivered"
    BY <2>1, <2>2, <2>5 DEF Requesting
  <2> QED
    BY <2>3, <2>4, <2>6
<1>11. CASE LateEffect
  <2>1. PICK post \in late : CarryOut(post[1], post[2]) /\ late' = late \ {post}
    BY <1>11 DEF LateEffect
  <2>2. post[2] \in Calls
    BY <2>1
  <2>3. ref' \in Calls \union {NoRef, Foreign} /\ pulls' \in Seq(Pull)
    BY <2>1, <2>2, CarryOutType
  <2> QED
    BY <1>11, <2>1, <2>3 DEF LateEffect, Pull
<1>12. CASE People
  <2>1. touched' \in 0 .. MaxTouches
    BY <1>12 DEF People
  <2>2. ref' \in Calls \union {NoRef, Foreign}
    BY <1>12 DEF People
  <2>3. \A s \in {"draft", "ready"} : [by |-> Foreign, state |-> s] \in Pull
    BY DEF Pull
  <2>4. \A s \in {"draft", "ready"} : Append(pulls, [by |-> Foreign, state |-> s]) \in Seq(Pull)
    BY <2>3, <1>0, AppendPull
  <2>5. \A i \in DOMAIN pulls : pulls[i] \in Pull
    BY <1>0
  <2>6. \A i \in DOMAIN pulls, s \in {"ready", "closed"} :
          [pulls EXCEPT ![i].state = s] \in Seq(Pull)
    <3> TAKE i \in DOMAIN pulls, s \in {"ready", "closed"}
    <3>1. [pulls[i] EXCEPT !.state = s] \in Pull
      BY <2>5 DEF Pull
    <3>2. [pulls EXCEPT ![i].state = s] \in [DOMAIN pulls -> Pull]
      BY <3>1, <2>5, <1>0
    <3> QED
      BY <3>2, <1>0, ChangePulls
  <2>7. \A i \in DOMAIN pulls : [pulls[i] EXCEPT !.state = "closed"] \in Pull
    BY <2>5, ZenonT(40) DEF Pull
  <2>8. [i \in DOMAIN pulls |-> [pulls[i] EXCEPT !.state = "closed"]] \in Seq(Pull)
    <3>1. [i \in DOMAIN pulls |-> [pulls[i] EXCEPT !.state = "closed"]] \in [DOMAIN pulls -> Pull]
      BY <2>7
    <3> QED
      BY <3>1, <1>0, ChangePulls
  <2>9. \/ UNCHANGED pulls
        \/ pulls' = [i \in DOMAIN pulls |-> [pulls[i] EXCEPT !.state = "closed"]]
        \/ \E s \in {"draft", "ready"} : pulls' = Append(pulls, [by |-> Foreign, state |-> s])
        \/ \E i \in DOMAIN pulls, s \in {"ready", "closed"} : pulls' = [pulls EXCEPT ![i].state = s]
    BY <1>12 DEF People
  <2>10. pulls' \in Seq(Pull)
    <3>1. CASE UNCHANGED pulls
      BY <3>1, <1>0
    <3>2. CASE pulls' = [i \in DOMAIN pulls |-> [pulls[i] EXCEPT !.state = "closed"]]
      BY <3>2, <2>8
    <3>3. CASE \E s \in {"draft", "ready"} : pulls' = Append(pulls, [by |-> Foreign, state |-> s])
      <4>1. PICK s \in {"draft", "ready"} : pulls' = Append(pulls, [by |-> Foreign, state |-> s])
        BY <3>3
      <4>2. Append(pulls, [by |-> Foreign, state |-> s]) \in Seq(Pull)
        BY <2>4
      <4> QED
        BY ONLY <4>1, <4>2
    <3>4. CASE \E i \in DOMAIN pulls, s \in {"ready", "closed"} : pulls' = [pulls EXCEPT ![i].state = s]
      <4>1. PICK i \in DOMAIN pulls, s \in {"ready", "closed"} : pulls' = [pulls EXCEPT ![i].state = s]
        BY <3>4
      <4>2. [pulls EXCEPT ![i].state = s] \in Seq(Pull)
        BY <2>6
      <4> QED
        BY ONLY <4>1, <4>2
    <3> QED
      BY <2>9, <3>1, <3>2, <3>3, <3>4
  <2> QED
    BY <1>12, <2>1, <2>2, <2>10 DEF People, Pull
<1>13. CASE UNCHANGED vars
  BY <1>13 DEF vars
<1> QED
  BY <1>3, <1>4, <1>5, <1>6, <1>7, <1>8, <1>9, <1>10, <1>11, <1>12, <1>13 DEF Next, Step

\* A call that goes on, on its Attempt's turn.
LEMMA TurnsKept ==
  ASSUME TypeOK, Turns, NEW c \in Calls,
         pc[c] # "interrupted", pc[c] # "idle" \/ c[2] = 1,
         NEW s, s # "idle", s # "interrupted",
         pc' = [pc EXCEPT ![c] = s],
         \A d \in Calls \ {c} : after'[d] = after[d]
  PROVE  Turns'
<1>1. ASSUME NEW a \in Attempts, pc'[<<a, 1>>] # "interrupted"
      PROVE  pc'[<<a, 2>>] = "idle"
  <2>1. <<a, 1>> \in Calls /\ <<a, 2>> \in Calls /\ <<a, 1>> # <<a, 2>>
    BY CallsAre
  <2>2. pc[<<a, 1>>] # "interrupted"
    BY <1>1, <2>1 DEF TypeOK
  <2>3. pc[<<a, 2>>] = "idle"
    BY <2>2 DEF Turns
  <2>4. c # <<a, 2>>
    BY <2>3
  <2> QED
    BY <2>1, <2>3, <2>4 DEF TypeOK
<1>2. ASSUME NEW d \in Calls, pc'[d] = "idle" PROVE after'[d] = "start"
  <2>1. d # c /\ pc[d] = "idle"
    BY <1>2 DEF TypeOK
  <2> QED
    BY <2>1 DEF Turns
<1> QED
  BY <1>1, <1>2 DEF Turns

\* The turns are kept by every step.
LEMMA NextTurns == TypeOK /\ Turns /\ [Next]_vars => Turns'
<1> SUFFICES ASSUME TypeOK, Turns, [Next]_vars PROVE Turns'
  OBVIOUS
<1>1. ASSUME NEW c \in Calls, Begin(c) PROVE Turns'
  <2>1. pc[c] = "idle" /\ c[2] = 1 /\ pc' = [pc EXCEPT ![c] = "look_ref"]
        /\ after' = [after EXCEPT ![c] = "start"]
    BY <1>1 DEF Begin, Lookup, Goto
  <2>2. \A d \in Calls \ {c} : after'[d] = after[d]
    BY <2>1 DEF TypeOK
  <2> QED
    BY <2>1, <2>2, TurnsKept
<1>2. ASSUME NEW c \in Calls, Step(c) \/ Outage(c) PROVE Turns'
  <2>1. pc[c] \in Requesting
    BY <1>2 DEF Step, Outage, GiveUp, LookRef, LookPulls, MakeCommit, CreateRef, CreatePull, Requesting
  <2>2. after' = after \/ \E why \in {"ref", "pull"} : after' = [after EXCEPT ![c] = why]
    BY <1>2 DEF Step, Outage, LookRef, LookPulls, MakeCommit, CreateRef, CreatePull, Lookup
  <2>3. PICK s \in Requesting \union {"delivered", "failed"} : pc' = [pc EXCEPT ![c] = s]
    BY <1>2 DEF Step, Outage, LookRef, LookPulls, MakeCommit, CreateRef, CreatePull,
                Lookup, Deliver, Goto, Requesting
  <2>4. \A d \in Calls \ {c} : after'[d] = after[d]
    BY <2>2 DEF TypeOK
  <2>5. pc[c] # "interrupted" /\ pc[c] # "idle" /\ s # "interrupted" /\ s # "idle"
    BY <2>1, <2>3 DEF Requesting
  <2> QED
    BY <2>3, <2>4, <2>5, TurnsKept
<1>3. ASSUME NEW c \in Calls, Interrupt(c) PROVE Turns'
  <2>1. /\ pc[c] \in Requesting /\ c[2] = 1 /\ UNCHANGED after
        /\ pc' = [pc EXCEPT ![c] = "interrupted", ![<<c[1], 2>>] = "look_ref"]
    BY <1>3 DEF Interrupt, GiveUp
  <2>2. <<c[1], 2>> \in Calls /\ c # <<c[1], 2>> /\ c = <<c[1], 1>>
    BY <2>1, CallsAre
  <2>3. ASSUME NEW a \in Attempts, pc'[<<a, 1>>] # "interrupted"
        PROVE  pc'[<<a, 2>>] = "idle"
    <3>1. <<a, 1>> \in Calls /\ <<a, 2>> \in Calls
      BY CallsAre
    <3>2. a # c[1]
      BY <2>1, <2>2, <2>3, ZenonT(40) DEF TypeOK
    <3>3. <<a, 1>> # c /\ <<a, 1>> # <<c[1], 2>> /\ <<a, 2>> # c /\ <<a, 2>> # <<c[1], 2>>
      BY <3>2, <2>2
    <3> QED
      BY <2>1, <2>3, <3>1, <3>3 DEF TypeOK, Turns
  <2>4. ASSUME NEW d \in Calls, pc'[d] = "idle" PROVE after'[d] = "start"
    <3>1. pc[d] = "idle"
      BY <2>1, <2>2, <2>4 DEF TypeOK
    <3> QED
      BY <2>1, <3>1 DEF Turns
  <2> QED
    BY <2>3, <2>4 DEF Turns
<1>4. CASE LateEffect \/ People \/ UNCHANGED vars
  <2>1. UNCHANGED <<pc, after>>
    BY <1>4 DEF LateEffect, People, vars
  <2> QED
    BY <2>1 DEF Turns
<1> QED
  BY <1>1, <1>2, <1>3, <1>4 DEF Next

\* What a POST does while nobody has interfered: the branch is created but never
\* moved, and a pull request is opened only if there is none.
LEMMA PostUndisturbed ==
  ASSUME TypeOK, OnePull, NEW post, NEW c \in Calls, CarryOut(post, c)
  PROVE  /\ OnePull'
         /\ ref' = ref \/ (ref = NoRef /\ ref' = c)
         /\ pulls # <<>> => pulls' = pulls
<1>1. pulls \in Seq(Pull) /\ Len(pulls) \in Nat
  BY DEF TypeOK, Pull
<1>2. pulls # <<>> => ~MayOpen
  <2> SUFFICES ASSUME pulls # <<>> PROVE ~MayOpen
    OBVIOUS
  <2>1. 1 \in DOMAIN pulls
    BY <1>1
  <2>2. IsOpen(pulls[1])
    BY DEF OnePull, OwnPull, IsOpen
  <2> QED
    BY <2>1, <2>2 DEF MayOpen
<1>3. DraftBy(c) \in Pull /\ OwnPull(DraftBy(c))
  BY CallsAre DEF DraftBy, Pull, OwnPull, Calls
<1>4. c # NoRef /\ c # Foreign
  OBVIOUS
<1>5. CASE post = "create_ref"
  BY <1>4, <1>5 DEF CarryOut, OnePull
<1>6. CASE post # "create_ref" /\ MayOpen
  <2>1. ref # NoRef /\ ref' = ref /\ pulls' = Append(pulls, DraftBy(c))
    BY <1>6 DEF CarryOut, MayOpen
  <2>2. pulls = <<>>
    BY <1>2, <1>6
  <2>3. Len(pulls') = 1 /\ pulls'[1] = DraftBy(c)
    BY <2>1, <2>2
  <2> QED
    BY <2>1, <2>2, <2>3, <1>3 DEF OnePull
<1>7. CASE post # "create_ref" /\ ~MayOpen
  BY <1>7 DEF CarryOut, OnePull
<1> QED
  BY <1>5, <1>6, <1>7

\* A call that takes no step stays on course.
LEMMA Bystander ==
  ASSUME OnePull, NEW d \in Calls, OnCourse(d),
         pc'[d] = pc[d], after'[d] = after[d], seen'[d] = seen[d],
         head'[d] = head[d], result'[d] = result[d], outage'[d] = outage[d],
         ref' = ref \/ (ref = NoRef /\ ref' \in Calls),
         pulls # <<>> => pulls' # <<>>
  PROVE  OnCourse(d)'
<1>1. pulls # <<>> => ref # NoRef
  BY DEF OnePull
<1>2. ref' # ref => ref = NoRef /\ ref' # NoRef
  OBVIOUS
<1>3. pc[d] = "delivered" \/ (pc[d] \in {"look_ref", "look_pulls"} /\ after[d] = "pull")
         \/ pc[d] \in {"look_pulls", "create_pull"} => ref' = ref
  BY <1>1, <1>2 DEF OnCourse
<1> QED
  BY <1>1, <1>2, <1>3 DEF OnCourse

\* The calls in flight stay on course.
LEMMA NextConverging == PublishIInv /\ [Next]_vars => Converging'
<1> SUFFICES ASSUME PublishIInv, [Next]_vars, touched' = 0 PROVE OnePull' /\ \A d \in Calls : OnCourse(d)'
  BY DEF Converging
<1>1. TypeOK /\ Turns
  BY DEF PublishIInv
<1>2. touched = 0 /\ UNCHANGED touched
  <2>1. touched \in Nat
    BY <1>1 DEF TypeOK
  <2>2. ~People
    BY <2>1 DEF People
  <2> QED
    BY <2>2 DEF Next, vars, github, LateEffect, Begin, Step, LookRef, LookPulls, MakeCommit,
                CreateRef, CreatePull, Outage, Interrupt, GiveUp
<1>3. OnePull /\ \A d \in Calls : OnCourse(d)
  BY <1>2 DEF PublishIInv, Converging
<1>4. ASSUME NEW c \in Calls, Begin(c) PROVE OnePull' /\ \A d \in Calls : OnCourse(d)'
  <2>1. UNCHANGED <<github, seen, head, result, outage>>
    BY <1>4 DEF Begin
  <2>2. pc' = [pc EXCEPT ![c] = "look_ref"] /\ after' = [after EXCEPT ![c] = "start"]
    BY <1>4 DEF Begin, Lookup, Goto
  <2>3. OnCourse(c)'
    BY <2>2, <1>1 DEF OnCourse, TypeOK
  <2>4. \A d \in Calls \ {c} : OnCourse(d)'
    BY <2>1, <2>2, <1>1, <1>3, Bystander DEF github, TypeOK
  <2> QED
    BY <2>1, <2>3, <2>4, <1>3 DEF OnePull, github
<1>5. ASSUME NEW c \in Calls, LookRef(c) PROVE OnePull' /\ \A d \in Calls : OnCourse(d)'
  <2>1. UNCHANGED <<github, after, head, result, outage>> /\ pc[c] = "look_ref"
    BY <1>5 DEF LookRef
  <2>2. OnCourse(c) /\ ref # Foreign
    BY <1>3 DEF OnePull
  <2>3. OnCourse(c)'
    <3>1. CASE ref = NoRef
      <4>1. after[c] = "start"
        BY <2>1, <2>2, <3>1 DEF OnCourse
      <4>2. pc'[c] = "make_commit"
        BY <1>5, <3>1, <4>1, <1>1 DEF LookRef, Goto, TypeOK
      <4> QED
        BY <4>2 DEF OnCourse
    <3>2. CASE ref \in Calls
      <4>1. pc'[c] = "look_pulls" /\ seen'[c] = ref
        BY <1>5, <3>2, <1>1, <2>2 DEF LookRef, Goto, TypeOK
      <4> QED
        BY <4>1, <3>2, <2>1, <2>2 DEF OnCourse, github
    <3> QED
      BY <3>1, <3>2, <2>2, <1>1 DEF TypeOK
  <2>4. \A d \in Calls \ {c} : pc'[d] = pc[d] /\ seen'[d] = seen[d]
    BY <1>5, <1>1 DEF LookRef, Goto, TypeOK
  <2>5. \A d \in Calls \ {c} : OnCourse(d)'
    BY <2>1, <2>4, <1>3, Bystander DEF github
  <2> QED
    BY <2>1, <2>3, <2>5, <1>3 DEF OnePull, github
<1>6. ASSUME NEW c \in Calls, LookPulls(c) PROVE OnePull' /\ \A d \in Calls : OnCourse(d)'
  <2>1. UNCHANGED <<github, after, seen, outage>> /\ pc[c] = "look_pulls"
    BY <1>6 DEF LookPulls
  <2>2. ref # NoRef /\ seen[c] = ref /\ (after[c] = "pull" => pulls # <<>> /\ head[c] = ref)
    BY <2>1, <1>3 DEF OnCourse
  <2>3. pulls \in Seq(Pull) /\ Len(pulls) \in Nat
    BY <1>1 DEF TypeOK, Pull
  <2>4. OnCourse(c)'
    <3>1. CASE pulls = <<>>
      <4>1. pc'[c] = "create_pull" /\ head'[c] = seen[c]
        BY <1>6, <3>1, <2>2, <1>1 DEF LookPulls, Goto, TypeOK
      <4> QED
        BY <4>1, <2>1, <2>2 DEF OnCourse, github
    <3>2. CASE pulls # <<>>
      <4>0. Len(pulls) # 0
        BY <3>2, <2>3, EmptySeq
      <4>1. Len(pulls) = 1 /\ OwnPull(pulls[1])
        <5>1. Len(pulls) <= 1 /\ OwnPull(pulls[1])
          BY <3>2, <1>3 DEF OnePull
        <5>2. ASSUME NEW n \in Nat, n # 0, n <= 1 PROVE n = 1
          BY <5>2
        <5>3. Len(pulls) = 1
          BY <4>0, <5>1, <5>2, <2>3, Zenon
        <5>4. QED BY <5>1, <5>3
      <4>2. Deliver(c, 1, seen[c])
        BY <1>6, <3>2, <4>1, <2>2 DEF LookPulls
      <4>3. pc'[c] = "delivered" /\ result'[c] = [pull |-> 1, head |-> ref]
        BY <4>2, <2>2, <1>1 DEF Deliver, Goto, TypeOK
      <4> QED
        BY <4>3, <3>2, <2>1 DEF OnCourse, github
    <3> QED
      BY <3>1, <3>2
  <2>5. \A d \in Calls \ {c} : pc'[d] = pc[d] /\ head'[d] = head[d] /\ result'[d] = result[d]
    BY <1>6, <1>1 DEF LookPulls, Goto, Deliver, TypeOK
  <2>6. \A d \in Calls \ {c} : OnCourse(d)'
    BY <2>1, <2>5, <1>3, Bystander DEF github
  <2> QED
    BY <2>1, <2>4, <2>6, <1>3 DEF OnePull, github
<1>7. ASSUME NEW c \in Calls, MakeCommit(c) PROVE OnePull' /\ \A d \in Calls : OnCourse(d)'
  <2>1. UNCHANGED <<github, after, seen, result, outage>>
    BY <1>7 DEF MakeCommit
  <2>2. pc' = [pc EXCEPT ![c] = "create_ref"] /\ head' = [head EXCEPT ![c] = c]
    BY <1>7 DEF MakeCommit, Goto
  <2>3. OnCourse(c)'
    BY <2>2, <1>1 DEF OnCourse, TypeOK
  <2>4. \A d \in Calls \ {c} : OnCourse(d)'
    BY <2>1, <2>2, <1>1, <1>3, Bystander DEF github, TypeOK
  <2> QED
    BY <2>1, <2>3, <2>4, <1>3 DEF OnePull, github
<1>8. ASSUME NEW c \in Calls, CreateRef(c) PROVE OnePull' /\ \A d \in Calls : OnCourse(d)'
  <2>1. CarryOut("create_ref", c) /\ UNCHANGED <<seen, head, result, outage>> /\ pc[c] = "create_ref"
    BY <1>8 DEF CreateRef
  <2>2. OnePull' /\ (ref' = ref \/ (ref = NoRef /\ ref' = c)) /\ (pulls # <<>> => pulls' = pulls)
    BY <2>1, <1>1, <1>3, PostUndisturbed
  <2>3. OnCourse(c)'
    <3>1. CASE ref = NoRef
      <4>1. pc'[c] = "create_pull" /\ ref' = c
        BY <1>8, <2>1, <3>1, <1>1 DEF CreateRef, Goto, TypeOK, CarryOut
      <4>2. head[c] = c
        BY <2>1, <1>1 DEF PublishIInv, OwnCommit
      <4> QED
        BY <4>1, <4>2, <2>1 DEF OnCourse
    <3>2. CASE ref # NoRef
      <4>1. pc'[c] = "look_ref" /\ after'[c] = "ref"
        BY <1>8, <3>2, <1>1 DEF CreateRef, Goto, Lookup, TypeOK
      <4> QED
        BY <4>1, <3>2, <2>2 DEF OnCourse
    <3> QED
      BY <3>1, <3>2
  <2>4. \A d \in Calls \ {c} : pc'[d] = pc[d] /\ after'[d] = after[d]
    BY <1>8, <1>1 DEF CreateRef, Goto, Lookup, TypeOK
  <2>5. \A d \in Calls \ {c} : OnCourse(d)'
    BY <2>1, <2>2, <2>4, <1>3, Bystander
  <2> QED
    BY <2>2, <2>3, <2>5
<1>9. ASSUME NEW c \in Calls, CreatePull(c) PROVE OnePull' /\ \A d \in Calls : OnCourse(d)'
  <2>1. CarryOut("create_pull", c) /\ UNCHANGED <<seen, head, outage>> /\ pc[c] = "create_pull"
    BY <1>9 DEF CreatePull
  <2>2. OnePull' /\ (ref' = ref \/ (ref = NoRef /\ ref' = c)) /\ (pulls # <<>> => pulls' = pulls)
    BY <2>1, <1>1, <1>3, PostUndisturbed
  <2>3. ref # NoRef /\ head[c] = ref
    BY <2>1, <1>3 DEF OnCourse
  <2>4. pulls \in Seq(Pull) /\ Len(pulls) \in Nat
    BY <1>1 DEF TypeOK, Pull
  <2>5. OnCourse(c)'
    <3>1. CASE MayOpen
      <4>1. pulls = <<>>
        <5>1. pulls # <<>> => 1 \in DOMAIN pulls /\ IsOpen(pulls[1])
          BY <2>4, <1>3 DEF OnePull, OwnPull, IsOpen
        <5> QED
          BY <5>1, <3>1 DEF MayOpen
      <4>2. pulls' = Append(pulls, DraftBy(c)) /\ pulls' # <<>>
        BY <2>1, <2>4, <3>1 DEF CarryOut
      <4>3. pc'[c] = "delivered" /\ result'[c] = [pull |-> Len(pulls) + 1, head |-> head[c]]
        BY <1>9, <3>1, <1>1 DEF CreatePull, Deliver, Goto, TypeOK
      <4>4. Len(pulls) + 1 = 1
        BY <4>1
      <4> QED
        BY <4>2, <4>3, <4>4, <2>2, <2>3 DEF OnCourse
    <3>2. CASE ~MayOpen
      <4>1. pc'[c] = "look_ref" /\ after'[c] = "pull"
        BY <1>9, <3>2, <1>1 DEF CreatePull, Goto, Lookup, TypeOK
      <4>2. pulls # <<>>
        BY <3>2, <2>3 DEF MayOpen
      <4> QED
        BY <4>1, <4>2, <2>1, <2>2, <2>3 DEF OnCourse
    <3> QED
      BY <3>1, <3>2
  <2>6. \A d \in Calls \ {c} : pc'[d] = pc[d] /\ after'[d] = after[d] /\ result'[d] = result[d]
    BY <1>9, <1>1 DEF CreatePull, Goto, Lookup, Deliver, TypeOK
  <2>7. \A d \in Calls \ {c} : OnCourse(d)'
    BY <2>1, <2>2, <2>6, <1>3, Bystander
  <2> QED
    BY <2>2, <2>5, <2>7
<1>10. ASSUME NEW c \in Calls, Outage(c) PROVE OnePull' /\ \A d \in Calls : OnCourse(d)'
  <2>1. UNCHANGED <<ref, pulls, seen, head, result, after>>
    BY <1>10 DEF Outage, GiveUp
  <2>2. pc' = [pc EXCEPT ![c] = "failed"] /\ outage' = [outage EXCEPT ![c] = TRUE]
    BY <1>10 DEF Outage, Goto
  <2>3. OnCourse(c)'
    BY <2>2, <1>1 DEF OnCourse, TypeOK
  <2>4. \A d \in Calls \ {c} : OnCourse(d)'
    BY <2>1, <2>2, <1>1, <1>3, Bystander DEF TypeOK
  <2> QED
    BY <2>1, <2>3, <2>4, <1>3 DEF OnePull
<1>11. ASSUME NEW c \in Calls, Interrupt(c) PROVE OnePull' /\ \A d \in Calls : OnCourse(d)'
  <2>1. UNCHANGED <<ref, pulls, seen, head, result, after, outage>> /\ pc[c] \in Requesting /\ c[2] = 1
    BY <1>11 DEF Interrupt, GiveUp
  <2>2. pc' = [pc EXCEPT ![c] = "interrupted", ![<<c[1], 2>>] = "look_ref"]
    BY <1>11 DEF Interrupt
  <2>3. <<c[1], 2>> \in Calls /\ c # <<c[1], 2>> /\ pc[<<c[1], 2>>] = "idle"
    BY <2>1, <1>1, SecondIsIdle
  <2>4. after[<<c[1], 2>>] = "start"
    BY <2>3, <1>1 DEF Turns
  <2>5. pc'[c] = "interrupted" /\ pc'[<<c[1], 2>>] = "look_ref"
    BY <2>2, <2>3, <1>1 DEF TypeOK
  <2>6. OnCourse(c)' /\ OnCourse(<<c[1], 2>>)'
    BY <2>1, <2>4, <2>5 DEF OnCourse
  <2>7. \A d \in Calls \ {c, <<c[1], 2>>} : OnCourse(d)'
    BY <2>1, <2>2, <1>1, <1>3, Bystander DEF TypeOK
  <2> QED
    BY <2>1, <2>6, <2>7, <1>3 DEF OnePull
<1>12. CASE LateEffect
  <2>1. PICK post \in late : CarryOut(post[1], post[2])
    BY <1>12 DEF LateEffect
  <2>2. post[2] \in Calls
    BY <2>1, <1>1 DEF TypeOK
  <2>3. OnePull' /\ (ref' = ref \/ (ref = NoRef /\ ref' = post[2])) /\ (pulls # <<>> => pulls' = pulls)
    BY <2>1, <2>2, <1>1, <1>3, PostUndisturbed
  <2>4. UNCHANGED <<pc, after, seen, head, result, outage>>
    BY <1>12 DEF LateEffect
  <2> QED
    BY <2>2, <2>3, <2>4, <1>3, Bystander
<1>13. CASE UNCHANGED vars
  BY <1>3, <1>13 DEF vars, OnePull, OnCourse
<1>14. ~People
  <2>1. touched \in Nat
    BY <1>1 DEF TypeOK
  <2> QED
    BY <1>2, <2>1 DEF People
<1> QED
  BY <1>4, <1>5, <1>6, <1>7, <1>8, <1>9, <1>10, <1>11, <1>12, <1>13, <1>14 DEF Next, Step

\* A call at its POST of the ref holds the commit it has made.
LEMMA NextOwnCommit == TypeOK /\ OwnCommit /\ [Next]_vars => OwnCommit'
<1> SUFFICES ASSUME TypeOK, OwnCommit, [Next]_vars, NEW d \in Calls, pc'[d] = "create_ref"
             PROVE  head'[d] = d
  BY DEF OwnCommit
<1>1. ASSUME NEW c \in Calls, MakeCommit(c) PROVE head'[d] = d
  BY <1>1 DEF MakeCommit, Goto, TypeOK, OwnCommit
<1>2. ASSUME NEW c \in Calls,
             Begin(c) \/ LookRef(c) \/ LookPulls(c) \/ CreateRef(c) \/ CreatePull(c) \/ Outage(c)
      PROVE  head'[d] = d
  <2>1. \E s \in {"look_ref", "make_commit", "look_pulls", "failed", "create_pull", "delivered"} :
           pc' = [pc EXCEPT ![c] = s]
    BY <1>2 DEF Begin, LookRef, LookPulls, CreateRef, CreatePull, Outage, Goto, Lookup, Deliver
  <2>2. d # c /\ pc[d] = "create_ref"
    BY <2>1 DEF TypeOK
  <2>3. head'[d] = head[d]
    BY <1>2, <2>2 DEF Begin, LookRef, LookPulls, CreateRef, CreatePull, Outage, GiveUp, TypeOK
  <2> QED
    BY <2>2, <2>3 DEF OwnCommit
<1>3. ASSUME NEW c \in Calls, Interrupt(c) PROVE head'[d] = d
  <2>1. UNCHANGED head /\ c[2] = 1 /\ pc' = [pc EXCEPT ![c] = "interrupted", ![<<c[1], 2>>] = "look_ref"]
    BY <1>3 DEF Interrupt, GiveUp
  <2>2. pc[d] = "create_ref"
    BY <2>1, CallsAre DEF TypeOK
  <2> QED
    BY <2>1, <2>2 DEF OwnCommit
<1>4. CASE LateEffect \/ People \/ UNCHANGED vars
  BY <1>4 DEF LateEffect, People, vars, OwnCommit
<1> QED
  BY <1>1, <1>2, <1>3, <1>4 DEF Next, Step

\* The invariant holds in every reachable state.
LEMMA PublishInvariance == Spec => []PublishIInv
<1>1. PublishIInv /\ [Next]_vars => PublishIInv'
  BY NextType, NextTurns, NextOwnCommit, NextConverging DEF PublishIInv
<1> QED
  BY PublishInitIInv, <1>1, PTL DEF Spec

\* For any Attempts: variables keep their ranges, only calls that deliver have a
\* result, and no call takes a foreign commit for its Job's.
THEOREM PublishTypeCorrect == Spec => []TypeOK
<1>1. PublishIInv => TypeOK
  BY DEF PublishIInv
<1> QED
  BY PublishInvariance, <1>1, PTL

\* For any Attempts, however their calls, replays and late POSTs interleave: while
\* nobody interferes, there is at most one pull request, and every call that
\* delivers returns it with the branch's head.
THEOREM Delivery == Spec => []OneDelivery
<1>1. PublishIInv => OneDelivery
  BY DEF PublishIInv, Converging, OnePull, OnCourse, OneDelivery
<1> QED
  BY PublishInvariance, <1>1, PTL

\* For any Attempts: a call fails only if people interfered or it met an outage.
THEOREM Convergence == Spec => []ConvergesUnlessDisturbed
<1>1. PublishIInv => ConvergesUnlessDisturbed
  BY DEF PublishIInv, Converging, OnCourse, ConvergesUnlessDisturbed, TypeOK
<1> QED
  BY PublishInvariance, <1>1, PTL

\* For any Attempts and any interference: what a call delivers is a pull request of
\* this Job that is an open draft at that moment.
THEOREM OwnDrafts == Spec => DeliversOwnDraft
<1> DEFINE Delivers(d) == pc[d] # "delivered" /\ pc'[d] = "delivered"
           Drafted(d) == /\ pulls'[result'[d].pull].by \in Attempts
                         /\ pulls'[result'[d].pull].state = "draft"
<1>1. ASSUME TypeOK, Next, NEW d \in Calls, Delivers(d) PROVE Drafted(d)
  <2>0. pulls \in Seq(Pull) /\ Len(pulls) \in Nat
    BY <1>1 DEF TypeOK, Pull
  <2>1. ASSUME NEW c \in Calls, LookPulls(c) PROVE Drafted(d)
    <3>1. c = d
      BY <1>1, <2>1 DEF LookPulls, Goto, Deliver, TypeOK
    <3>2. Len(pulls) = 1 /\ OwnPull(pulls[1]) /\ Deliver(c, 1, seen[c]) /\ pulls' = pulls
      BY <1>1, <2>1, <3>1 DEF LookPulls, Goto, TypeOK, github
    <3>3. result'[d].pull = 1
      BY <3>1, <3>2, <1>1 DEF Deliver, TypeOK
    <3>4. pulls[1] \in Pull
      BY <2>0, <3>2
    <3> QED
      BY <3>2, <3>3, <3>4 DEF OwnPull, Pull
  <2>2. ASSUME NEW c \in Calls, CreatePull(c) PROVE Drafted(d)
    <3>1. c = d
      BY <1>1, <2>2 DEF CreatePull, Lookup, Goto, Deliver, TypeOK
    <3>2. MayOpen /\ Deliver(c, Len(pulls) + 1, head[c])
      BY <1>1, <2>2, <3>1 DEF CreatePull, Lookup, Goto, TypeOK
    <3>3. pulls' = Append(pulls, DraftBy(c))
      BY <2>2, <3>2 DEF CreatePull, CarryOut
    <3>4. DraftBy(c) \in Pull /\ DraftBy(c).by \in Attempts /\ DraftBy(c).state = "draft"
      BY CallsAre DEF DraftBy, Pull
    <3>5. result'[d].pull = Len(pulls) + 1
      BY <3>1, <3>2, <1>1 DEF Deliver, TypeOK
    <3>6. pulls'[Len(pulls) + 1] = DraftBy(c)
      BY <3>3, <3>4, <2>0, AppendPull
    <3> QED
      BY <3>4, <3>5, <3>6
  <2>3. ASSUME NEW c \in Calls,
               Begin(c) \/ LookRef(c) \/ MakeCommit(c) \/ CreateRef(c) \/ Outage(c)
        PROVE  Drafted(d)
    <3>1. \E s \in {"look_ref", "make_commit", "look_pulls", "create_ref", "create_pull", "failed"} :
             pc' = [pc EXCEPT ![c] = s]
      BY <2>3 DEF Begin, LookRef, MakeCommit, CreateRef, Outage, Goto, Lookup
    <3> QED
      BY <1>1, <3>1 DEF TypeOK
  <2>4. ASSUME NEW c \in Calls, Interrupt(c) PROVE Drafted(d)
    <3>1. pc' = [pc EXCEPT ![c] = "interrupted", ![<<c[1], 2>>] = "look_ref"]
      BY <2>4 DEF Interrupt
    <3> QED
      BY <1>1, <3>1 DEF TypeOK
  <2>5. CASE LateEffect \/ People
    BY <1>1, <2>5 DEF LateEffect, People
  <2> QED
    BY <1>1, <2>1, <2>2, <2>3, <2>4, <2>5 DEF Next, Step
<1>2. ASSUME TypeOK, [Next]_vars
      PROVE  [\A c \in Calls :
               pc[c] # "delivered" /\ pc'[c] = "delivered" =>
                 LET pull == pulls'[result'[c].pull]
                 IN pull.by \in Attempts /\ pull.state = "draft"]_vars
  BY <1>1, <1>2
<1> QED
  BY PublishTypeCorrect, <1>2, PTL DEF Spec, DeliversOwnDraft

=============================================================================
