-------------------------- MODULE RepositorySource --------------------------
(***************************************************************************)
(* How the trusted side reaches a Repository: an API process resolves the  *)
(* target of a submission, a Worker's Attempts fetch the archive of their  *)
(* base commit.  Each first looks at the installation, then takes a token  *)
(* from the process's cache, where one caller at a time issues one, reads  *)
(* the commit or branch, and an Attempt downloads and normalises the       *)
(* archive.  Reads are tried again, GitHub may answer late or not at all,  *)
(* and an Attempt may be cancelled at every await.                         *)
(***************************************************************************)
EXTENDS Naturals, FiniteSets

CONSTANTS
    Preparations,       \* Attempts of one Worker that prepare their Repository
    Submissions,    \* submissions of one API process whose target is resolved
    Nobody,         \* no caller
    Tries,          \* times a read or a token request is sent (3)
    Life,           \* life of an issued token
    Margin,         \* remaining life below which a token is not used (60 s)
    IssueTime,      \* longest time one issue takes, its retries included
    MaxTime         \* bound of the clock

ASSUME SourceConstants ==
    /\ Nobody \notin Preparations \cup Submissions
    /\ Tries \in Nat \ {0} /\ Margin \in Nat /\ IssueTime \in Nat /\ MaxTime \in Nat \ {0}
    /\ Life \in Nat /\ Life > Margin + IssueTime

Callers == Preparations \cup Submissions

Processes == {"worker", "api"}

\* Each process has a cache of its own.
ProcessOf(c) == IF c \in Preparations THEN "worker" ELSE "api"

VARIABLES
    clock,      \* seconds
    cached,     \* expiry of each process's cached token, 0 when none
    lock,       \* who holds the lock of the cache's key
    at,         \* what a caller is awaiting
    tries,      \* how often that was sent
    since,      \* the caller's clock when it asked for a token, then its issue's start
    fresh,      \* whether its token had the margin to live when it was returned
    raw,        \* the downloaded archive in an Attempt's state directory
    ready,      \* whether the normalised archive and its manifest are there
    ending      \* how a caller ended

sourceVars == <<clock, cached, lock, at, tries, since, fresh, raw, ready, ending>>

SourceInit ==
    /\ clock = 1
    /\ cached = [p \in Processes |-> 0]
    /\ lock = [p \in Processes |-> Nobody]
    /\ at = [c \in Callers |-> "idle"]
    /\ tries = [c \in Callers |-> 0]
    /\ since = [c \in Callers |-> 0]
    /\ fresh = [c \in Callers |-> TRUE]
    /\ raw = [c \in Callers |-> "none"]
    /\ ready = [c \in Callers |-> FALSE]
    /\ ending = [c \in Callers |-> "none"]

\* The next thing awaited, not sent yet.
Goes(c, place) ==
    /\ at' = [at EXCEPT ![c] = place]
    /\ tries' = [tries EXCEPT ![c] = 0]

\* The caller ends: a lock it holds is released by async with.
Ends(c, how) ==
    /\ Goes(c, "over")
    /\ ending' = [ending EXCEPT ![c] = how]
    /\ lock' = [p \in Processes |-> IF lock[p] = c THEN Nobody ELSE lock[p]]

\* A transport error, 429 or 5xx: sent again after a pause, or given up.
NoAnswer(c) ==
    IF tries[c] + 1 < Tries
      THEN /\ tries' = [tries EXCEPT ![c] = @ + 1]
           /\ UNCHANGED <<at, ending, lock>>
      ELSE Ends(c, "unavailable")

Enter(c) ==
    /\ at[c] = "idle"
    /\ Goes(c, "installation")
    /\ UNCHANGED <<clock, cached, lock, since, fresh, raw, ready, ending>>

-----------------------------------------------------------------------------
(* The installation and the token.                                         *)

\* Suspended installations and wrong permissions are refused each time.
Installation(c) ==
    /\ at[c] = "installation"
    /\ \/ /\ Goes(c, "token")
          /\ since' = [since EXCEPT ![c] = clock]
          /\ UNCHANGED <<ending, lock>>
       \/ (NoAnswer(c) \/ Ends(c, "rejected")) /\ UNCHANGED since
    /\ UNCHANGED <<clock, cached, fresh, raw, ready>>

\* Mutant of Usable: a token is used up to its expiry
Usable_NoMargin(expiry, now) == expiry > now

\* Whether a token may still be used, by the clock the caller read.
Usable(expiry, now) == expiry > now + Margin

Cached(c) ==
    LET p == ProcessOf(c)
    IN  /\ at[c] = "token" /\ lock[p] = Nobody
        /\ Usable(cached[p], since[c])
        /\ Goes(c, "look")
        /\ fresh' = [fresh EXCEPT ![c] = cached[p] > clock + Margin]
        /\ since' = [since EXCEPT ![c] = 0]
        /\ UNCHANGED <<clock, cached, lock, raw, ready, ending>>

BeginIssue(c) ==
    LET p == ProcessOf(c)
    IN  /\ at[c] = "token" /\ lock[p] = Nobody
        /\ ~Usable(cached[p], since[c])
        /\ lock' = [lock EXCEPT ![p] = c]
        /\ Goes(c, "issue")
        /\ since' = [since EXCEPT ![c] = clock]
        /\ UNCHANGED <<clock, cached, fresh, raw, ready, ending>>

\* GitHub's answer may reach the process some time after the token was made.
Issued(c) ==
    LET p == ProcessOf(c)
    IN  /\ at[c] = "issue"
        /\ \E expiry \in (since[c] + Life)..(clock + Life) :
              /\ cached' = [cached EXCEPT ![p] = expiry]
              /\ fresh' = [fresh EXCEPT ![c] = expiry > clock + Margin]
        /\ lock' = [lock EXCEPT ![p] = Nobody]
        /\ Goes(c, "look")
        /\ since' = [since EXCEPT ![c] = 0]
        /\ UNCHANGED <<clock, raw, ready, ending>>

IssueFails(c) ==
    /\ at[c] = "issue"
    /\ NoAnswer(c) \/ Ends(c, "rejected")
    /\ UNCHANGED <<clock, cached, since, fresh, raw, ready>>

-----------------------------------------------------------------------------
(* The commit and its archive.                                             *)

\* An Attempt reads the base commit and walks its trees for submodules; a
\* submission reads the repository and its branch, and has its target.
Look(c) ==
    /\ at[c] = "look"
    /\ \/ c \in Preparations /\ Goes(c, "download") /\ UNCHANGED <<ending, lock>>
       \/ c \in Submissions /\ Ends(c, "resolved")
       \/ NoAnswer(c)
       \/ Ends(c, "rejected")
    /\ UNCHANGED <<clock, cached, since, fresh, raw, ready>>

\* The redirect is followed and the archive written from its beginning.
StartDownload(c) ==
    /\ at[c] = "download" /\ raw[c] = "none"
    /\ raw' = [raw EXCEPT ![c] = "part"]
    /\ UNCHANGED <<clock, cached, lock, at, tries, since, fresh, ready, ending>>

Downloaded(c) ==
    /\ at[c] = "download" /\ raw[c] = "part"
    /\ raw' = [raw EXCEPT ![c] = "whole"]
    /\ Goes(c, "normalise")
    /\ UNCHANGED <<clock, cached, lock, since, fresh, ready, ending>>

\* What was written is removed, then the download tried again or given up; a
\* refusal, an untrusted redirect or an archive that is too large ends it.
DownloadFails(c) ==
    /\ at[c] = "download"
    /\ raw' = [raw EXCEPT ![c] = "none"]
    /\ NoAnswer(c) \/ Ends(c, "rejected") \/ Ends(c, "unavailable")
    /\ UNCHANGED <<clock, cached, since, fresh, ready>>

\* Normalisation runs without an await; its outputs go when it refuses the
\* archive, the download goes in any case.
Normalise(c) ==
    /\ at[c] = "normalise"
    /\ raw' = [raw EXCEPT ![c] = "none"]
    /\ \/ ready' = [ready EXCEPT ![c] = TRUE] /\ Ends(c, "prepared")
       \/ ready' = [ready EXCEPT ![c] = FALSE] /\ Ends(c, "rejected")
    /\ UNCHANGED <<clock, cached, since, fresh>>

\* The Attempt is cancelled, or the submission's client leaves.
Cancel(c) ==
    /\ at[c] \in {"installation", "token", "issue", "look", "download"}
    /\ Ends(c, "cancelled")
    /\ UNCHANGED <<clock, cached, since, fresh, raw, ready>>

\* Time passes while something is awaited: an issue is over after IssueTime,
\* its timeouts see to it, and a lock that is free is fresh at once.
Tick ==
    /\ clock < MaxTime
    /\ \A c \in Callers : at[c] = "token" => lock[ProcessOf(c)] # Nobody
    /\ \A c \in Callers : at[c] = "issue" => clock < since[c] + IssueTime
    /\ clock' = clock + 1
    /\ UNCHANGED <<cached, lock, at, tries, since, fresh, raw, ready, ending>>

Steps(c) ==
    \/ Installation(c) \/ Cached(c) \/ BeginIssue(c) \/ Issued(c) \/ IssueFails(c)
    \/ Look(c) \/ StartDownload(c) \/ Downloaded(c) \/ DownloadFails(c) \/ Normalise(c)

SourceNext == Tick \/ \E c \in Callers : Enter(c) \/ Steps(c) \/ Cancel(c)

\* Every request ends, by an answer or by its time limit, and an event loop
\* runs what it has ended.
SourceSpec ==
    /\ SourceInit /\ [][SourceNext]_sourceVars
    /\ \A c \in Callers : WF_sourceVars(Steps(c))

-----------------------------------------------------------------------------
(* Properties.                                                             *)

SourceTypeOK ==
    /\ clock \in 1..MaxTime
    /\ cached \in [Processes -> 0..(MaxTime + Life)]
    /\ lock \in [Processes -> Callers \cup {Nobody}]
    /\ at \in [Callers -> {"idle", "installation", "token", "issue", "look",
                           "download", "normalise", "over"}]
    /\ tries \in [Callers -> 0..Tries] /\ since \in [Callers -> 0..MaxTime]
    /\ fresh \in [Callers -> BOOLEAN]
    /\ raw \in [Callers -> {"none", "part", "whole"}] /\ ready \in [Callers -> BOOLEAN]
    /\ ending \in [Callers -> {"none", "unavailable", "rejected", "cancelled",
                               "resolved", "prepared"}]

\* A caller's token has more than the margin to live when it is returned, even
\* to a caller that read the clock before it waited for another's issue
\* (client.py:57-71 takes now before the lock).
TokenIsFresh ==
    \A c \in Callers : fresh[c]

\* An Attempt that has ended keeps its archive and manifest exactly when it
\* is prepared, and the credential-fetched download only when it was cancelled
\* in the middle of it (adapter.py:149-176, client.py:296-354).
NothingIsLeft ==
    \A c \in Preparations : at[c] = "over" =>
        /\ ready[c] <=> ending[c] = "prepared"
        /\ raw[c] # "none" => ending[c] = "cancelled"

\* Whoever began ends: no failure leaves the lock behind, no retry is without
\* bound (client.py:66-71, 142-186, 296-354).
EverybodyEnds ==
    \A c \in Callers : at[c] = "installation" ~> at[c] = "over"

=============================================================================
