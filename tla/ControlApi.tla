------------------------------- MODULE ControlApi -------------------------------
(***************************************************************************)
(* The Control API at the granularity of its database statements           *)
(* (platform/api/app.py with platform/persistence/repositories.py):        *)
(* POST /v1/jobs with an Idempotency-Key, by several calls at once, and    *)
(* the Job's event log, which transactions append to while clients follow  *)
(* it through GET /v1/jobs/{id}/events/stream and reconnect.               *)
(*                                                                         *)
(* All calls have one Requester and one key; their bodies may differ.      *)
(* What the repository resolver answers is chosen freely.                  *)
(***************************************************************************)
EXTENDS Naturals, Sequences, FiniteSets

CONSTANTS
    Calls,          \* calls of POST /v1/jobs
    BodyOf,         \* call |-> request_hash of its body
    NoSuchJob,          \* no Job: one is named by the call that made it
    Writers,        \* transactions that append to the Job's events
    NoWriter,
    MaxSequence,    \* bound: number of the last event
    PageLimit,      \* events of one page (100)
    MaxConnections  \* bound: connections of the client

ASSUME ControlAssumption ==
    /\ NoWriter \notin Writers /\ NoSuchJob \notin Calls /\ PageLimit \in Nat \ {0}

VARIABLES
    step,           \* call: where its handler is, or its answer
    jobs,           \* committed Jobs with the key: [by, hash]
    inserted,       \* the call whose insert is not committed, {} or a singleton
    answer,         \* call: the Job in its answer
    log,            \* committed event numbers
    nextSequence,   \* Job.next_event_sequence, as the holder of the row sees it
    holder,         \* the transaction that has the Job's row locked
    drafts,         \* transaction: its events, not committed
    deleted,        \* retention has deleted the Job
    stream,         \* "closed", "open" or "gone"
    cursor,         \* of the generator
    page,           \* rows it has read and not yielded
    got,            \* the event ids the client has, in order
    connections     \* how often the client has connected

submitVars == <<step, jobs, inserted, answer>>
logVars == <<log, nextSequence, holder, drafts, deleted>>
streamVars == <<stream, cursor, page, got, connections>>
controlVars == <<submitVars, logVars, streamVars>>

ControlInit ==
    /\ step = [c \in Calls |-> "begun"] /\ jobs = {} /\ inserted = {}
    /\ answer = [c \in Calls |-> NoSuchJob]
    /\ log = {} /\ nextSequence = 0 /\ holder = NoWriter /\ deleted = FALSE
    /\ drafts = [w \in Writers |-> {}]
    /\ stream = "closed" /\ cursor = 0 /\ page = <<>> /\ got = <<>> /\ connections = 0

-----------------------------------------------------------------------------
(* Submission. *)

At(c, s) == step[c] = s
Answered(c, how, job) ==
    step' = [step EXCEPT ![c] = how] /\ answer' = [answer EXCEPT ![c] = job]

\* lookup_idempotent_job: replayed, conflict, or not there
Lookup(c, else) ==
    \/ \E j \in jobs : j.hash = BodyOf[c] /\ Answered(c, "replayed", j.by)
    \/ \E j \in jobs : j.hash # BodyOf[c] /\ Answered(c, "conflict", NoSuchJob)
    \/ jobs = {} /\ Answered(c, else, NoSuchJob)

\* create_job of the API: look the key up, then resolve the repository
FirstLookup(c) == At(c, "begun") /\ Lookup(c, "resolving") /\ UNCHANGED <<jobs, inserted>>
Resolve(c) ==
    /\ At(c, "resolving")
    /\ \E how \in {"creating", "unresolved"} : Answered(c, how, NoSuchJob)
    /\ UNCHANGED <<jobs, inserted>>

\* create_job of the repository: look it up again, and insert
SecondLookup(c) == At(c, "creating") /\ Lookup(c, "inserting") /\ UNCHANGED <<jobs, inserted>>

\* The unique index makes a second insert wait for the first's transaction.
Insert(c) ==
    /\ At(c, "inserting") /\ inserted = {}
    /\ IF jobs = {}
       THEN inserted' = {c} /\ Answered(c, "uncommitted", NoSuchJob)
       ELSE inserted' = inserted /\ Answered(c, "collided", NoSuchJob)
    /\ UNCHANGED jobs

\* The Job, its first Attempt and its first two events are committed together.
Commit(c) ==
    /\ At(c, "uncommitted") /\ inserted' = {}
    /\ jobs' = jobs \cup {[by |-> c, hash |-> BodyOf[c]]}
    /\ Answered(c, "created", c)

\* the transaction fails, with anything but a collision
Fail(c) == At(c, "uncommitted") /\ inserted' = {} /\ Answered(c, "failed", NoSuchJob) /\ UNCHANGED jobs

\* Mutant of Collide: an IntegrityError is not looked into
Collide_Raises(c) ==
    At(c, "collided") /\ Answered(c, "unexplained", NoSuchJob) /\ UNCHANGED <<jobs, inserted>>

\* IntegrityError: the other call's Job, or a conflict
Collide(c) == At(c, "collided") /\ Lookup(c, "unexplained") /\ UNCHANGED <<jobs, inserted>>

Submit ==
    /\ \E c \in Calls :
          \/ FirstLookup(c) \/ Resolve(c) \/ SecondLookup(c)
          \/ Insert(c) \/ Commit(c) \/ Fail(c) \/ Collide(c)
    /\ UNCHANGED <<logVars, streamVars>>

-----------------------------------------------------------------------------
(* The event log: append_attempt_event and every other transaction that      *)
(* calls _append_event.                                                      *)

\* Mutant of AppendEvent: the number is taken without locking the Job
AppendEvent_Unlocked(w) ==
    /\ ~deleted /\ nextSequence < MaxSequence
    /\ holder' = w /\ nextSequence' = nextSequence + 1
    /\ drafts' = [drafts EXCEPT ![w] = @ \cup {nextSequence'}]
    /\ UNCHANGED <<log, deleted>>

\* UPDATE ... RETURNING locks the Job until the transaction ends
AppendEvent(w) ==
    /\ ~deleted /\ nextSequence < MaxSequence /\ holder \in {w, NoWriter}
    /\ holder' = w /\ nextSequence' = nextSequence + 1
    /\ drafts' = [drafts EXCEPT ![w] = @ \cup {nextSequence'}]
    /\ UNCHANGED <<log, deleted>>

CommitEvents(w) ==
    /\ drafts[w] # {} /\ log' = log \cup drafts[w]
    /\ drafts' = [drafts EXCEPT ![w] = {}] /\ holder' = NoWriter
    /\ UNCHANGED <<nextSequence, deleted>>

\* A lease that is lost, or an error: the numbers go back with the row.
RollBack(w) ==
    /\ drafts[w] # {} /\ nextSequence' = nextSequence - Cardinality(drafts[w])
    /\ drafts' = [drafts EXCEPT ![w] = {}] /\ holder' = NoWriter
    /\ UNCHANGED <<log, deleted>>

\* delete_expired_jobs takes the events with the Job
Retention ==
    /\ ~deleted /\ holder = NoWriter /\ log # {} /\ deleted' = TRUE /\ log' = {}
    /\ UNCHANGED <<nextSequence, holder, drafts>>

Log ==
    /\ \/ \E w \in Writers : AppendEvent(w) \/ CommitEvents(w) \/ RollBack(w)
       \/ Retention
    /\ UNCHANGED <<submitVars, streamVars>>

-----------------------------------------------------------------------------
(* The event stream. *)

\* GET .../events/stream with the id of the last event the client has
Follow ==
    /\ stream = "closed" /\ connections < MaxConnections /\ connections' = connections + 1
    /\ IF deleted THEN stream' = "gone" ELSE stream' = "open"
    /\ cursor' = Len(got) /\ page' = <<>> /\ UNCHANGED got

\* WHERE sequence > after ORDER BY sequence LIMIT PageLimit: the first rows, and
\* the one list of them that is in order
After(n) == {m \in log : m > n}
FirstAfter(n) == {m \in After(n) : Cardinality({l \in After(n) : l < m}) < PageLimit}
InOrder(rows) ==
    {s \in [1..Cardinality(rows) -> rows] : \A i, j \in 1..Cardinality(rows) : i < j => s[i] < s[j]}

\* list_events in a transaction of its own; of a Job that is gone it raises
ReadPage ==
    /\ stream = "open" /\ page = <<>>
    /\ IF deleted THEN stream' = "gone" /\ UNCHANGED page
       ELSE page' \in InOrder(FirstAfter(cursor)) /\ UNCHANGED stream
    /\ UNCHANGED <<cursor, got, connections>>

\* one row is yielded
Yield ==
    /\ stream = "open" /\ page # <<>>
    /\ got' = Append(got, Head(page)) /\ cursor' = Head(page) /\ page' = Tail(page)
    /\ UNCHANGED <<stream, connections>>

\* the connection breaks
Disconnect == stream = "open" /\ stream' = "closed" /\ UNCHANGED <<cursor, page, got, connections>>

Stream == (Follow \/ ReadPage \/ Yield \/ Disconnect) /\ UNCHANGED <<submitVars, logVars>>

ControlNext == Submit \/ Log \/ Stream
ControlSpec == ControlInit /\ [][ControlNext]_controlVars

-----------------------------------------------------------------------------
\* However the calls with one key interleave, they make one Job; a call with its
\* body is answered with it, one with another body with a conflict, and only a
\* failing resolver or database leaves a call without either (ADR 0007).
KeyNamesOneJob ==
    /\ Cardinality(jobs) <= 1
    /\ \A c \in Calls :
          /\ step[c] \in {"created", "replayed"} => \E j \in jobs : j.hash = BodyOf[c] /\ j.by = answer[c]
          /\ step[c] = "conflict" => \E j \in jobs : j.hash # BodyOf[c]
          /\ step[c] # "unexplained"

\* The events a client has are 1, 2, 3 ... without a gap or a repetition, whatever
\* transactions are open when a page is read and wherever it reconnects: a number
\* below the cursor is never committed afterwards.
StreamSkipsNothing == \A i \in 1..Len(got) : got[i] = i
=============================================================================
