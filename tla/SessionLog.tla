----------------------------- MODULE SessionLog -----------------------------
(***************************************************************************)
(* The conversation of the terminal user interface and the session logs    *)
(* beside it: `_send_message` and the slash commands of src/mewcode/app.py *)
(* and commands/handlers, the compaction of context/manager.py, the JSONL  *)
(* log of memory/session.py, and resuming after a crash.                   *)
(*                                                                         *)
(* A message is its kind and a number; `of` ties results to their calls.   *)
(* One call per response, so a message is one record, written whole or not *)
(* at all.  What `run` injects at the head of the conversation             *)
(* (environment, memory) has number 0, as has a summary.  Session commands *)
(* other than /compact and /rewind are modelled between runs only.         *)
(***************************************************************************)
EXTENDS Naturals, Sequences, FiniteSets

CONSTANTS
    InjectCount,    \* messages a run injects at the head of a fresh conversation
    MaxId,          \* bound: messages written by the user, the model and tools
    MaxSessions,    \* bound: session logs
    MaxLog,         \* bound: records in a log
    MaxEvents       \* bound: compactions, commands, cut runs and crashes

ASSUME SessionAssumption ==
    /\ InjectCount \in Nat \ {0} /\ MaxId \in Nat \ {0}
    /\ MaxSessions \in Nat \ {0} /\ MaxLog \in Nat \ {0}
    /\ MaxEvents \in Nat

VARIABLES
    history,        \* self.conversation.history
    injected,       \* env_injected /\ ltm_injected
    phase,          \* "idle" | "sent" | "top" | "called" | "down"
    cursor,         \* history_cursor of the running _send_message
    logs,           \* session number -> records of its .jsonl file
    session,        \* self.session
    opened,         \* sessions created so far
    unlisted,       \* sessions whose .meta file a crash left cut short
    keeping,        \* keep_tail of a /compact that awaits its summary
    snapshots,      \* message_index of the file history's snapshots
    nextId,
    saved,          \* ghost: messages the log was given to keep
    mishap,         \* ghost: a run was cut, a command met a running one, or a crash
                    \* met a call that was being written a second time
    halved,         \* ghost: results were written again without their calls
    unanswered,     \* ghost: session -> the call a crash left without its results
                    \* in the log, 0 if there is none since the last boundary
    clearedAt,      \* ghost: nextId at the last /clear
    events          \* counts towards MaxEvents

sessionVars == <<history, injected, phase, cursor, logs, session, opened, unlisted, keeping,
                 snapshots, nextId, saved, mishap, halved, unanswered, clearedAt, events>>

Msg(k, id, of) == [k |-> k, id |-> id, of |-> of]
Injections == [i \in 1 .. InjectCount |-> Msg("memory", 0, 0)]
Summary == Msg("summary", 0, 0)
NotCompacting == <<>>

Numbers(ms) == {ms[i].id : i \in DOMAIN ms} \ {0}

SessionInit ==
    /\ history = <<>> /\ injected = FALSE /\ phase = "idle" /\ cursor = 0
    /\ logs = [s \in 1 .. MaxSessions |-> <<>>]
    /\ session = 1 /\ opened = 1 /\ unlisted = {} /\ keeping = NotCompacting
    /\ snapshots = <<>> /\ nextId = 1
    /\ saved = {} /\ mishap = FALSE /\ halved = FALSE
    /\ unanswered = [s \in 1 .. MaxSessions |-> 0] /\ clearedAt = 1 /\ events = 0

\* What is counted and bounded.
Event == events < MaxEvents /\ events' = events + 1

-----------------------------------------------------------------------------
(* The log and what resume makes of it. *)

Boundary(keep) == [k |-> "boundary", id |-> 0, of |-> 0, keep |-> keep]
Record(m) == [k |-> m.k, id |-> m.id, of |-> m.of, keep |-> <<>>]
Records(ms) == [i \in DOMAIN ms |-> Record(ms[i])]
Write(recs) == logs' = [logs EXCEPT ![session] = @ \o recs]

\* Mutant of ValidCount: stops at the first call that waits for its results.
ValidCount_First(log) ==
    LET Pending(n) == {log[i].id : i \in {j \in 1 .. n : log[j].k = "calls"}}
                        \ {log[i].of : i \in {j \in 1 .. n : log[j].k = "results"}}
        Valid == {n \in 0 .. Len(log) : \A k \in 0 .. n : Pending(k) = {}}
    IN CHOOSE n \in Valid : \A k \in Valid : k <= n

\* validate_message_chain: the longest prefix after which no call is pending.
\* What a boundary keeps inside itself is not looked at.
ValidCount(log) ==
    LET Pending(n) == {log[i].id : i \in {j \in 1 .. n : log[j].k = "calls"}}
                        \ {log[i].of : i \in {j \in 1 .. n : log[j].k = "results"}}
        Valid == {n \in 0 .. Len(log) : Pending(n) = {}}
    IN CHOOSE n \in Valid : \A k \in Valid : k <= n

\* records_to_messages, and parse_compact_boundary on a first record that is one:
\* resume gives no other boundary to read.
PlainMessages(recs) == [i \in DOMAIN recs |-> Msg(recs[i].k, recs[i].id, recs[i].of)]
MessagesOf(recs) ==
    IF recs # <<>> /\ recs[1].k = "boundary"
    THEN <<Summary>> \o recs[1].keep \o PlainMessages(Tail(recs))
    ELSE PlainMessages(recs)

\* SessionManager.resume: from the last boundary on, cut at the last place
\* where every call is answered.  The file is not cut: what is appended to it
\* later stands behind what was left out.
LastBoundary(log) ==
    LET Starts == {1} \cup {i \in DOMAIN log : log[i].k = "boundary"}
    IN CHOOSE n \in Starts : \A m \in Starts : m <= n
ResumeOf(log) ==
    LET tail == SubSeq(log, LastBoundary(log), Len(log))
    IN MessagesOf(SubSeq(tail, 1, ValidCount(tail)))

\* Without its .meta file a session is not listed and not resumed.
Resumed(s) == IF s \in unlisted THEN <<>> ELSE ResumeOf(logs[s])

-----------------------------------------------------------------------------
(* Where a compaction cuts the conversation. *)

\* Mutant of Align: the tail may begin between calls and results.
Align_Not(ms, start) ==
    IF /\ start > 1 /\ start <= Len(ms) /\ ms[start].k = "results"
       /\ ms[start - 1].k = "calls"
    THEN start ELSE start

\* _align_keep_start_to_tool_pair: a kept tail never begins with results whose
\* calls stand just before it.
Align(ms, start) ==
    IF /\ start > 1 /\ start <= Len(ms) /\ ms[start].k = "results"
       /\ ms[start - 1].k = "calls"
    THEN start - 1 ELSE start

\* _compute_keep_start_index walks back until enough tokens or messages are
\* kept, so any start is possible; with nothing before it, or too little,
\* there is no compaction.
KeepStarts(ms) == {s \in {Align(ms, i) : i \in 1 .. Len(ms)} : s > 1}
Tail_(ms, start) == SubSeq(ms, start, Len(ms))

-----------------------------------------------------------------------------
(* A message and the run it starts. *)

\* _send_message up to the run: the user's message enters the conversation and
\* the log, and the cursor is taken.
SendTurn ==
    /\ phase = "idle" /\ keeping = NotCompacting /\ nextId <= MaxId
    /\ LET m == Msg("user", nextId, 0)
       IN /\ history' = Append(history, m)
          /\ Len(logs[session]) < MaxLog /\ Write(<<Record(m)>>)
          /\ saved' = saved \cup {nextId}
    /\ cursor' = Len(history')
    /\ nextId' = nextId + 1 /\ phase' = "sent"
    /\ UNCHANGED <<injected, session, opened, unlisted, keeping, snapshots,
                   mishap, halved, unanswered, clearedAt, events>>

\* The head of _run_loop: injections go before what is there.
StartLoop ==
    /\ phase = "sent" /\ phase' = "top"
    /\ history' = IF injected THEN history ELSE Injections \o history
    /\ injected' = TRUE
    /\ UNCHANGED <<cursor, logs, session, opened, unlisted, keeping, snapshots,
                   nextId, saved, mishap, halved, unanswered, clearedAt, events>>

\* On TurnComplete and LoopComplete: what stands after the cursor is appended.
Flush(ms) ==
    LET new == Tail_(ms, cursor + 1)
    IN /\ Len(logs[session]) + Len(new) <= MaxLog
       /\ Write(Records(new))
       /\ saved' = saved \cup Numbers(new)
       /\ halved' = (halved \/ (new # <<>> /\ new[1].k = "results"))
       /\ cursor' = Len(ms)

ModelCalls ==
    /\ phase = "top" /\ nextId <= MaxId
    /\ history' = Append(history, Msg("calls", nextId, 0))
    /\ nextId' = nextId + 1 /\ phase' = "called"
    /\ UNCHANGED <<injected, cursor, logs, session, opened, unlisted, keeping,
                   snapshots, saved, mishap, halved, unanswered, clearedAt,
                   events>>

\* The results, TurnComplete, and back to the top of the loop.
ToolsAnswer ==
    /\ phase = "called" /\ nextId <= MaxId
    /\ history' = Append(history, Msg("results", nextId, nextId - 1))
    /\ Flush(history')
    /\ nextId' = nextId + 1 /\ phase' = "top"
    /\ UNCHANGED <<injected, session, opened, unlisted, keeping, snapshots,
                   mishap, unanswered, clearedAt, events>>

\* The final answer: a snapshot of the files with the length of the
\* conversation, LoopComplete, the last flush.
ModelAnswers ==
    /\ phase = "top" /\ nextId <= MaxId
    /\ history' = Append(history, Msg("text", nextId, 0))
    /\ Flush(history')
    /\ snapshots' = Append(snapshots, Len(history'))
    /\ nextId' = nextId + 1 /\ phase' = "idle"
    /\ UNCHANGED <<injected, session, opened, unlisted, keeping, mishap,
                   unanswered, clearedAt, events>>

\* The run ends without LoopComplete: cancelled, the client raised, three
\* unknown tools.  Nothing is flushed and the next cursor starts behind it.
RunIsCut ==
    /\ Event
    /\ phase \in {"sent", "top", "called"}
    /\ phase' = "idle" /\ mishap' = TRUE
    /\ UNCHANGED <<history, injected, cursor, logs, session, opened, unlisted,
                   keeping, snapshots, nextId, saved, halved, unanswered,
                   clearedAt>>

-----------------------------------------------------------------------------
(* Compaction. *)

\* auto_compact at the head of an iteration.  The boundary is persisted and the
\* cursor set while the generator is suspended at CompactNotification; the
\* injections come when it goes on.
AutoCompact ==
    /\ Event
    /\ phase = "top"
    /\ \E s \in KeepStarts(history) :
         LET keep == Tail_(history, s)
         IN /\ Len(logs[session]) < MaxLog /\ Write(<<Boundary(keep)>>)
            /\ history' = Injections \o <<Summary>> \o keep
            /\ cursor' = 1 + Len(keep)
            /\ saved' = Numbers(keep)
    /\ injected' = TRUE
    /\ unanswered' = [unanswered EXCEPT ![session] = 0]
    /\ UNCHANGED <<phase, session, opened, unlisted, keeping, snapshots,
                   nextId, mishap, halved, clearedAt>>

\* /compact, typed while idle or while a response streams.  The tail to keep is
\* taken before the summary is awaited.
CompactAsked ==
    /\ Event
    /\ phase \in {"idle", "sent", "top", "called"} /\ keeping = NotCompacting
    /\ \E s \in KeepStarts(history) : keeping' = Tail_(history, s)
    /\ mishap' = (mishap \/ phase # "idle")
    /\ UNCHANGED <<history, injected, phase, cursor, logs, session, opened,
                   unlisted, snapshots, nextId, saved, halved, unanswered,
                   clearedAt>>

CompactDone ==
    /\ keeping # NotCompacting
    /\ \/ /\ history' = Injections \o <<Summary>> \o keeping
          /\ Len(logs[session]) < MaxLog /\ Write(<<Boundary(keeping)>>)
          /\ saved' = Numbers(keeping) /\ injected' = TRUE
          /\ unanswered' = [unanswered EXCEPT ![session] = 0]
       \/ UNCHANGED <<history, logs, saved, injected, unanswered>>    \* the summary failed
    /\ keeping' = NotCompacting
    /\ UNCHANGED <<phase, cursor, session, opened, unlisted, snapshots, nextId,
                   mishap, halved, clearedAt, events>>

-----------------------------------------------------------------------------
(* The other commands. *)

\* /rewind n with option 1 or 2: the conversation is cut at the index the
\* snapshot remembers, whatever has happened to the conversation since.
RewindLog ==
    /\ Event
    /\ phase # "down" /\ keeping = NotCompacting
    /\ \E n \in DOMAIN snapshots :
         /\ history' = SubSeq(history, 1, IF snapshots[n] < Len(history)
                                          THEN snapshots[n] ELSE Len(history))
         /\ snapshots' \in {SubSeq(snapshots, 1, n), snapshots}
         /\ mishap' = \/ mishap \/ phase # "idle"
                      \/ history' # <<>> /\ history'[Len(history')].k = "calls"
    /\ injected' = FALSE
    /\ UNCHANGED <<phase, cursor, logs, session, opened, unlisted, keeping,
                   nextId, saved, halved, unanswered, clearedAt>>

\* /session new.
NewSession ==
    /\ Event
    /\ phase = "idle" /\ keeping = NotCompacting /\ opened < MaxSessions
    /\ opened' = opened + 1 /\ session' = opened'
    /\ history' = <<>> /\ injected' = FALSE /\ saved' = {}
    /\ UNCHANGED <<phase, cursor, logs, unlisted, keeping, snapshots, nextId,
                   mishap, halved, unanswered, clearedAt>>

\* /clear: a new session is opened and set; then the handler reads an attribute
\* the Agent does not have, and what would empty the conversation is never
\* reached (the error is shown by _dispatch_command).
Clear ==
    /\ Event
    /\ phase = "idle" /\ keeping = NotCompacting /\ opened < MaxSessions
    /\ opened' = opened + 1 /\ session' = opened'
    /\ saved' = {} /\ clearedAt' = nextId
    /\ UNCHANGED <<history, injected, phase, cursor, logs, unlisted, keeping,
                   snapshots, nextId, mishap, halved, unanswered>>

\* /session resume: the conversation is what the log gives back.
Resume(s) ==
    /\ Event
    /\ phase = "idle" /\ keeping = NotCompacting /\ logs[s] # <<>> /\ s \notin unlisted
    /\ session' = s
    /\ history' = ResumeOf(logs[s]) /\ injected' = FALSE
    /\ saved' = Numbers(history')
    /\ UNCHANGED <<phase, cursor, logs, opened, unlisted, keeping, snapshots,
                   nextId, mishap, halved, unanswered, clearedAt>>

\* /session delete, not of the active session.
Delete(s) ==
    /\ Event
    /\ phase = "idle" /\ keeping = NotCompacting /\ s # session /\ logs[s] # <<>>
    /\ logs' = [logs EXCEPT ![s] = <<>>]
    /\ unanswered' = [unanswered EXCEPT ![s] = 0] /\ unlisted' = unlisted \ {s}
    /\ UNCHANGED <<history, injected, phase, cursor, session, opened, keeping,
                   snapshots, nextId, saved, mishap, halved, clearedAt>>

\* The process dies, perhaps while SessionMeta.save has the file emptied, which
\* every append and the summary of an answer rewrite.
Dies ==
    /\ Event
    /\ phase # "down" /\ phase' = "down" /\ keeping' = NotCompacting
    /\ history' = <<>> /\ injected' = FALSE /\ snapshots' = <<>>
    /\ \/ UNCHANGED unlisted
       \/ logs[session] # <<>> /\ unlisted' = unlisted \cup {session}
    /\ UNCHANGED <<cursor, session, opened, clearedAt>>

Crash ==
    /\ Dies
    /\ UNCHANGED <<logs, nextId, saved, mishap, halved, unanswered>>

\* It dies in the middle of a flush: Session.append has written the first n
\* messages.
CrashInFlush ==
    /\ phase \in {"top", "called"} /\ nextId <= MaxId
    /\ Dies
    /\ LET last == IF phase = "called" THEN Msg("results", nextId, nextId - 1)
                                       ELSE Msg("text", nextId, 0)
           new == Tail_(Append(history, last), cursor + 1)
       IN \E n \in 1 .. Len(new) - 1 :
            LET open == IF new[n].k = "calls" THEN {new[n].id} ELSE {}
            IN /\ Len(logs[session]) + n <= MaxLog
               /\ Write(Records(SubSeq(new, 1, n)))
               /\ saved' = saved \cup (Numbers(SubSeq(new, 1, n)) \ open)
               /\ halved' = (halved \/ new[1].k = "results")
               /\ unanswered' = IF open # {} /\ unanswered[session] = 0
                                THEN [unanswered EXCEPT ![session] = new[n].id]
                                ELSE unanswered
               /\ mishap' = (mishap \/ ~(open \subseteq {nextId - 1}))
    /\ nextId' = nextId + 1

\* Started again, the process opens a session of its own.
Start ==
    /\ phase = "down" /\ opened < MaxSessions
    /\ phase' = "idle" /\ opened' = opened + 1 /\ session' = opened' /\ saved' = {}
    /\ UNCHANGED <<history, injected, cursor, logs, unlisted, keeping,
                   snapshots, nextId, mishap, halved, unanswered, clearedAt,
                   events>>

SessionNext ==
    \/ SendTurn \/ StartLoop \/ ModelCalls \/ ToolsAnswer \/ ModelAnswers \/ RunIsCut
    \/ AutoCompact \/ CompactAsked \/ CompactDone \/ RewindLog
    \/ NewSession \/ Clear \/ Crash \/ CrashInFlush \/ Start
    \/ \E s \in 1 .. MaxSessions : Resume(s) \/ Delete(s)

SessionSpec == SessionInit /\ [][SessionNext]_sessionVars

-----------------------------------------------------------------------------
(* Properties. *)

SessionTypeOK ==
    /\ phase \in {"idle", "sent", "top", "called", "down"}
    /\ session \in 1 .. opened /\ opened \in 1 .. MaxSessions
    /\ cursor \in Nat /\ saved \subseteq 1 .. MaxId
    /\ unlisted \subseteq 1 .. opened /\ unanswered \in [1 .. MaxSessions -> 0 .. MaxId]

\* The messages of a log behind the records of a call.
Behind(log, call) ==
    {log[i].id : i \in {j \in DOMAIN log :
        \E n \in 1 .. j - 1 : log[n].k = "calls" /\ log[n].id = call}}

\* What the log was given survives: whenever the process dies, between any two
\* messages of a flush too, resuming brings back every message that was flushed
\* since the last compaction, and every message that compaction kept - except
\* what was appended behind a call that a crash had left without its results
\* (resume does not cut the file, session.py:526), and unless the .meta file was
\* cut short, a run was cut, or a command changed the conversation under a
\* running one, or cut it between a call and its results.
FlushedIsResumed ==
    ~mishap =>
        \/ session \in unlisted
        \/ saved \subseteq Numbers(Resumed(session)) \cup Behind(logs[session], unanswered[session])

\* The same without the exception of an unanswered call.
FlushedIsAlwaysResumed ==
    ~mishap => session \in unlisted \/ saved \subseteq Numbers(Resumed(session))

\* "Lossless round trip" of the tool_use/tool_result pairing (memory/session.py
\* _message_to_record_dicts): in a conversation that was resumed every call has
\* its results, compacted or not and wherever a crash cut a flush, and every
\* result follows its call - unless results were appended to the log without
\* their calls: the cursor of app.py (1282, 1426) is an index, and what is
\* injected at the head afterwards moves messages the log already has behind
\* it, so the last ones are written again.
ResumedIsPaired ==
    ~mishap =>
        LET ms == Resumed(session)
        IN \A i \in DOMAIN ms :
             /\ ms[i].k = "calls" => \E j \in i + 1 .. Len(ms) : ms[j].of = ms[i].id
             /\ ms[i].k = "results" =>
                    halved \/ \E j \in 1 .. i - 1 : ms[j].id = ms[i].of

\* The same without the exception.
ResumedIsAlwaysPaired ==
    ~mishap =>
        LET ms == Resumed(session)
        IN \A i \in DOMAIN ms : ms[i].k = "results" =>
                \E j \in 1 .. i - 1 : ms[j].id = ms[i].of

\* app.py:1423: after a compaction only the messages after the boundary are
\* appended: nothing the boundary keeps is written a second time.
OnlyNewAfterBoundary ==
    LET log == logs[session]
    IN \A b \in DOMAIN log : log[b].k = "boundary" =>
          \A i \in b + 1 .. Len(log) :
              log[i].k = "boundary" \/ log[i].id = 0
                \/ log[i].id \notin Numbers(log[b].keep)

\* tests/test_clear.py:1: /clear resets all state of the session: the model is
\* sent no message from before it.
ClearForgets ==
    phase \in {"top", "called"} => \A n \in Numbers(history) : n >= clearedAt
=============================================================================
