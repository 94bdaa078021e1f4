# Verification of the Coding Agent Platform

TLA+ modules that model the platform under `src/mewcode/`, TLC configurations that
model-check them on small instances, and theorems about them that TLAPS checks for every
value of their constants. `PROJECT.json` lists components, runs, mutants, findings, hazards
and theorems, and maps every definition to the lines of code it stands for.

To repeat the results: `tlc -config X.cfg M` with the module and the configuration that `runs` in
`PROJECT.json` pairs, `tlapm XProofs.tla` for a proof module. The longest run takes about two and a
half minutes on two threads, the longest proof module, `ClientProofs`, about ten.

1. [The system](#1-the-system): components, state, interaction, what is hard
2. [The modules](#2-the-modules): which models what, and how it corresponds to the code
3. [The runs](#3-the-runs): what each shows, bounds, fairness
4. [The proofs](#4-the-proofs)
5. [Where code and documents disagree](#5-where-code-and-documents-disagree)
6. [What is not modelled](#6-what-is-not-modelled)
7. [Plan](#7-plan)

## 1. The system

The repository holds two programs. The **platform** (`mewcode/platform`, about 12000 lines)
accepts Work Requests over HTTP and turns each into a Draft Pull Request. The **local agent**
(the rest of `mewcode`, about 21000 lines) is an interactive coding agent with a terminal
interface; the platform runs its agent loop headless inside a container.

```
 Requester ──HTTP── Control API ──┐                        ┌── Notifier ── Feishu
                                  ├── PostgreSQL (Jobs, ───┤
 Worker ── claim, heartbeat, ─────┘   Attempts, leases,    └── janitor, recovery (in Workers)
   │        finish, recover           events, outbox, artifacts, worker_nodes)
   └─ Attempt task + lease monitor ── Attempt Processor ── Docker, agent runtime,
                                                           Artifact store, GitHub
```

Processes share nothing but the database, the Artifact directory and GitHub. Inside a Worker,
one asyncio event loop runs the claiming loop, three background loops and two tasks per
Attempt, which interleave at every `await`.

### 1.1 Platform components

| Component | State | Operations | Hard behaviour | Correct when |
|---|---|---|---|---|
| **Job lifecycle** `persistence/repositories.py`, `domain/` | rows of `jobs`, `attempts`, `job_inputs`, `job_events` | create, input, retry, cancel, claim, heartbeat, report stage, finish, recover, delete | a Worker acts on a lease the database no longer honours; recovery, cancellation and completion race; budgets across reopening | Job and current Attempt agree; one good lease per Job; ended Attempts are frozen; a cancellation is carried out; Jobs come to rest; the status diagram is kept |
| **Claim, heartbeat and recovery, by statement** (the same transactions opened up) | row locks, the claim advisory lock, `now()` of each transaction | BEGIN, lock, select, update, COMMIT | `now()` is the start of the transaction; heartbeats take no claim lock | what was read under a lock still holds at the commit; leases stay within Platform Capacity |
| **Worker registry** `register_worker` … `has_fresh_worker` | `worker_nodes` rows | register, heartbeat, drain, readiness | capacities compared with fresh rows only; drain published from another task | Workers that may claim agree on capacity; a published drain stays visible |
| **Worker service** `workers/service.py`, `cli.py` | `_active`, `_stop`, `_draining`, background tasks, monitor per Attempt | run_forever, claim pass, heartbeat, recovery, janitor, monitor, drain, forced stop | cancellation, deadline and drain all arrive as `CancelledError` in one task; a loop may die alone | no Attempt works unwatched; a stopping Worker stops, unless an Attempt's task hangs; no half-dead Worker; nothing is leased for ever |
| **Attempt Processor** `processing/processor.py` | prepared repository, evidence, executor, deadline | prepare, set up, run agent, verify and repair, save evidence, publish | deadline inside any await; publication replayed after it; cancellation checked at few points | nothing published on a cancelled Job, unless it was queued again after a publication had begun; publication refers to saved evidence; deadline leaves diagnostics |
| **Agent runtime** `runtime/` | JobRunner's task, event sink | run, cancel, needs_input | `cancel()` cancels and awaits the task that calls it back | the Attempt task ends |
| **SCM delivery** `scm/` | branch and pull request at GitHub | prepare, publish_verified (ref, tree, commit, ref, pull) | POSTs that fail after being carried out; two Attempts publish at once; people touch the branch | one branch, one draft, the same answer to every call |
| **Artifacts** `artifacts/`, janitor | files in the store, rows of `artifacts` | persist, read, expire, delete | file and row are two systems; a pass takes 100 at most; quota is read before it is used; two janitors | published evidence is backed; no orphans and no phantom rows but for a mishap or a backlog; the expired goes |
| **Notification outbox** `notifications/`, `claim_notification` … | rows of `notification_outbox` | insert with the Job's event, claim, send, mark, reschedule, delete with the Job | Notifier dies or outlasts its claim; Feishu accepts unheard | at least once; twice only after a mishap |
| **Control API and submission** `api/`, `create_job` | idempotency keys, API keys | submit, read, answer, retry, cancel, download | two submissions with one key | one Job per key; another body is a conflict |
| **Event log and stream** `_append_event`, `stream_events` | `next_event_sequence`, events | append, page, stream | pages while transactions append; Job deleted under a stream; reconnection | no gap, no repetition, last event tells the status |
| **Attempt execution** `execution/docker.py` | networks, containers, state directory | start, run, export, close, clean orphans | partial start, cleanup during commands, orphan cleanup against new claims | what is started is removed; no live Attempt loses its resources |
| **Settings, CLI, observability, migrations** | environment, metrics, schema | validation, wiring | – | – |

### 1.2 Local agent components

| Component | State | Hard behaviour |
|---|---|---|
| **Agent loop** `agent.py`, `conversation.py`, `client.py` | history, iteration counts, token recoveries, pending tool calls | concurrency-safe tools run in concurrent batches, permission requests suspend the loop, cancellation between a tool call and its result must leave a history the model accepts |
| **Context compaction** `context/manager.py` | tool results spilled to disk, usage anchor, circuit breaker | where history may be cut between tool call and result, failure and retry of the summary, replay of spills after resumption |
| **Agent teams** `teams/` | inbox files with lock files, `tasks.json`, team members | several processes read, modify and write the same files, the mailbox under a lock that can be stolen, the task board under none; shutdown beside other messages |
| **Background agent tasks** `agents/task_manager.py` | task status, notification queue | status against the asyncio task behind it; follow-up loop after completion |
| **Sessions and memory** `memory/` | JSONL session records, metadata, memory files | resumption after a flush that was cut, compact boundaries |
| **Worktrees** `worktree/` | active worktrees, current session, its file | recovery of a directory left behind, removal with changes, forced removal with the team, session file against the manager |
| **File history** `filehistory/` | backups by version, snapshots | which version a snapshot names, versions reused after a rewind |
| **Permissions, hooks, sandbox** | rules, session grants | order of the layers that decide |
| **MCP** `mcp/` | clients by server | reconnection, failure between connect and listing |
| **Remote control** `remote.py` | one agent, many sockets, pending permission | messages during a turn, answers to a request that is over |
| **Terminal interface, commands, prompts, skills** | presentation | – |

### 1.3 How they interact

- A **claim** turns a queued Attempt into a lease: worker id, fencing token, expiry. Everything a
  Worker writes for an Attempt goes through `_locked_lease`, which requires all three to stand and
  the Attempt to be the Job's current one. That is the one fence between an old Worker and a new.
- **Recovery** runs in every Worker and ends leases that have expired; it decides between
  cancelling, retrying (once by default) and failing the Job.
- **Cancellation** is a Job status. The lease monitor reads it with each heartbeat and cancels the
  Processor; `report_stage(PUBLISHING)` and `cancel_job` exclude each other by the Job's row lock.
- **Publication** follows the saving of all evidence and the PUBLISHING stage; its result enters
  the database with `finish_attempt`, in the same transaction as event and outbox row.
- **Retention** deletes Artifacts after days, then the Job with everything that hangs on it.

`PROJECT.json` names, under `hazards`, each place where this is exposed to an order of steps that a
test would hardly produce, and the properties that would notice.

## 2. The modules

The Platform, seen from its database outwards:

```
JobState ◄── JobLifecycle ──implements──► JobContract          (Requester's view)
   ▲              │ opened up by
   │         LeaseCapacity       statements and row locks of claim, recover, heartbeat, finish
   │         ControlApi          statements of a submission and of the event log, and its readers
   │         WorkerPool          processes around the leases: registry, loops, drain
   │         AttemptTask         one Attempt inside such a process: task, monitor, cancellation
   │         AttemptEnvironment  the Docker resources of that Attempt, and the orphan sweep
   │         RepositorySource    where its files come from, and the credentials for that
   │         AttemptWorkspace    what tools and commands make of them, up to the commit
   │         AttemptEvidence     what the Attempt saves, and who removes it
   │         DeliveryPublish     what it publishes
   └──────── NotificationOutbox ──implements──► AtLeastOnce    (what ADR 0013 promises)
```

The local agent:

```
TerminalSession, RemoteControl     who starts runs, stops them and answers their questions
   └─ AgentLoop                    one run: model, calls, batches, hooks, cancellation
        ├─ ContextWindow           what of the history the model is sent
        ├─ SessionLog              what of the history survives a crash
        ├─ Permissions             which calls run
        ├─ WorkspaceFiles          what the file tools remember, checkpoints
        ├─ SubAgents, AgentTeam    agents it starts;  TeamStorage: the files they share
        └─ Worktrees               where they work
```

They divide two systems by grain. `JobLifecycle` has each database transaction as one action and
all Jobs; the others each open up one part and keep of the rest what that part can see. The link
between two of them is a state both have: a lease that stands or does not (JobLifecycle `ttl`,
LeaseCapacity `row`, WorkerPool `work`, AttemptTask and AttemptEvidence `leased`, AttemptEnvironment
`claim`), a directory or a commit handed over whole (from RepositorySource to AttemptWorkspace, and
from there to DeliveryPublish), and the outcome a process reports, which in JobLifecycle
is any, since the others show that it can be any.

### 2.1 Platform

**JobState** – the status sets and the two transition tables of `domain/state.py`.

**JobLifecycle** – `job`, `attempt` are the tables; `held[w]` is what Worker `w` believes it owns, with the token it
was handed, so that it goes on calling after the database has given the lease away; `ahead` is the order of
`queued_at`. One action per transaction: CreateJob, AddInput, RetryJob, CancelWaiting and CancelRunning, Claim,
Heartbeat, ReportStage, Finish with any outcome (DiscardOutcome and Abandon for a process that cannot or does not
report, Hang for a task that never ends and keeps its slot: `stuck`), the three branches of Recover, retention and
deletion, and Tick for lease time. The event log is reduced to `told`, the status its last event carries. Statuses,
tokens and retry counters are kept exactly.

**JobContract** – statuses, Attempts and automatic retries without Workers, leases or time.
`JobLifecycle!ImplementsContract` maps `status`, `no` and `auto` onto it; an internal step of the
lifecycle that shows nothing to the Requester is a stutter.

**LeaseCapacity** – `claim_attempt`, `recover_expired_leases` and the fenced transactions as
sequences BEGIN, lock, read, write, COMMIT under READ COMMITTED, with the claim advisory lock, row
locks and `SKIP LOCKED`; `now` is fixed at BEGIN. A transaction may be lost at every step. Its
`Claimants`, `Units` and `LeaseLength` are JobLifecycle's Workers, Capacity and LeaseTicks.

**ControlApi** – `POST /v1/jobs` call by call: the look-up by key, the resolution of the target, the
insert and its unique constraint, the second look-up after a conflict. Beside it the event log: a
transaction takes the Job's row lock, numbers its events and commits or rolls back; a stream reads
pages after its cursor, ends with the Job or is cut, and resumes from the last event it was sent.

**AttemptTask** – the coroutines of one Attempt from await to await: the phases of `process()`,
the lease monitor (`beat`, `sleep`, `close`, awaiting the task), cancellation by the Requester, by
the deadline, by a drain and by its forced end, and asyncio's rule that cancelling a task which
awaits a task cancels the latter. A cancellation arriving while requests are at GitHub leaves open
whether they took effect. What later Attempts do is done to the Job's row (LaterAttempt: claimed, at
PUBLISHING, ended, lost), so that a cancellation can meet a Job which is queued again, or retried, after a
publication had begun (`publication`). No constants: the model is finite as it is.

**AttemptEnvironment** – `thread` is the list of Docker requests the awaited thread has still to make;
when its awaiter is cancelled it becomes a `stray` that goes on. `there` are the resources at
Docker, `known` the ones the environment has noted and will clean, `workspace` the content of the
tmpfs volume, which a holder container keeps alive. Actions: start, import, helper requests with
their retries and the one replacement of the holder, commands with their own container and
time-out, export, close with its time limit, closing by the monitor, and the recovery loop's sweep.

**RepositorySource** – installation look-up, the token cache with its lock, reading the commit or
branch, downloading and normalising the archive, for Attempts of one Worker and submissions at one
API process; GitHub answers late or not at all, and a caller may be cancelled at each await.

**AttemptWorkspace** – an entry is what a manifest can tell apart (kind, text, line endings, executable
bit, target of a link). The archive is normalised into `base`, recorded, seeded, changed by
`Write`/`Edit` through the helper (which may be killed on the way) and by commands, exported,
scanned, compared with the manifest, and written as a Git tree. `left` is each file as a command left it,
`known` the texts whose versions the tools have been told.

**WorkerPool** – `proc[w]` is the line of `run_forever` the process is at, `tasks[w]` its
background loops, `drain[w]` how far `stop()` has come, `row[w]` its `worker_nodes` row,
`work[j]` the lease of a Job. Processes start, are refused, serve, lose a loop, are told to stop,
are killed and come back with other settings. A task may hang (`hung`: the mutual await that AttemptTask
shows); a drain that waits for it goes on for ever, since it is awaited again after its cancellation,
without a limit (`service.py:89`).

**AttemptEvidence** – `persist_bytes` as the awaits it consists of (check, put, add, undo), run
through the four kinds, twice if the deadline cuts the Attempt short; an interruption anywhere,
with a thread that goes on writing or a commit nobody hears of; the janitors' passes,
which take `Batch` Artifacts at most (100 in the code), and the deletion of Jobs with their rows in the same
pass. `mishap` records which ids were touched by
an interruption, `crowded` those whose rows went with the Job before their files.

**DeliveryPublish** – `publish_verified` request by request, for concurrent Attempts with two
calls each: `ref` and `pulls` are GitHub's, `late` the POSTs that have failed for the caller and
are carried out afterwards, `touched` what people do to branch and pull requests.

**NotificationOutbox** – rows with holder, lease and due time, Notifiers between claim and
acknowledgement, cards accepted heard or unheard. **AtLeastOnce** has per notification only
*owed* and *kept*; `ImplementsPromise` maps a row onto it.

### 2.2 Local agent

**AgentLoop** – `run` as a generator that stops at every await: hooks, model, policy gate, batches of
concurrency-safe calls, the counters that end or repeat a turn. `dangling` are calls without a
result that stay in the history when a run is cut.

**SessionLog** – `history` is the conversation, `logs` the JSONL files; user input, answers, tool results,
compaction, /clear, /rewind, /session and a crash anywhere: between two steps, between any two messages of a
flush (`CrashInFlush`; the log then may end with a call without its results), or in the writing of .meta
(`unlisted`). One message is one record here, written whole.

**ContextWindow** – which results are sent as previews is decided once (`seen`, `replacements`): the largest new
ones of a message, until the rest of it fits; automatic compaction with its circuit breaker; the file behind a
preview.

**TeamStorage** – `_with_lock` statement by statement (create the lock file, try again, go on without
it after the last try, unlink it whoever holds it), and the task board: `create()` takes its number from the copy in
memory, the others load the file first; then save() truncates the file and fills it, with no lock, while other
processes load it, torn or not, and save theirs.

**AgentTeam** – lead, teammates' background tasks with the follow-up loop after "completed", mail,
notices, and deletion of the team (what happens to the worktrees of its members is told in Worktrees).

**SubAgents** – which way the Agent tool takes (definition, fork, background), the tools each agent
gets, the trace, and coordinator mode.

**Permissions** – hooks before a tool, the layers of `PermissionChecker.check` in their order, the rule
files, and what "don't ask again" leaves in file and session list.

**TerminalSession** – `_send_message` as a task, Escape, Ctrl-C and a new message while one runs, the
dialogs that suspend it, and runs that notices and mail start by themselves. A run cancelled while its rows are
mounted ends before the `try` and leaves `_streaming` set (`Mounted`).

**RemoteControl** – one agent, its pages with their locks, sockets that break and are opened again. An event
reaches all pages in one step.

**WorkspaceFiles** – text cache, read-before-edit gate, backups by version, snapshots and rewind, with
changes by others between two steps.

**Worktrees** – create, enter, leave, remove by command and by tool, sub-agents' own worktrees, those
of a team's members with their forced removal when the team is deleted or the App quits, the sweep and the session
file across restarts; git may fail at any question. `by` is on whose account a step removed something, `made` the
commits that were made before this process's eyes.

### 2.3 Modules for TLC

The `MC…` modules give TLC what a `.cfg` cannot express (symmetry, definitions for constants). Five of
them, `MCDatabase`, `MCTasks`, `MCAttemptEvidence`, `MCDelivery` and `MCClient`, hold several components that share no
variable. Their Init chooses in `part` the component a behaviour exercises; the others keep their
first state, and the fairness conditions bind the chosen one only. The states of such a run are
thus the *sum* of its components', and each property is checked on exactly the behaviours its own
module's specification has. Variables, actions and constants carry their module's name where two
modules would otherwise meet (`capacityVars`, `LoopNext`, `MaxTeamMail`).

In a module, an operator with a suffix such as `Recover_OwnLeases` is the definition before it (or
after it) with a plausible bug; `mutants` in `PROJECT.json` says which property notices.

## 3. The runs

| Run | Instance | Shows |
|---|---|---|
| `lifecycle_two` | 2 Jobs, 2 Workers, capacity 1, 2 Attempts each | a Job and its Attempts agree; one good lease per Job; requested cancellations are carried out; Jobs come to rest |
| `lifecycle_history` | 1 Job, 2 Workers with 2 slots, 4 Attempts | the contract (`ImplementsContract`); the last event tells the status |
| `database` | *pool*: 2 ids, one of which restarts, crashes and loses loops, capacities {1, 2} | claimers agree on capacity; stops end unless a task hangs |
| | *capacity*: 2 Attempts, 2 Claimants, one of which recovers, 1 unit, leases of 2 ticks, 2 ticks of time | capacity is kept unless a lapsed lease is revived; recovery never ends a live lease |
| | *submissions*: 3 calls under one key with 2 bodies | one Job per key |
| | *events*: 2 writers, 4 events, pages of 2, 2 reconnections | the stream has no gap and no repetition |
| `outbox` | 2 Notifiers, 2 notifications | duplicates need a mishap; at least once; everything is delivered |
| `task` | *task*: one Attempt | a published Job is cancelled only if it was queued again after a publication had begun; a Worker told to stop stops, or the one mutual await has happened |
| | *loop*: 5 iterations, 2 runs, 1 cancellation, four kinds of reply | every run ends; a call without a result only where a run was cut |
| | *team*: 2 teammates, 2 polls, 2 messages | no worktree is removed under a teammate that works |
| `evidence` | *evidence*: 1 Attempt, 4 kinds, 2 rounds, 2 janitors, 2 Artifacts to a pass | files without rows need a mishap or a pass that did not list all; deadlines leave evidence |
| | *environment*: 2 helper tries, 1 Docker fault | what is left at the end was abandoned by a time-out; what is left is swept |
| `delivery` | *publish*: 2 Attempts with 2 calls, 2 interferences | one branch and one draft; all calls give the same answer unless people interfere |
| | *source*: 2 Attempts, 1 submission, tokens of 3 ticks | a token handed out has its margin to live |
| | *workspace*: 5 base trees over 6 paths, 2 changes, limit of 2 files | the commit is the workspace; what a command wrote and no tool knew is delivered as it was left |
| `client` | *session*: 4 messages, 2 logs, 3 events (compaction, command, cut, crash) | what was flushed is resumed, unless it stands behind a call whose results a crash kept out of the log; calls with their results |
| | *context*: 4 results around two limits, 3 compactions, breaker at 2 | what the model was sent once stays as sent |
| | *agents*: 3 sub-agents, 2 teams | how deep agents nest |
| | *permissions*: 5 calls, 2 sets of rule files, 1 hook, 1 rule added | what was always allowed is not asked again |
| | *terminal*: 2 runs, 1 notice or mail | a run that works is in somebody's hand |
| | *remote*: 2 pages, 2 messages, 1 question, 1 error, 1 break | a page locked for good has a named cause |
| | *mail*, *board*: 2 processes, 2 messages, 4 operations that save the board | lost mail and lost tasks have a named cause |
| | *files*: 1 file, 4 texts, 2 backups, 2 snapshots | a checkpoint keeps the backups it names |
| | *worktrees*: one of the user's and of a team's member, one of an agent, 2 commits | work is lost only on demand, when git failed, over a branch without directory, with the team, or as commits from before a restart |
| `task_cancel`, `task_drain`, `delivery_evidence`, `edit_file` | small | counterexamples, see section 5 |

Many of these properties have the form "*X* unless *Y*". They say which single event is behind every
loss, and a model in which the code had one more way to lose something would violate them. What the
exception costs is told in section 5.

Modules state a few properties more than the runs name: a type invariant each, and facts that help a reader. Proved
are `EvidenceMeansSucceeded`, `NoCancelWhilePublishing`, `RetentionOnlyWhenFinished`, `LockedReadsHold`,
`PublishedIsBacked`, `ListedIsThere`, `NothingIsLeft`, `ChangesWereMade`, `NobodyWorksUnwatched`,
`CancelledOnlyIfAskedOrForced`, `HooksBalanced`, `UnsafeRunsAlone`, `NarrowedWhileTeams`, `MessagesWithinBudget` and
`PreviewHasItsFile`. The others, `NoCommandOutlivesTheAttempt` and `AskIsInHand`, and, of what must happen in the end,
`NoHalfDeadWorker`, `OrphansAreReleased`, `EverybodyEnds` and `EndedBecomesIdle`, hold on the instances above; the
runs keep to the ones that a change of the code would break first.

**Deadlock** is not checked: every one of these systems may come to rest (no Requester is obliged
to submit, a bound is reached, the Attempt is over). That it does not rest too early is what the
liveness properties are about.

**Bounds, and why they are enough.** Two Workers make every race between a holder and a successor; the second Job is
there for competition over capacity and for the order of the queue. Four Attempts admit the first, an automatic retry,
and two reopened ones, so that the automatic budget is used up before *and* after reopening. Lease times of one or two
ticks tell "renewed in time", "lapsed", and "renewed while being taken". In *capacity*, the clock ends when a lease
may have lapsed, been taken over and been revived by a heartbeat that began before: without the exception,
`CapacityUnlessRevived` is violated there. In *submissions*, two calls race while a third, of another body, meets
either outcome; in *events*, pages of two and four events make a page that ends inside a transaction, and three
connections let a stream be cut and resumed twice. One recovering process is enough, since recoveries exclude each
other by the lock they begin with. Two interferences in *publish* allow a push followed by a close or a merge followed
by a deletion. In *evidence*, limits of 3 and 6 units keep the default ratio of 1 to 2 between one Artifact and the
Attempt's total, so that quota can run out at every kind; a pass of two Artifacts, against 100, lists fewer than the
four there are; two Attempts of a Job have their own rows and files, and meet in the Job's status only, which is why
one is enough there. In *pool*, one id suffers all mishaps and the other none, so that there is always a Worker left
to be relied on; heartbeats late in a live process are left to the proof, which covers them (`Pausing`). Cards are
counted to two: the properties tell one from more.

In *environment*, one fault at any request decides every cleanup path, since each path tries a
resource once more at most before it is the sweep's. In *loop*, five iterations leave room for two
turns with tools, both recoveries, and a third unknown tool. In *workspace*, the base trees are
chosen to have a file with Windows line endings and the executable bit, a link, a hard link, a
quarantined file, a submodule list, and `.github` as directory and as link; two changes make every
pair of tool and command. In *session*, three events allow a compaction, a crash during it, and
another after resuming. Two pages and one break make every order of "told" and "away"; the second
message is the one sent in vain. `MaxTries` is two instead of ten since tries only delay.

**Fairness.** Each assumption is one about loops that the code keeps going:

- JobLifecycle: time passes; some Worker polls (`run_forever` claims until stopped); some recovery
  loop runs: an exception in a loop ends its process (`workers/service.py:106` is in no `try`), which the
  deployment starts again (`restart: unless-stopped` in the Compose file); an Attempt task ends, dies or hangs,
  since the Attempt deadline bounds it. One that hangs is never assumed to let go of its slot; `JobComesToRest`
  holds until such tasks have taken every slot there is. No Requester, and no particular Worker, is relied on.
- NotificationOutbox: Notifiers poll, a send ends (the HTTP client has a timeout). *Strong*
  fairness for "accepted while the claim stands": Feishu may refuse any number of times, not for
  ever. Without it nothing could be promised, and the code retries without limit for that reason.
- AttemptTask: runnable tasks run; phases end by the deadline; an unrenewed lease lapses and is
  recovered by some Worker; the drain's grace period ends. An agent is not assumed to end on its own, nor a later
  Attempt to do anything.
- AttemptEnvironment: threads finish their requests (the Docker client has a time-out of its own), and
  the recovery loop goes on sweeping. An Attempt is not assumed to end.
- AgentLoop: the event loop runs the task; model, hooks and tools answer, for which the limit on
  iterations must be set. Nothing is assumed of who consumes the generator.
- AgentTeam: a teammate's task, the lead's turn, and the two places that poll for notices and mail.
- WorkerPool: registrations return, loops run, orphaned leases lapse. Not assumed: that an Attempt
  ends, not even when it is cancelled (a task that hangs keeps the drain for ever, which `StopEnds` excepts), that a
  process is started again, that a registration succeeds.
- RepositorySource: callers' requests end; the liveness stated with it (`EverybodyEnds`) is in no run.

Weak fairness of `Claim` is of the whole set of Workers, so that a Worker may die for good.

## 4. The proofs

Every safety property that a passing run checks is also a theorem, for any Jobs, Workers, Notifiers, Attempts,
callers, processes, pages, files, messages, limits and capacities. The proof modules follow the runs:

| Module | Proves about |
|---|---|
| `JobLifecycleProofs` | JobLifecycle, and that it implements JobContract |
| `DatabaseProofs` | WorkerPool, LeaseCapacity, ControlApi |
| `NotificationOutboxProofs` | NotificationOutbox, and that it implements AtLeastOnce |
| `DeliveryProofs` | RepositorySource, AttemptWorkspace, DeliveryPublish |
| `AttemptEvidenceProofs` | AttemptEvidence, AttemptEnvironment |
| `TasksProofs` | AttemptTask, AgentLoop, AgentTeam |
| `ClientProofs` | TeamStorage, RemoteControl, Permissions, SubAgents, Worktrees, TerminalSession, WorkspaceFiles, SessionLog, ContextWindow |
| `NumberLemmas` | the least number principle, for what is defined as the first of several |

They assume what the modules name in their ASSUMEs, which TLC evaluates on every run: capacities, slots, ticks,
tries and page lengths are positive; placeholders are no elements of the sets beside them; Jobs, Attempt rows and
pages are finitely many, since they are counted; the retry limit is below the bound on Attempts; an Artifact's limit
is at most its Attempt's; a GitHub token lives for longer than its margin and the time its issue takes
(`scm/client.py`: five minutes at least, against one minute and three requests of 30 seconds with their pauses); no
archive has the helper's temporary name; and the
replies of a model are lists of known kinds of call. One theorem has a hypothesis more: `DeadlineEvidence` needs
`TwoRoundsFit` (section 5).

An invariant is proved as three facts (`Init => IInv`, `IInv /\ [Next]_vars => IInv'`, `IInv =>`
property), one lemma per action for the second. What had to be added to the properties, beside the types:

| Component | In `IInv` | Why the property alone is not inductive |
|---|---|---|
| JobLifecycle | JobAttemptAgreement, *Bookkeeping*, *HeldMatchesRow* | that two leases are not both good needs: a token in hand was issued for that Attempt, and no more were issued than the Job has counted; and that an Attempt's row still names the Worker that was handed its lease |
| the same, as the Requester sees it | *Truthful* of every row | status, last event, stage, evidence and retention deadline of a row vouch for each other |
| NotificationOutbox | *RowsPosted*, *KeptHasCard*, *WorkOnRows*, *QuietUnlessMishap* | a second card can only follow a first that nobody recorded: without a mishap, a card accepted means that the one Notifier that knows still holds the claim |
| WorkerPool | *RowsOfServers*, *Configured*, *ServersAgree*, *DrainedRows* | processes agree because each fresh row carries its process's setting, and registration compares with all fresh rows |
| LeaseCapacity | *Shape*, *Locks*, *Phases*, LockedReadsHold; then *WithinCapacity* | that a claim which has counted may commit needs: it holds the advisory lock, so nobody else has a claim between count and commit, and what it selected is locked and thus as it was read. What it counted can since only have shrunk, unless a lapsed lease was revived |
| ControlApi, submissions | *OneInsert*, *Answers* | one Job needs the unique index: at most one insert is open, and none beside a committed Job |
| ControlApi, events | *LogTyped*, *Streamed*, *NumberedTo* | a stream is at its cursor only because committed numbers and the drafts of the one holder of the row lock together are 1 .. n: a gap below the cursor could be filled later. A page without gap is then the numbers after the cursor in order |
| RepositorySource | *OneIssuer*, *IssueInTime*, *AskedInTime*, *Archives* | a caller read the clock before it waited for the lock: the token is fresh for it since at most one issues, the issue took less than its time-out, and the waiters behind it compare with the expiry that came of it |
| AttemptWorkspace | *Seeded*, *Reviewed*; *KnownVersions*, *LeftStands* | the commit is the workspace since each stage (normalise, record, seed, export, scan) keeps of the tree what the next compares; what a command left stands since a tool writes only over a version it was told, and each such version is of a text it knows |
| DeliveryPublish | *Turns*, *OwnCommit*, *Converging* | that calls agree needs the state of each call's knowledge: while nobody interferes, what a call has seen is what is there |
| AttemptEvidence, quota and files | *Sized*; then *NoOrphans*, *ExpiredAreOver*, *FileWentFirst*, *CascadeIsEmpty* | the quota is checked awaits before the row is added: what is in hand fits with what is used. A janitor at a row must have seen the file go and nothing may bring it back; when the Job's rows go by cascade in a pass that listed all that had expired (*all*), there are none left, and else they are `crowded` |
| AttemptEvidence, what is listed | *InOrder* | kinds are saved in order, those before the one in hand have row and file, and a row under an undo is one whose commit was unheard |
| AttemptEvidence, deadline | *Within* | how much of the total the kinds before the one in hand can have used, since the truncated ones stay under their reserve |
| AttemptEnvironment | *Adding*, *Closing*, *Verified* | that nothing is left at the end needs: who may still create something, which is a thread that is awaited, one that was abandoned, or a command; that the Attempt's end closes what its monitor did not; and that what the last look of the cleanup did not find stays away unless something was abandoned |
| AttemptTask | *Unpublished*, *Publishing*, *Told*, *Reasons*, *HandedOn* | the properties look at Job and coroutine at one moment; each await needs to say what was already decided when it began: who cancelled, whether the monitor has told, whether PUBLISHING was reported under the lease; and the row needs to say that nothing is published before that stage, and that after it only a requeue lets a cancellation in |
| AgentLoop | *Unanswered*, *Opened*, *Responses*, *InBatch*, *Counted* | at every place of the generator: which calls have no result yet, which hooks have begun, and that a running batch is a stretch of safe calls |
| AgentTeam | *Working* | a teammate at work is marked active for as long as its team exists |
| TeamStorage | *Numbered*, *Locked* (with *Rewritten*); *BoardKept* (*OneSaves*, *TornByOne*, *Leads*, *Follows*) | while the lock protocol is kept, only the lock's holder is between read and write, and what it will write is the inbox it read with its own change; as long as no two operations on the board overlap, the copy of the process that saves has all of the board and its own change, and every other copy is of what the board has |
| RemoteControl | *BusyRuns* | every locked page has an end of its lock under way (a run, a message not yet read), or a reason |
| Permissions | *Remembered* | what was answered so is in the session's list, and behind that list only two layers ask |
| SubAgents | *Depth*, *Coordinates* | among sub-agents only a fork calls another, and what it calls is left without the Agent tool; the lead's tools are narrowed exactly while a team exists |
| Worktrees | *Sessions*, *Baselines*, *RunsCount* | which worktrees a session can name; that a branch is ahead of the commit which "no changes" compares with by what this process has seen made; and that for a sub-agent this is all there is |
| TerminalSession | *TerminalOrder* (*OneRun*, *DialogsHaveRuns*) | fields of the interface, run and dialogs agree until two runs overlap for the first time |
| WorkspaceFiles | *CheckpointsRise* | what a checkpoint names is no newer than what the next one and the history itself name, so a rewind never writes over it |
| SessionLog | *CallsAnswered* (*SoundLog*, *OpenLog*), *ResultsPlaced*, *NeverAnswered* | calls and results agree in the conversation, in every log, in what each boundary keeps and in what a compaction is about to keep: of calls until a run is cut, but for the one call a log is left with when a flush is cut, which nothing ever answers; of results also until some were written again without theirs |
| ContextWindow | *InOnePlace*, *Decisions*, *SentIsFinal*, *PreviewsHaveFiles* | a message is as the log has it or as the budget decided, and the decision, taken again from its own outcome, is the same: when the budget runs again, after the log was read in anew for instance, it replaces what it had replaced |

Two refinements are proved. `ImplementsPromise`: each step of the outbox is a step of AtLeastOnce or
leaves it as it is. `ImplementsContract`: each transaction of the lifecycle writes at most one Job's
row (*RowStep*), lawfully (*RowMove*), and each lawful move is a step of JobContract. The same
reduction to one row carries *Truthful*, whence `StreamTellsStatus` and three invariants that no run
names (`NoCancelWhilePublishing`, `EvidenceMeansSucceeded`, `RetentionOnlyWhenFinished`).

Two definitions were rewritten for their proofs, with the same states in TLC: pages of the event stream pick
their numbers one after the other (ControlApi `InOrder`), and the budget of a message is said by what a result
has ahead of it (ContextWindow `Ahead`, `Spills`) and not by folding over a sorted list. What the library
defines by a fold stays closed to the provers: of `Total`, a sum, they use that the same lengths give the same
sum and nothing else. First places (the end of a batch, the next free run, the first result that is spilled
no more) are reasoned about with the least number principle of `NumberLemmas`, the one form of induction these
proofs have.

Only model-checked: everything that says *in the end* (`CancelIsCarriedOut`, `JobComesToRest`,
`EveryNotificationDelivered`, `StopsOrMutualAwait`, `RunEnds`, `StopEnds`, `LeftoversAreSwept`, and those
of section 3 that no run names), since it rests on fairness and thus on ENABLED; and `NoCommandOutlivesTheAttempt` and
`AskIsInHand`, whose strengthening is left for later.

## 5. Where code and documents disagree

Four runs end in a counterexample to a sentence of the documents or an assertion of a test;
`findings` quotes it. Each has a counterpart in a passing run that states what does hold.

- `task_cancel`: cancelled while the agent runs, the Attempt task and its lease monitor await each
  other for ever; the slot is not freed and a later drain fails. What holds: the Job is CANCELLED in
  the end, by recovery, and this is the only way for a task not to end (`StopsOrMutualAwait`).
- `task_drain`: a drain that runs out of patience cancels the Job instead of leaving it to lease
  recovery, if the agent is running. What holds: no other way leads to an unasked cancellation
  (`CancelledOnlyIfAskedOrForced`).
- `delivery_evidence`: an Attempt that finds an earlier one's branch opens the pull request for that
  commit with its own verification report. What holds: one branch and one draft (`OneDelivery`).
- `edit_file`: an edit of one string turns Windows line endings into Unix ones and takes the
  executable bit. What holds: the commit is the workspace as it then is (`CommitIsTheWorkspace`).

Six findings need no run of their own, since a property of a passing run names them as the only exception.

- `database`, `CapacityUnlessRevived`: a heartbeat that began in time commits after its lease has lapsed and another
  Attempt has been claimed in its place: two leases under a capacity of one (ADR 0014; without the exception,
  `LeasesWithinCapacity`).
- `client`, `ResumedIsPaired`: the cursor into the history (`app.py:1282`, `1426`) is an index. The injections of the
  next run (`conversation.py:146`) go to the head and shift it, so that after an automatic compaction the last
  messages of what was kept are written once more behind the boundary; if these are results, they are now in the
  log without their calls. Resumed and compacted again, the conversation can begin with them. The property
  excepts what was `halved` that way.
- `client`, `FlushedIsResumed`: a crash between the record of a call and its results leaves the call in the file.
  `resume()` drops it from the conversation only (`memory/session.py:526`), and what is said from then on stands
  behind it, dropped at every later resume until a compaction. The property excepts what is `Behind` the call;
  `FlushedIsAlwaysResumed` does not, and fails.
- `client`, `WorkLossIsExplained`: after a restart the baseline of the session's worktree is taken anew, so that commits
  from before count as no changes, and `/worktree exit --remove` deletes them unasked (`worktree/manager.py:208`).
- `task`, `PublicationBarsCancel`: the PUBLISHING gate is open again when a lease was lost in that stage and the Job
  requeued, or when a publication failed half-way and the Requester retries: the Job can be cancelled with a branch or a
  pull request at GitHub, which is threat RACE-001 of the phase 5 document (`repositories.py:774`).
- `evidence`, `OrphanNeedsMishap`: a janitor pass lists 100 expired Artifacts at most and goes on to delete Jobs with
  the rows of those it did not list: their files stay (`artifacts/service.py:127`).

Two more losses are excepted by properties and contradict no sentence of the documents: the worktrees of a team's
members are removed with force when the team is deleted or the App quits at rest, and what was not committed in them
is gone (`teams/manager.py:268`, `WorkLossIsExplained`); and two processes that change the task board at the same time
overwrite each other, or read a torn file (`teams/shared_task.py:107`, `TaskLossIsExplained`).

`DeadlineLeavesEvidence` states an exception as well: `processor.py:846` has a deadline leave all four
kinds, but one that falls between diff and report of the first round may leave no report, since
both rounds count against the same total. That nothing else can go missing needs room for both rounds
(`TwoRoundsFit`): the default limits of 64 and 128 MiB have it for reports of up to 21 MiB. The settings allow
others: with a total of 256 MiB the reserve is 64 MiB, and four of the five other files at that size take it all.

Other sentences of comments, tool descriptions and tests are stated in the modules and do not hold on
the instances above. Where a run has what holds instead, it is named.

| Stated as | Says | Why not | Holds |
|---|---|---|---|
| `SessionLog!ClearForgets` | /clear resets the session (`tests/test_clear.py:1`) | the handler opens a new log, then fails on an attribute the Agent lacks: the history stays | |
| `SessionLog!OnlyNewAfterBoundary` | after a compaction only new messages are appended (`app.py:1423`) | automatic compaction sets the cursor while the injections are still to come: the kept messages are written again | `FlushedIsResumed` |
| `SessionLog!FlushedIsAlwaysResumed` | what is appended after resuming is replayed (`memory/session.py:517`) | a call left by a crash stays in the file, see above | `FlushedIsResumed` |
| `SessionLog!ResumedIsAlwaysPaired` | the round trip of calls and results is lossless (`memory/session.py:131`) | results written again without their calls, see above | `ResumedIsPaired` |
| `TerminalSession!QuestionWasShown` | "User did not respond within 5 minutes" (`tools/ask_user.py:68`) | the screen looks for questions at the result of *another* call of the batch; alone, a question is never shown | |
| `SubAgents!EmptyTypeForks` | an empty type forks the conversation (`tools/agent_tool.py:107`) | it passes the fork's checks and then counts as a type: no dialogue | |
| `AgentTeam!IdleTeammateWakes` | a message wakes an idle teammate (TeamCreate's description) | after its last poll nobody reads that inbox | |
| `WorkspaceFiles!NoBlindOverwrite` | a file is not overwritten if modified since it was read (`tools/file_state_cache.py:12`) | a second reading is answered from the text cache, but records the time of the changed file | |
| `WorkspaceFiles!RewindRestoresCheckpoint` | rewinding restores a checkpoint (`commands/handlers/rewind.py:74`) | a snapshot names the backup made before the last edit | `CheckpointsKeepTheirBackups` |
| `Worktrees!RemovalNeedsDiscard` | removal with changes needs `discard_changes` (`worktree/manager.py:211`) | after a restart the baseline is taken anew: what was committed before counts as nothing | `WorkLossIsExplained` |
| `AttemptEnvironment!UncleanIsReported` | no success unless the resources are gone (phase 2 document, line 60) | a thread left running creates after the last look | `CleanUnlessAbandoned` |
| `AttemptEnvironment!HolderKeepsTheWorkspace` | the holder keeps the tmpfs mounted (ADR 0010) | when the holder is replaced and no command runs, nothing mounts it for a moment, and the content is gone | |

## 6. What is not modelled

Of the Platform:

- *Settings, CLI, metrics, migrations* have no state machine of their own. Settings appear as
  CONSTANTS, with the relations between them that the validators enforce as ASSUMEs.
- *The orphan sweep with a list read before a claim* (`execution/docker.py:123`). The sweep reads the live Attempts
  once (`processing/processor.py:925`) and then walks through directories, containers, networks and volumes. An Attempt
  claimed in between is not in the list, and nothing in the code keeps the sweep from its resources. AttemptEnvironment
  lets a round touch an Attempt only if it read it as over: it shows that what is left is swept, and nothing of what a
  sweep does to an Attempt that works.
- *Row-lock order.* Each transaction of LeaseCapacity locks one kind of row; the Job's row and the
  Attempt's are one step in JobLifecycle. Whether PostgreSQL could find a deadlock is open.
- *The rest of the API*: listing, artifacts' download, authentication, rate limits. They read.
- *Redaction, digests, prompts, archive formats* compute on text. Where an outcome depends on them
  (a digest that does not match, a payload refused) the outcome is a choice.

Of the local agent:

- *MCP client and manager*: calls to servers whose behaviour lies outside of the repository. Of its
  start TerminalSession has the wait (`mcp`).
- *Memory files, extraction, prompts, skills, rendering, settings*: text and files without a protocol.
- *Teammates in tmux panes* and `teams/spawn_inprocess.py`, which nothing calls any more.
- *What the model does*: replies are chosen from a set of shapes.

Abstractions that matter when a result is read:

- A transaction is one step in JobLifecycle, NotificationOutbox and WorkerPool, which the row locks
  justify for what those modules ask. What happens between the statements of a transaction is
  LeaseCapacity's and ControlApi's question, and the revived lease shows that the difference matters.
- AttemptTask has one Attempt in one process, from await to await; a lease taken over by another
  Worker appears in it as a renewal that is refused, and later Attempts of the Job as what their transactions do to its
  row. Several Workers meet in JobLifecycle.
- `StreamTellsStatus` looks at the status that the last event of a transaction carries. A transaction may append several
  events; their numbers, and that readers get them in order, are ControlApi's (`StreamSkipsNothing`).
- RemoteControl sends an event to all pages in one step; a page that breaks meanwhile is one that broke before or after.
- Components that a run puts side by side do not act on each other there. Where they do in the code
  (a compaction and the session log, a team and its worktrees), one module has both sides.
- Time is a counter of ticks; a lease, a backoff or a retention period is a few of them. No property
  depends on how long a tick is, only on which of two deadlines comes first.
- One process runs under a Worker id at a time.
- The bounds on Attempts, on time, on mishaps and on restarts cut behaviours off at the end; a
  bound stands in the guard of the action it limits, by name.

## 7. Plan

The inventory of section 1 is modelled but for what section 6 lists, and what the runs check of safety is proved.
What is left, in order:

1. AttemptEnvironment: `NoCommandOutlivesTheAttempt`, from what a network's absence excludes. RemoteControl:
   `AskIsInHand`, from where a request is between agent and page.
2. The safety half of what is stated with fairness: that the measure behind `JobComesToRest` and `RunEnds` (Attempts
   left, iterations left) never rises.
3. Lock order between Job, Attempt and idempotency rows, as a module beside LeaseCapacity.
4. The orphan sweep with a list read before a claim: AttemptEnvironment with resources that vanish while they are in
   use, and what Docker does about a container that names a volume which is gone.
5. The MCP manager's reconnection, as a module of the client.
