---------------------------- MODULE TeamStorage ----------------------------
(***************************************************************************)
(* The two files members of a team share: an inbox guarded by a lock file  *)
(* (src/mewcode/teams/mailbox.py) and the task board (shared_task.py).     *)
(* Processes step from one access of a file to the next; within one        *)
(* process an operation runs without an await.  One inbox and one board    *)
(* are modelled: their files are independent of all others.                *)
(*                                                                         *)
(* A message is a number.  The inbox holds the messages not yet read and   *)
(* those read; a file that is being rewritten is torn, and a torn file is  *)
(* read as an empty inbox.  A task is the set of the operations that have  *)
(* made it what it is: its creation and its updates, which are numbered.   *)
(* A torn board cannot be read: json.loads raises.                         *)
(***************************************************************************)
EXTENDS Naturals, FiniteSets

CONSTANTS
    Procs,          \* processes that open the team's directory
    NoProc,         \* the lock file does not exist
    MaxTries,       \* 10 in the code
    MaxMail,        \* bound: messages written
    MaxBoard        \* bound: operations that save the board

ASSUME StorageAssumption ==
    NoProc \notin Procs /\ MaxTries \in Nat \ {0} /\ MaxMail \in Nat /\ MaxBoard \in Nat

VARIABLES
    lockFile,       \* creator of the lock file, or NoProc
    mailPc,         \* where a process is in _with_lock
    tries,
    inbox,          \* [unread, read]: the file's messages
    torn,           \* the file is truncated and not written yet
    mailCopy,       \* what a process read, as it will write it
    sending,        \* the message a writer appends, 0 for consume
    written,        \* ghost: messages whose write returned
    taken,          \* ghost: how often each message was consumed
    writerMishap,         \* ghost: a lock was broken or left out, or a writer died
    board, boardNext,   \* tasks.json: id -> task, and next_id
    boardTorn,      \* the file is truncated, or two processes wrote into each other
    boardPc,        \* process -> "closed" | "idle" | "save" | "fill"
    mem, memNext,   \* SharedTaskStore._tasks and _next_id of each process
    boardOp,        \* process -> the operation it is about to save
    boardOps,       \* number of operations begun
    boardDone,      \* ghost: operations that returned
    boardMishap     \* ghost: a task was created over a board the process had not
                    \* read, two operations overlapped, or a writer died

mailVars == <<lockFile, mailPc, tries, inbox, torn, mailCopy, sending, written, taken, writerMishap>>
boardVars == <<board, boardNext, boardTorn, boardPc, mem, memNext, boardOp, boardOps,
               boardDone, boardMishap>>
storageVars == <<mailVars, boardVars>>

NoMail == [unread |-> {}, read |-> {}]
NoTasks == [i \in {} |-> 0]

StorageInit ==
    /\ lockFile = NoProc
    /\ mailPc = [p \in Procs |-> "idle"] /\ tries = [p \in Procs |-> 0]
    /\ inbox = NoMail /\ torn = FALSE
    /\ mailCopy = [p \in Procs |-> NoMail] /\ sending = [p \in Procs |-> 0]
    /\ written = {} /\ taken = [k \in 1..MaxMail |-> 0] /\ writerMishap = FALSE
    /\ board = NoTasks /\ boardNext = 1 /\ boardTorn = FALSE
    /\ boardPc = [p \in Procs |-> "closed"]
    /\ mem = [p \in Procs |-> NoTasks] /\ memNext = [p \in Procs |-> 1]
    /\ boardOp = [p \in Procs |-> 0] /\ boardOps = 0
    /\ boardDone = {} /\ boardMishap = FALSE

Sent == (written \cup {sending[p] : p \in Procs}) \ {0}
Goto(p, l) == mailPc' = [mailPc EXCEPT ![p] = l]

-----------------------------------------------------------------------------
(* Mailbox._with_lock. *)

\* write() appends a message, consume() marks all as read.
StartWrite(p) ==
    /\ mailPc[p] = "idle" /\ Cardinality(Sent) < MaxMail
    /\ sending' = [sending EXCEPT ![p] = Cardinality(Sent) + 1]
    /\ tries' = [tries EXCEPT ![p] = 0] /\ Goto(p, "lock")
    /\ UNCHANGED <<lockFile, inbox, torn, mailCopy, written, taken, writerMishap, boardVars>>

StartConsume(p) ==
    /\ mailPc[p] = "idle"
    /\ sending' = [sending EXCEPT ![p] = 0]
    /\ tries' = [tries EXCEPT ![p] = 0] /\ Goto(p, "lock")
    /\ UNCHANGED <<lockFile, inbox, torn, mailCopy, written, taken, writerMishap, boardVars>>

\* Mutant of CreateLock: the lock file is created without O_EXCL
CreateLock_NotExclusive(p) ==
    /\ mailPc[p] = "lock" /\ tries[p] < MaxTries
    /\ lockFile' = p /\ Goto(p, "read")
    /\ UNCHANGED <<tries, inbox, torn, mailCopy, sending, written, taken, writerMishap, boardVars>>

CreateLock(p) ==
    /\ mailPc[p] = "lock" /\ tries[p] < MaxTries /\ lockFile = NoProc
    /\ lockFile' = p /\ Goto(p, "read")
    /\ UNCHANGED <<tries, inbox, torn, mailCopy, sending, written, taken, writerMishap, boardVars>>

\* The lock exists; if it is older than ten seconds it is removed, whoever holds it.
LockExists(p) ==
    /\ mailPc[p] = "lock" /\ tries[p] < MaxTries /\ lockFile # NoProc
    /\ tries' = [tries EXCEPT ![p] = @ + 1]
    /\ \/ lockFile' = NoProc /\ writerMishap' = TRUE
       \/ UNCHANGED <<lockFile, writerMishap>>
    /\ UNCHANGED <<mailPc, inbox, torn, mailCopy, sending, written, taken, boardVars>>

\* After the last try the operation goes on without the lock.
GiveUpLock(p) ==
    /\ mailPc[p] = "lock" /\ tries[p] = MaxTries
    /\ Goto(p, "read") /\ writerMishap' = TRUE
    /\ UNCHANGED <<lockFile, tries, inbox, torn, mailCopy, sending, written, taken, boardVars>>

ReadInbox(p) ==
    /\ mailPc[p] = "read"
    /\ LET file == IF torn THEN NoMail ELSE inbox
       IN  mailCopy' = [mailCopy EXCEPT ![p] =
               IF sending[p] # 0
               THEN [unread |-> file.unread \cup {sending[p]}, read |-> file.read]
               ELSE [unread |-> {}, read |-> file.read \cup file.unread]]
    /\ taken' = [k \in DOMAIN taken |->
            taken[k] + IF sending[p] = 0 /\ ~torn /\ k \in inbox.unread THEN 1 ELSE 0]
    /\ Goto(p, "write")
    /\ UNCHANGED <<lockFile, tries, inbox, torn, sending, written, writerMishap, boardVars>>

\* write_text truncates the file and then fills it.
Truncate(p) ==
    /\ mailPc[p] = "write"
    /\ torn' = TRUE /\ Goto(p, "fill")
    /\ UNCHANGED <<lockFile, tries, inbox, mailCopy, sending, written, taken, writerMishap, boardVars>>

Fill(p) ==
    /\ mailPc[p] = "fill"
    /\ torn' = FALSE /\ inbox' = mailCopy[p] /\ Goto(p, "unlock")
    /\ UNCHANGED <<lockFile, tries, mailCopy, sending, written, taken, writerMishap, boardVars>>

\* The finally block removes the lock file, even another process's.
Unlock(p) ==
    /\ mailPc[p] = "unlock"
    /\ lockFile' = NoProc
    /\ written' = (written \cup {sending[p]}) \ {0}
    /\ sending' = [sending EXCEPT ![p] = 0] /\ mailCopy' = [mailCopy EXCEPT ![p] = NoMail]
    /\ tries' = [tries EXCEPT ![p] = 0] /\ Goto(p, "idle")
    /\ UNCHANGED <<inbox, torn, taken, writerMishap, boardVars>>

\* A process ends in the middle of an operation; its lock file stays.
Die(p) ==
    /\ mailPc[p] \notin {"idle", "dead"}
    /\ writerMishap' = (writerMishap \/ mailPc[p] = "fill")
    /\ Goto(p, "dead")
    /\ UNCHANGED <<lockFile, tries, inbox, torn, mailCopy, sending, written, taken, boardVars>>

-----------------------------------------------------------------------------
(* SharedTaskStore: no lock, and a copy of the board in every process. *)

BoardGoto(p, l) == boardPc' = [boardPc EXCEPT ![p] = l]
Saving(p) == boardPc[p] \in {"save", "fill"}

\* _load: the file's tasks replace those of the same id in memory.
LoadTasks(m) == [i \in DOMAIN m \cup DOMAIN board |-> IF i \in DOMAIN board THEN board[i] ELSE m[i]]

\* get_task_store and __init__: a new store loads.
OpenStore(p) ==
    /\ boardPc[p] = "closed" /\ ~boardTorn /\ BoardGoto(p, "idle")
    /\ mem' = [mem EXCEPT ![p] = LoadTasks(NoTasks)] /\ memNext' = [memNext EXCEPT ![p] = boardNext]
    /\ UNCHANGED <<board, boardNext, boardTorn, boardOp, boardOps, boardDone, boardMishap, mailVars>>

\* get() and list_tasks(), and update() of a task that is not there.
ReadBoard(p) ==
    /\ boardPc[p] = "idle" /\ ~boardTorn
    /\ mem' = [mem EXCEPT ![p] = LoadTasks(@)] /\ memNext' = [memNext EXCEPT ![p] = boardNext]
    /\ UNCHANGED <<board, boardNext, boardTorn, boardPc, boardOp, boardOps, boardDone, boardMishap,
                   mailVars>>

\* An operation that will save m, numbered and on its way to _save.
StartSave(p, m, next) ==
    /\ boardPc[p] = "idle" /\ boardOps < MaxBoard
    /\ boardOps' = boardOps + 1 /\ boardOp' = [boardOp EXCEPT ![p] = boardOps']
    /\ mem' = [mem EXCEPT ![p] = m] /\ memNext' = [memNext EXCEPT ![p] = next]
    /\ BoardGoto(p, "save")
    /\ UNCHANGED <<board, boardNext, boardTorn, boardDone, mailVars>>

\* create() does not load: it takes its number from the copy in memory.
CreateTask(p) ==
    /\ LET id == memNext[p]
       IN  StartSave(p, [i \in DOMAIN mem[p] \cup {id} |-> IF i = id THEN {boardOps + 1} ELSE mem[p][i]],
                     id + 1)
    /\ boardMishap' = (boardMishap \/ mem[p] # board \/ \E q \in Procs : Saving(q))

\* Mutant of UpdateTask: the copy in memory is not refreshed first.
UpdateTask_NoLoad(p) ==
    /\ \E id \in DOMAIN mem[p] :
         StartSave(p, [mem[p] EXCEPT ![id] = @ \cup {boardOps + 1}], memNext[p])
    /\ boardMishap' = (boardMishap \/ \E q \in Procs : Saving(q))

\* update() loads, and changes a task it finds.
UpdateTask(p) ==
    /\ ~boardTorn
    /\ LET loaded == LoadTasks(mem[p])
       IN  \E id \in DOMAIN loaded :
             StartSave(p, [loaded EXCEPT ![id] = @ \cup {boardOps + 1}], boardNext)
    /\ boardMishap' = (boardMishap \/ \E q \in Procs : Saving(q))

\* _save: write_text truncates the file and then fills it.
TruncateBoard(p) ==
    /\ boardPc[p] = "save" /\ BoardGoto(p, "fill") /\ boardTorn' = TRUE
    /\ UNCHANGED <<board, boardNext, mem, memNext, boardOp, boardOps, boardDone, boardMishap, mailVars>>

\* What another process has written since is overwritten in part, if it is longer.
FillBoard(p) ==
    /\ boardPc[p] = "fill" /\ BoardGoto(p, "idle")
    /\ board' = mem[p] /\ boardNext' = memNext[p]
    /\ boardTorn' \in (IF boardTorn THEN {FALSE} ELSE BOOLEAN)
    /\ boardDone' = boardDone \cup {boardOp[p]}
    /\ UNCHANGED <<mem, memNext, boardOp, boardOps, boardMishap, mailVars>>

\* The process ends, and its copy with it.
CloseStore(p) ==
    /\ boardPc[p] # "closed" /\ BoardGoto(p, "closed")
    /\ boardMishap' = (boardMishap \/ boardPc[p] = "fill")
    /\ mem' = [mem EXCEPT ![p] = NoTasks] /\ memNext' = [memNext EXCEPT ![p] = 1]
    /\ UNCHANGED <<board, boardNext, boardTorn, boardOp, boardOps, boardDone, mailVars>>

-----------------------------------------------------------------------------
MailStep(p) ==
    \/ StartWrite(p) \/ StartConsume(p) \/ CreateLock(p) \/ LockExists(p) \/ GiveUpLock(p)
    \/ ReadInbox(p) \/ Truncate(p) \/ Fill(p) \/ Unlock(p) \/ Die(p)
BoardStep(p) ==
    \/ OpenStore(p) \/ ReadBoard(p) \/ CreateTask(p) \/ UpdateTask(p)
    \/ TruncateBoard(p) \/ FillBoard(p) \/ CloseStore(p)
StorageNext == \E p \in Procs : MailStep(p) \/ BoardStep(p)
StorageSpec == StorageInit /\ [][StorageNext]_storageVars

-----------------------------------------------------------------------------
\* A message whose write returned stays in the inbox and is handed out at most
\* once, unless some process worked without the lock, a lock was removed as
\* stale, or a writer died with the file truncated.  What the lock protocol of
\* Mailbox._with_lock is for.
MailLossNeedsMishap ==
    \/ writerMishap
    \/ torn
    \/ /\ written \subseteq inbox.unread \cup inbox.read
       /\ \A k \in DOMAIN taken : taken[k] <= 1

\* What an operation on the board has saved stays: every task that was created
\* is on it under a number of its own, with every update that returned, unless
\* a task was created over a board its process had not read (create() does not
\* load), an operation began while another process was between its load and the
\* end of its save (there is no lock), or a process died with the file
\* truncated.  Loading before an update is what protects all others
\* (SharedTaskStore.update); while the file is torn it cannot be read at all.
TaskLossIsExplained ==
    boardMishap \/ boardTorn \/ boardDone \subseteq UNION {board[i] : i \in DOMAIN board}
=============================================================================
