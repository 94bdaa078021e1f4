----------------------------- MODULE RemoteControl -----------------------------
(***************************************************************************)
(* Remote control: the server that runs one agent (remote.py) and the      *)
(* pages in browsers that talk to it (the script of web_content.py), over  *)
(* web sockets that break and are opened again.                            *)
(*                                                                         *)
(* A page locks its input when it sends, and unlocks it at the next        *)
(* loop_complete, error or command_done that it hears, all called "free"   *)
(* here.  A message that comes while the server is streaming is dropped    *)
(* without a word.  Other events only draw, and are left out.  A send to   *)
(* all connections is one step.                                            *)
(***************************************************************************)
EXTENDS Naturals, Sequences, FiniteSets

CONSTANTS
    Pages,          \* browser pages
    MaxSends,       \* bound: messages sent
    MaxAsks,        \* bound: permission requests
    MaxReports,     \* bound: errors reported within runs
    MaxBreaks       \* bound: connections broken and pages reloaded

ASSUME RemoteAssumption == IsFiniteSet(Pages) /\ {MaxSends, MaxAsks, MaxReports, MaxBreaks} \subseteq Nat

\* what a user enters: a message, a command that is run at once (a LOCAL one,
\* /clear, one that is not supported or not known), /compact, /review (of type
\* PROMPT, it sends a message of its own) and a lone "/"
Entries == {"text", "local", "compact", "review", "bare"}

VARIABLES
    open,           \* pages with an open socket
    connections,    \* _connections
    locked,         \* pages with streaming set
    dialogs,        \* page: permission requests it shows with buttons
    up, down,       \* what is in the page's socket, to the server and from it
    handlers,       \* _handle_user_message tasks that have not begun: [by, entry]
    busy,      \* _streaming
    run,            \* "none", "working", "asking" or "ending"
    asking,         \* the request whose future the agent awaits, 0 for none
    pendingPerms,   \* _pending_perms
    asked,          \* requests made
    compacting,     \* the pages for which /compact runs
    sends, reports, breaks,     \* bounds
    why,            \* ghost: page: what happened that nobody will unlock it for
    unheard         \* ghost: the request that waits, or its answer, was lost

serverVars == <<handlers, busy, run, asking, pendingPerms, asked, compacting>>
pageVars == <<locked, dialogs, up, down, why>>
remoteVars == <<open, connections, pageVars, serverVars, sends, reports, breaks, unheard>>

RemoteInit ==
    /\ open = {} /\ connections = {} /\ locked = {}
    /\ dialogs = [p \in Pages |-> {}] /\ up = [p \in Pages |-> <<>>] /\ down = [p \in Pages |-> <<>>]
    /\ handlers = <<>> /\ busy = FALSE /\ run = "none" /\ asking = 0
    /\ pendingPerms = {} /\ asked = 0 /\ compacting = {} /\ sends = 0 /\ reports = 0 /\ breaks = 0
    /\ why = [p \in Pages |-> "none"] /\ unheard = FALSE

Has(queue, test(_)) == \E i \in 1..Len(queue) : test(queue[i])
Says(m) == m.kind = "say"
PageAnswers(m) == m.kind = "answer" /\ m.id = asking
FreeMessage == [kind |-> "free", id |-> 0]
AskMessage(id) == [kind |-> "ask", id |-> id]
Frees(m) == m = FreeMessage
Asks(m) == m = AskMessage(asking)

\* _broadcast: a connection that is closed is dropped, and the others go on
Hearers == connections \cap open

\* m to every connection; a page that is locked and cannot hear has missed it
Broadcast(m) ==
    /\ down' = [p \in Pages |-> IF p \in Hearers THEN Append(down[p], m) ELSE down[p]]
    /\ connections' = connections \cap open
    /\ why' = [p \in Pages |->
          IF Frees(m) /\ p \in locked /\ p \notin open THEN "missed" ELSE why[p]]

-----------------------------------------------------------------------------
(* A page. *)

\* connect: after an onclose, three seconds later; what it shows stays
Connect(p) ==
    /\ p \notin open
    /\ open' = open \cup {p} /\ connections' = connections \cup {p}
    /\ UNCHANGED <<pageVars, serverVars, sends, reports, breaks, unheard>>

\* The socket breaks, with what is in it; the server notices when it sends, or
\* when its handler for the socket ends.
Break(p) ==
    /\ p \in open /\ breaks < MaxBreaks /\ breaks' = breaks + 1
    /\ open' = open \ {p} /\ connections' \in {connections, connections \ {p}}
    /\ up' = [up EXCEPT ![p] = <<>>] /\ down' = [down EXCEPT ![p] = <<>>]
    /\ why' = IF p \notin locked THEN why
              ELSE IF Has(up[p], Says) THEN [why EXCEPT ![p] = "unsent"]
              ELSE IF Has(down[p], Frees) THEN [why EXCEPT ![p] = "missed"] ELSE why
    /\ unheard' = (unheard \/ (run = "asking" /\ (Has(up[p], PageAnswers) \/ Has(down[p], Asks))))
    /\ UNCHANGED <<locked, dialogs, serverVars, sends, reports>>

\* The page is loaded anew: it knows nothing of the run or of the requests.
Load(p) ==
    /\ p \notin open /\ breaks < MaxBreaks /\ breaks' = breaks + 1
    /\ locked' = locked \ {p} /\ dialogs' = [dialogs EXCEPT ![p] = {}]
    /\ why' = [why EXCEPT ![p] = "none"]
    /\ unheard' = (unheard \/ (run = "asking" /\ asking \in dialogs[p]))
    /\ UNCHANGED <<open, connections, up, down, serverVars, sends, reports>>

\* sendMessage: a closed socket discards it, and the page is locked all the same
Send(p, entry) ==
    /\ p \notin locked /\ sends < MaxSends /\ sends' = sends + 1
    /\ locked' = locked \cup {p}
    /\ IF p \in open
       THEN up' = [up EXCEPT ![p] = Append(@, [kind |-> "say", entry |-> entry])] /\ why' = why
       ELSE up' = up /\ why' = [why EXCEPT ![p] = "unsent"]
    /\ UNCHANGED <<open, connections, dialogs, down, serverVars, reports, breaks, unheard>>

\* respondPerm: the buttons go, whether or not the socket is open
Respond(p, id) ==
    /\ id \in dialogs[p] /\ dialogs' = [dialogs EXCEPT ![p] = @ \ {id}]
    /\ up' = IF p \in open THEN [up EXCEPT ![p] = Append(@, [kind |-> "answer", id |-> id])] ELSE up
    /\ unheard' = (unheard \/ (p \notin open /\ id = asking))
    /\ UNCHANGED <<open, connections, locked, down, why, serverVars, sends, reports, breaks>>

\* handleMessage
Hear(p) ==
    /\ down[p] # <<>> /\ down' = [down EXCEPT ![p] = Tail(@)]
    /\ IF Frees(Head(down[p]))
       THEN locked' = locked \ {p} /\ why' = [why EXCEPT ![p] = "none"] /\ UNCHANGED dialogs
       ELSE dialogs' = [dialogs EXCEPT ![p] = @ \cup {Head(down[p]).id}] /\ UNCHANGED <<locked, why>>
    /\ UNCHANGED <<open, connections, up, serverVars, sends, reports, breaks, unheard>>

-----------------------------------------------------------------------------
(* The server. *)

\* _handle_permission_response: an id that is not pending, or whose future is
\* done, is ignored
Resolve(id) ==
    /\ pendingPerms' = pendingPerms \ {id}
    /\ IF id \in pendingPerms /\ id = asking
       THEN run' = "working" /\ asking' = 0 /\ unheard' = FALSE
       ELSE UNCHANGED <<run, asking, unheard>>

\* _ws_handler reads: a message becomes a task, an answer is applied at once
Receive(p) ==
    /\ up[p] # <<>> /\ up' = [up EXCEPT ![p] = Tail(@)]
    /\ LET m == Head(up[p])
       IN  IF Says(m)
           THEN /\ handlers' = Append(handlers, [by |-> p, entry |-> m.entry])
                /\ UNCHANGED <<pendingPerms, run, asking, unheard>>
           ELSE Resolve(m.id) /\ UNCHANGED handlers
    /\ UNCHANGED <<open, connections, locked, dialogs, down, why, busy, asked, compacting, sends, reports, breaks>>

\* the task's first step; h is the task
Ignored(h) ==
    /\ \/ busy /\ why' = IF run = "ending" /\ h.by \in locked
                         THEN [why EXCEPT ![h.by] = "late"] ELSE why
       \/ ~busy /\ h.entry = "bare" /\ why' = IF h.by \in locked
                         THEN [why EXCEPT ![h.by] = "bare"] ELSE why
    /\ handlers' = Tail(handlers)
    /\ UNCHANGED <<connections, down, busy, run, compacting>>

\* Mutant of Command: only a command that succeeds is reported done
Command_ReportsSuccess(h) ==
    /\ h.entry = "local" /\ ~busy /\ handlers' = Tail(handlers)
    /\ Broadcast(FreeMessage) \/ UNCHANGED <<connections, down, why>>
    /\ UNCHANGED <<busy, run, compacting>>

\* _handle_slash_command: the command, or what is wrong with it, then command_done
Command(h) ==
    /\ h.entry = "local" /\ ~busy /\ handlers' = Tail(handlers)
    /\ Broadcast(FreeMessage) /\ UNCHANGED <<busy, run, compacting>>

\* /compact awaits the model, and streaming is not set meanwhile
CompactBegins(h) ==
    /\ h.entry = "compact" /\ ~busy /\ handlers' = Tail(handlers)
    /\ compacting' = compacting \cup {h.by}
    /\ UNCHANGED <<connections, down, why, busy, run>>

\* send_user_message: one more task, behind those that wait
Review(h) ==
    /\ h.entry = "review" /\ ~busy
    /\ handlers' = Append(Tail(handlers), [h EXCEPT !.entry = "text"])
    /\ UNCHANGED <<connections, down, why, busy, run, compacting>>

RunBegins(h) ==
    /\ h.entry = "text" /\ ~busy /\ busy' = TRUE /\ run' = "working"
    /\ handlers' = Tail(handlers)
    /\ UNCHANGED <<connections, down, why, compacting>>

Handle ==
    /\ handlers # <<>>
    /\ LET h == Head(handlers)
       IN  Ignored(h) \/ Command(h) \/ CompactBegins(h) \/ Review(h) \/ RunBegins(h)
    /\ UNCHANGED <<open, locked, dialogs, up, asking, pendingPerms, asked, sends, reports, breaks, unheard>>

CompactEnds(p) ==
    /\ p \in compacting /\ compacting' = compacting \ {p} /\ Broadcast(FreeMessage)
    /\ UNCHANGED <<open, locked, dialogs, up, handlers, busy, run, asking,
                   pendingPerms, asked, sends, reports, breaks, unheard>>

\* The agent asks for permission and waits, without a limit of time.
RunAsks ==
    /\ run = "working" /\ asked < MaxAsks /\ asked' = asked + 1
    /\ run' = "asking" /\ asking' = asked' /\ pendingPerms' = pendingPerms \cup {asked'}
    /\ Broadcast(AskMessage(asked')) /\ unheard' = (open = {})
    /\ UNCHANGED <<open, locked, dialogs, up, handlers, busy, compacting, sends, reports, breaks>>

\* An error within the run (compaction failed), after which it goes on, or the
\* last event; the hooks of the agent's end may still have to run after an error.
RunReports(after) ==
    /\ run = "working" /\ after \in {"working", "ending"} /\ run' = after
    /\ Broadcast(FreeMessage)
    /\ IF after = "working" THEN reports < MaxReports /\ reports' = reports + 1 ELSE reports' = reports
    /\ UNCHANGED <<open, locked, dialogs, up, handlers, busy, asking,
                   pendingPerms, asked, compacting, sends, breaks, unheard>>

\* the finally of _handle_user_message
RunEnds ==
    /\ run = "ending" /\ run' = "none" /\ busy' = FALSE
    /\ UNCHANGED <<open, connections, pageVars, handlers, asking, pendingPerms, asked,
                   compacting, sends, reports, breaks, unheard>>

\* A "cancel" of some client (the page has no button for it), or an exception:
\* the end is reported after the agent's, and the future stays in the table.
RunFails ==
    /\ busy /\ run' = "none" /\ busy' = FALSE /\ asking' = 0 /\ unheard' = FALSE
    /\ Broadcast(FreeMessage)
    /\ UNCHANGED <<open, locked, dialogs, up, handlers, pendingPerms, asked, compacting, sends, reports, breaks>>

RemoteNext ==
    \/ \E p \in Pages :
          \/ Connect(p) \/ Break(p) \/ Load(p) \/ \E entry \in Entries : Send(p, entry)
          \/ \E id \in 1..MaxAsks : Respond(p, id)
          \/ Hear(p) \/ Receive(p) \/ CompactEnds(p)
    \/ Handle \/ RunAsks \/ RunEnds \/ RunFails
    \/ \E after \in {"working", "ending"} : RunReports(after)
RemoteSpec == RemoteInit /\ [][RemoteNext]_remoteVars

-----------------------------------------------------------------------------
\* A page whose input is locked will be unlocked by what is under way, unless one
\* of these happened: its message or its news was lost with a socket ("unsent",
\* "missed"), it was a lone "/" ("bare"), or it came when the run had reported an
\* error but its hooks had not ended ("late", remote.py:299).
LockIsExplained ==
    \A p \in locked :
        \/ why[p] # "none" \/ Has(up[p], Says) \/ Has(down[p], Frees)
        \/ \E i \in 1..Len(handlers) : handlers[i].by = p
        \/ run \in {"working", "asking"} \/ compacting # {}

\* An agent that waits for a permission has somebody who can give it: a page shows
\* the request or will, or the answer is on its way, unless the request or the
\* answer was lost with a connection (it is not sent again, remote.py:387).
AskIsInHand ==
    run = "asking" =>
        \/ unheard
        \/ \E p \in Pages : asking \in dialogs[p] \/ Has(down[p], Asks) \/ Has(up[p], PageAnswers)
=============================================================================
