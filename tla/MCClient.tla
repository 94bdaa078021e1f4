------------------------------ MODULE MCClient ------------------------------
(* The components of the command line client on small instances.  They share *)
(* no variable, so a behaviour exercises one of them, which Init chooses;    *)
(* the others keep their first state.  The mailbox and the task board of a   *)
(* team are two files with nothing in common and are explored as two parts.  *)
EXTENDS SessionLog, ContextWindow, SubAgents, Permissions, TerminalSession,
        RemoteControl, TeamStorage, WorkspaceFiles, Worktrees

VARIABLE part

\* ContextWindow: four tool results, one above the single limit, one read back.
MCResults == 1 .. 4
MCSize == [r \in MCResults |-> <<3, 4, 6, 5>>[r]]

\* SubAgents: one definition that narrows the tools and keeps the Agent tool.
MCDefinitions == {[tools |-> {"Bash", "Agent"}, disallowed |-> {}, background |-> FALSE]}

\* Permissions: commands that share a stem, one of two lines, and writes of
\* the plan file, inside and outside the project.
MCCall(tool, category, text, stem, parts, verbatim, place) ==
    [tool |-> tool, category |-> category, text |-> text, stem |-> stem, parts |-> parts,
     verbatim |-> verbatim, place |-> place, plan |-> FALSE, banned |-> FALSE, harmless |-> FALSE]
MCCalls ==
    {MCCall("Bash", "command", "make a", "make", {"make"}, TRUE, "none"),
     MCCall("Bash", "command", "make b && x", "make", {"make", "x"}, TRUE, "none"),
     MCCall("Bash", "command", "two lines", "two", {"two"}, FALSE, "none"),
     [MCCall("WriteFile", "write", "f", "f", {}, TRUE, "in") EXCEPT !.plan = TRUE],
     MCCall("WriteFile", "write", "/etc", "/etc", {}, TRUE, "out")}
MCRule(tool, stem, effect) == [tool |-> tool, stem |-> stem, verbatim |-> TRUE, effect |-> effect]
MCRuleFiles ==
    {[user |-> <<>>, project |-> <<>>],
     [user |-> <<MCRule("Bash", "any", "ask")>>,
      project |-> <<MCRule("WriteFile", "any", "allow"), MCRule("WriteFile", "f", "deny")>>]}
MCHooks ==
    {[once |-> TRUE, reject |-> TRUE,
      group |-> [logic |-> "and",
                 conditions |-> {[op |-> "==", of |-> {c \in MCCalls : c.text = "f"}]}]]}

Parts == {"session", "context", "agents", "permissions", "terminal", "remote",
          "mail", "board", "files", "worktrees"}

\* What an Init leaves open is fixed in the parts that do not run.
Fixed ==
    /\ part # "permissions" => /\ ruleFile = CHOOSE f \in RuleFiles : TRUE
                               /\ mode = (CHOOSE m \in Modes : TRUE) /\ ~autoAllow
    /\ part # "terminal" => mcp = "done"
    /\ part # "files" => \A f \in Files : disk[f] = 0

Init ==
    /\ part \in Parts
    /\ SessionInit /\ ContextInit /\ SubInit /\ PermissionInit /\ TerminalInit
    /\ RemoteInit /\ StorageInit /\ FilesInit /\ WorktreeInit
    /\ Fixed

MailNext == \E p \in Procs : MailStep(p)
BoardNext == \E p \in Procs : BoardStep(p)

Next ==
    \/ part = "session" /\ SessionNext
       /\ UNCHANGED <<part, contextVars, subVars, permissionVars, terminalVars, remoteVars,
                      mailVars, boardVars, filesVars, worktreeVars>>
    \/ part = "context" /\ ContextNext
       /\ UNCHANGED <<part, sessionVars, subVars, permissionVars, terminalVars, remoteVars,
                      mailVars, boardVars, filesVars, worktreeVars>>
    \/ part = "agents" /\ SubNext
       /\ UNCHANGED <<part, sessionVars, contextVars, permissionVars, terminalVars, remoteVars,
                      mailVars, boardVars, filesVars, worktreeVars>>
    \/ part = "permissions" /\ PermissionNext
       /\ UNCHANGED <<part, sessionVars, contextVars, subVars, terminalVars, remoteVars,
                      mailVars, boardVars, filesVars, worktreeVars>>
    \/ part = "terminal" /\ TerminalNext
       /\ UNCHANGED <<part, sessionVars, contextVars, subVars, permissionVars, remoteVars,
                      mailVars, boardVars, filesVars, worktreeVars>>
    \/ part = "remote" /\ RemoteNext
       /\ UNCHANGED <<part, sessionVars, contextVars, subVars, permissionVars, terminalVars,
                      mailVars, boardVars, filesVars, worktreeVars>>
    \/ part = "mail" /\ MailNext
       /\ UNCHANGED <<part, sessionVars, contextVars, subVars, permissionVars, terminalVars,
                      remoteVars, boardVars, filesVars, worktreeVars>>
    \/ part = "board" /\ BoardNext
       /\ UNCHANGED <<part, sessionVars, contextVars, subVars, permissionVars, terminalVars,
                      remoteVars, mailVars, filesVars, worktreeVars>>
    \/ part = "files" /\ FilesNext
       /\ UNCHANGED <<part, sessionVars, contextVars, subVars, permissionVars, terminalVars,
                      remoteVars, mailVars, boardVars, worktreeVars>>
    \/ part = "worktrees" /\ WorktreeNext
       /\ UNCHANGED <<part, sessionVars, contextVars, subVars, permissionVars, terminalVars,
                      remoteVars, mailVars, boardVars, filesVars>>

vars == <<part, sessionVars, contextVars, subVars, permissionVars, terminalVars, remoteVars,
          storageVars, filesVars, worktreeVars>>
Spec == Init /\ [][Next]_vars
=============================================================================
