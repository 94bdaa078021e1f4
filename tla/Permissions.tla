----------------------------- MODULE Permissions -----------------------------
(***************************************************************************)
(* Whether a tool call runs, is refused, or is put to the user: the hooks  *)
(* before a tool (hooks/), the layers of PermissionChecker.check           *)
(* (permissions/), the rule files of three tiers, and what the user's      *)
(* answer "don't ask again" leaves behind.                                 *)
(*                                                                         *)
(* A call is a record: its tool, category and text; stem, what the text    *)
(* begins with and a rule made from it matches; parts, the stems of the    *)
(* commands that it joins; verbatim, whether such a rule can be read again *)
(* and matches its own text; place, "in", "out" of the path sandbox or     *)
(* not a path at all; plan, a tool or a file of plan mode; banned and      *)
(* harmless, the two lists of commands.                                    *)
(***************************************************************************)
EXTENDS Naturals, Sequences, SequencesExt

CONSTANTS
    Calls,          \* the calls that the model may make
    RuleFiles,      \* what the user's and the project's file may hold
    Hooks,          \* the hooks on pre_tool_use
    MaxRules        \* bound: rules in the local file

Modes == {"default", "acceptEdits", "plan", "bypassPermissions"}
NoCall == [tool |-> "none"]

VARIABLES
    ruleFile,       \* tier -> the rules of its file, in order
    localFile,      \* the rules of permissions.local.yaml
    allowed,        \* _session_allowed: pairs of a tool and a text
    mode,           \* PermissionChecker.mode
    autoAllow,      \* sandbox_enabled: commands run unasked in the OS sandbox
    executed,       \* hooks that ran, for those that run once
    pending,        \* the call that the user is asked about
    verdict,        \* what became of the last call
    trusted         \* ghost: calls answered "don't ask again" in this process

ruleVars == <<ruleFile, localFile, allowed>>
permissionVars == <<ruleVars, mode, autoAllow, executed, pending, verdict, trusted>>

\* The state before the first call.
PermissionInit ==
    /\ ruleFile \in RuleFiles /\ localFile = <<>>
    /\ allowed = {} /\ executed = {} /\ pending = NoCall
    /\ mode \in Modes /\ autoAllow \in BOOLEAN
    /\ verdict = "none" /\ trusted = {}

-----------------------------------------------------------------------------
(* Hooks: a condition is a test of one field, here the calls that pass it. *)

HoldsFor(condition, call) ==
    IF condition.op \in {"==", "=~", "~="} THEN call \in condition.of ELSE call \notin condition.of

GroupHolds(group, call) ==
    \/ group.conditions = {}
    \/ group.logic = "and" /\ \A c \in group.conditions : HoldsFor(c, call)
    \/ group.logic = "or" /\ \E c \in group.conditions : HoldsFor(c, call)

\* should_run and the condition
Matching(call) ==
    {h \in Hooks : (h.once => h \notin executed) /\ GroupHolds(h.group, call)}

-----------------------------------------------------------------------------
(* Rules. *)

RuleMatches(rule, call, stem) == rule.tool = call.tool /\ rule.stem \in {"any", stem} /\ rule.verbatim

\* evaluate: the first tier with a rule that matches, and its last such rule
Evaluate(call, stem) ==
    LET Match(file) == SelectSeq(file, LAMBDA r : RuleMatches(r, call, stem))
        tiers == <<Match(ruleFile["user"]), Match(ruleFile["project"]), Match(localFile)>>
        found == {t \in DOMAIN tiers : tiers[t] # <<>>}
    IN  IF found = {} THEN "none"
        ELSE Last(tiers[CHOOSE t \in found : \A u \in found : t <= u]).effect

\* append_local_rule reads the file, which leaves out what cannot be parsed
LocalWith(rule) == Append(SelectSeq(localFile, LAMBDA r : r.verbatim), rule)

-----------------------------------------------------------------------------
(* PermissionChecker.check, layer by layer. *)

PlanModeAllows(call) == mode = "plan" /\ call.plan
CommandAllowed(call) == call.category = "command" /\ call.harmless
CommandBanned(call) == call.category = "command" /\ call.banned

\* the OS sandbox: every command of the text by itself; a rule may refuse or ask
InSandbox(call) ==
    LET effects == {Evaluate(call, stem) : stem \in call.parts}
    IN  IF "deny" \in effects THEN "deny" ELSE IF "ask" \in effects THEN "ask" ELSE "allow"

\* PathSandbox.check: neither the listed settings nor a path outside the roots
OutOfBounds(call) == call.category \in {"read", "write"} /\ call.place = "out"

ModeDecides(call) ==
    IF \/ call.category = "read" \/ mode = "bypassPermissions"
       \/ call.category = "write" /\ mode = "acceptEdits"
    THEN "allow" ELSE "ask"

Check(call) ==
    CASE PlanModeAllows(call) -> "allow"
      [] CommandAllowed(call) /\ ~PlanModeAllows(call) -> "allow"
      [] CommandBanned(call) /\ ~CommandAllowed(call) /\ ~PlanModeAllows(call) -> "deny"
      [] OTHER ->
         IF autoAllow /\ call.category = "command" THEN InSandbox(call)
         ELSE IF OutOfBounds(call) /\ mode # "bypassPermissions" THEN "ask"
         ELSE IF Evaluate(call, call.stem) \in {"allow", "deny"} THEN Evaluate(call, call.stem)
         ELSE IF <<call.tool, call.text>> \in allowed THEN "allow"
         ELSE ModeDecides(call)

-----------------------------------------------------------------------------
(* The agent, its user and the commands. *)

\* A call passes the hooks, then the checker; the agent waits while it is asked about.
CallTool(call) ==
    /\ pending = NoCall
    /\ executed' = executed \cup Matching(call)
    /\ verdict' = IF \E h \in Matching(call) : h.reject THEN "rejected" ELSE Check(call)
    /\ pending' = IF verdict' = "ask" THEN call ELSE NoCall
    /\ UNCHANGED <<ruleVars, mode, autoAllow, trusted>>

\* Mutant of Answer: "don't ask again" is only written to the rule file
Answer_RuleOnly(response) ==
    /\ pending # NoCall /\ pending' = NoCall
    /\ verdict' = response
    /\ trusted' = IF response = "always" THEN trusted \cup {pending} ELSE trusted
    /\ IF response = "always"
       THEN /\ Len(localFile) < MaxRules
            /\ localFile' = LocalWith([tool |-> pending.tool, stem |-> pending.stem,
                                       verbatim |-> pending.verbatim, effect |-> "allow"])
            /\ UNCHANGED allowed
       ELSE UNCHANGED <<localFile, allowed>>
    /\ UNCHANGED <<ruleFile, mode, autoAllow, executed>>

\* The permission dialog is answered: yes, no, or yes and don't ask again.
Answer(response) ==
    /\ pending # NoCall /\ pending' = NoCall
    /\ verdict' = response
    /\ trusted' = IF response = "always" THEN trusted \cup {pending} ELSE trusted
    /\ IF response = "always"
       THEN /\ Len(localFile) < MaxRules
            /\ localFile' = LocalWith([tool |-> pending.tool, stem |-> pending.stem,
                                       verbatim |-> pending.verbatim, effect |-> "allow"])
            /\ allowed' = allowed \cup {<<pending.tool, pending.text>>}
       ELSE UNCHANGED <<localFile, allowed>>
    /\ UNCHANGED <<ruleFile, mode, autoAllow, executed>>

\* shift+tab, or /permission mode: also while a dialog is open
SetMode(m) ==
    /\ mode' = m /\ UNCHANGED <<ruleVars, autoAllow, executed, pending, verdict, trusted>>

\* /permission add and /permission reset
AddRule(call, effect) ==
    /\ pending = NoCall /\ call.verbatim /\ Len(localFile) < MaxRules
    /\ localFile' = LocalWith([tool |-> call.tool, stem |-> call.stem, verbatim |-> TRUE, effect |-> effect])
    /\ UNCHANGED <<ruleFile, allowed, mode, autoAllow, executed, pending, verdict, trusted>>
ResetRules ==
    /\ pending = NoCall /\ localFile' = <<>>
    /\ UNCHANGED <<ruleFile, allowed, mode, autoAllow, executed, pending, verdict, trusted>>

\* /sandbox
SetSandbox(auto) ==
    /\ pending = NoCall /\ autoAllow' = auto
    /\ UNCHANGED <<ruleVars, mode, executed, pending, verdict, trusted>>

\* A new process: the files stay.
NewProcess ==
    /\ allowed' = {} /\ executed' = {} /\ pending' = NoCall
    /\ mode' = "default" /\ autoAllow' \in BOOLEAN
    /\ verdict' = "none" /\ trusted' = {}
    /\ UNCHANGED <<ruleFile, localFile>>

PermissionNext ==
    \/ \E c \in Calls : CallTool(c) \/ \E e \in {"allow", "deny"} : AddRule(c, e)
    \/ \E r \in {"yes", "always", "no"} : Answer(r)
    \/ \E m \in Modes : SetMode(m)
    \/ \E b \in BOOLEAN : SetSandbox(b)
    \/ ResetRules \/ NewProcess
PermissionSpec == PermissionInit /\ [][PermissionNext]_permissionVars

-----------------------------------------------------------------------------
\* "Yes, and don't ask again": whatever the rule files say, whichever mode is
\* set and even if no rule can be made of the call, the same call is not asked
\* about again while the process lives, except a path outside the sandbox, whose
\* layer comes first, and a command that a rule asks about in the OS sandbox
\* (the two memories of agent.py:989-994 and the order of the layers of check).
AlwaysIsRemembered ==
    [][\A c \in trusted :
          pending # c /\ pending' = c =>
             OutOfBounds(c) \/ (autoAllow /\ c.category = "command")]_permissionVars
=============================================================================
