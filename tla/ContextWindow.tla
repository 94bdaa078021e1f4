---------------------------- MODULE ContextWindow ----------------------------
(***************************************************************************)
(* The two layers that keep a conversation inside the model's window       *)
(* (src/mewcode/context/manager.py, with its callers in agent.py): large   *)
(* tool results are spilled to files and replaced by previews, and near    *)
(* the limit the conversation is summarised.                               *)
(*                                                                         *)
(* A tool result is a number; Size gives its length in units of a preview. *)
(* The estimate of the tokens in use is a choice between below, between    *)
(* and above the two thresholds.  Only messages with tool results matter   *)
(* here: a turn is the sequence of the results of one response.            *)
(***************************************************************************)
EXTENDS Naturals, Sequences, FiniteSets, SequencesExt

CONSTANTS
    Results,            \* tool results, a set of numbers
    Size,               \* their lengths, Results -> Nat
    Readbacks,          \* results of reading a spilled file back
    SingleLimit,        \* SINGLE_RESULT_CHAR_LIMIT
    AggregateLimit,     \* AGGREGATE_CHAR_LIMIT
    MaxFailures,        \* CompactCircuitBreaker.max_failures
    MaxTurnSize,        \* bound: calls per response
    MaxCompactions      \* bound: summaries asked for

ASSUME ContextAssumption ==
    /\ Results \subseteq Nat /\ Size \in [Results -> Nat \ {0}] /\ Readbacks \subseteq Results
    /\ SingleLimit \in Nat /\ AggregateLimit \in Nat /\ MaxFailures \in Nat \ {0}

PreviewSize == 1

VARIABLES
    turns,          \* results in the conversation, turn by turn
    shown,          \* how each is rendered there: "none", "full" or "preview"
    seen,           \* ContentReplacementState.seen_ids
    replacements,   \* keys of ContentReplacementState.replacements
    spilled,        \* results with a file in the session directory
    failures,       \* CompactCircuitBreaker.consecutive_failures
    ctxPc,          \* "turn", "budget", "compact", "send"
    sentAs,         \* ghost: how a result was first sent to the model
    logged,         \* how the session log holds a result
    cleaned,        \* ghost: previews whose file a compaction removed
    compactions

contextVars == <<turns, shown, seen, replacements, spilled, failures, ctxPc, sentAs,
                 logged, cleaned, compactions>>
decisionVars == <<seen, replacements>>

ContextInit ==
    /\ turns = <<>> /\ shown = [r \in Results |-> "none"]
    /\ seen = {} /\ replacements = {} /\ spilled = {}
    /\ failures = 0 /\ ctxPc = "turn"
    /\ sentAs = [r \in Results |-> "none"] /\ logged = sentAs /\ cleaned = {} /\ compactions = 0

InConversation == UNION {Range(turns[i]) : i \in DOMAIN turns}
Used == {r \in Results : shown[r] # "none"}

SumOf(lengths) == FoldSeq(LAMBDA n, sum : n + sum, 0, lengths)
Length(how, r) == IF how[r] = "preview" THEN PreviewSize ELSE Size[r]
Total(how, turn) == SumOf([k \in DOMAIN turn |-> Length(how, turn[k])])

-----------------------------------------------------------------------------
(* Layer 1. *)

\* One response's results.  _maybe_persist_or_truncate spills a result that is
\* over the single limit before it enters the conversation.
TurnEnds ==
    /\ ctxPc = "turn"
    /\ \E turn \in {t \in SeqOf(Results \ Used, MaxTurnSize) : t # <<>> /\ IsInjective(t)} :
         LET big == {r \in Range(turn) : Size[r] > SingleLimit}
         IN /\ turns' = Append(turns, turn)
            /\ shown' = [r \in Results |-> IF r \in big THEN "preview"
                                           ELSE IF r \in Range(turn) THEN "full" ELSE shown[r]]
            /\ spilled' = spilled \cup big
            /\ logged' = [r \in Results |-> IF r \in Range(turn) THEN shown'[r] ELSE logged[r]]
    /\ ctxPc' = "budget"
    /\ UNCHANGED <<decisionVars, failures, sentAs, cleaned, compactions>>

\* persist_tool_result and make_persisted_preview of each of some results.
AsPreviews(how, some) == [r \in Results |-> IF r \in some THEN "preview" ELSE how[r]]

\* sorted(remaining, key=len, reverse=True), which is stable.
Ahead(turn, q, r) ==
    \/ Size[q] > Size[r]
    \/ /\ Size[q] = Size[r]
       /\ \E i, k \in DOMAIN turn : i < k /\ turn[i] = q /\ turn[k] = r

\* The results that apply_tool_result_budget spills of the fresh ones of a message:
\* those over the single limit, then the largest until the message fits.  A
\* spilled file that is read back is never spilled again.
Spills(how, turn, fresh) ==
    LET single == {r \in fresh : Size[r] > SingleLimit} \ Readbacks
        rest == {r \in fresh : Size[r] <= SingleLimit} \ Readbacks
        FitsBefore(r) ==
            LET larger == {q \in rest : Ahead(turn, q, r)}
            IN Total(AsPreviews(how, single \cup larger), turn) <= AggregateLimit
    IN single \cup {r \in rest : \A q \in rest : q = r \/ Ahead(turn, q, r) => ~FitsBefore(q)}

\* apply_tool_result_budget.  A decided result is rendered as decided, one that
\* is a preview already counts as decided, all others are decided now.
ApplyBudget ==
    LET recalled == AsPreviews(shown, InConversation \cap replacements)
        Fresh(turn) == {r \in Range(turn) \ (seen \cup replacements) : shown[r] # "preview"}
        spills == UNION {Spills(recalled, turns[i], Fresh(turns[i])) : i \in DOMAIN turns}
    IN /\ shown' = AsPreviews(recalled, spills)
       /\ seen' = seen \cup (InConversation \ replacements)
       /\ replacements' = replacements \cup {r \in InConversation \ seen : shown'[r] = "preview"}
       /\ spilled' = spilled \cup spills

Budget ==
    /\ ctxPc = "budget" /\ ctxPc' = "compact"
    /\ ApplyBudget
    /\ cleaned' = cleaned \ (spilled' \ spilled)
    /\ UNCHANGED <<turns, failures, sentAs, logged, compactions>>

-----------------------------------------------------------------------------
(* Layer 2. *)

\* What a compaction leaves: some tail of the turns, rendered as it was.  The
\* summary takes the place of the rest; the session directory is emptied.
Summarise ==
    /\ \E keep \in 2 .. Len(turns) + 1 :
         LET tail == SubSeq(turns, keep, Len(turns))
             kept == UNION {Range(tail[i]) : i \in DOMAIN tail}
         IN /\ turns' = tail
            /\ logged' = [r \in Results |-> IF r \in kept THEN shown[r] ELSE logged[r]]
            /\ cleaned' = {r \in kept : shown[r] = "preview"}
    /\ spilled' = {}
    /\ failures' = 0
    /\ UNCHANGED <<shown, decisionVars>>

\* The summary failed, or the prompt stayed too long three times.
SummaryFails ==
    /\ failures' = failures + 1
    /\ UNCHANGED <<turns, shown, decisionVars, spilled, logged, cleaned>>

\* auto_compact at the head of an iteration: nothing below the soft threshold;
\* between the thresholds the breaker may be open; above the hard one it is
\* bypassed.  After a compaction the budget is applied again.
AutoCompactStep ==
    /\ ctxPc = "compact"
    /\ \E level \in {"below", "between", "above"} :
         \/ /\ level = "below" \/ (level = "between" /\ failures >= MaxFailures)
            /\ ctxPc' = "send" /\ UNCHANGED <<turns, shown, decisionVars, spilled, failures,
                                              logged, cleaned, compactions>>
         \/ /\ level = "above" \/ (level = "between" /\ failures < MaxFailures)
            /\ compactions < MaxCompactions /\ compactions' = compactions + 1
            /\ \/ Summarise /\ ctxPc' = "rebudget"
               \/ SummaryFails /\ ctxPc' = "send"
    /\ UNCHANGED sentAs

\* _run_loop applies the budget to the compacted conversation.
Rebudget ==
    /\ ctxPc = "rebudget" /\ ctxPc' = "send"
    /\ ApplyBudget
    /\ UNCHANGED <<turns, failures, sentAs, logged, cleaned, compactions>>

SendRequest ==
    /\ ctxPc = "send" /\ ctxPc' = "turn"
    /\ sentAs' = [r \in Results |-> IF r \in InConversation THEN shown[r] ELSE sentAs[r]]
    /\ UNCHANGED <<turns, shown, decisionVars, spilled, failures, logged, cleaned, compactions>>

\* Mutant of Reload: the decisions are kept but the renderings are not.
Reload_KeepsDecisions ==
    /\ ctxPc = "turn"
    /\ seen' = InConversation /\ replacements' = {} /\ failures' = 0
    /\ shown' = [r \in Results |-> IF r \in InConversation THEN logged[r] ELSE shown[r]]
    /\ ctxPc' = "budget"
    /\ UNCHANGED <<turns, spilled, sentAs, logged, cleaned, compactions>>

\* The process restarts and resumes: the log has each result as it was when its
\* turn was complete, before the budget saw it, or as the last boundary kept it;
\* what was decided is forgotten.
Reload ==
    /\ ctxPc = "turn"
    /\ seen' = {} /\ replacements' = {} /\ failures' = 0
    /\ shown' = [r \in Results |-> IF r \in InConversation THEN logged[r] ELSE shown[r]]
    /\ ctxPc' = "budget"
    /\ UNCHANGED <<turns, spilled, sentAs, logged, cleaned, compactions>>

ContextNext == TurnEnds \/ Budget \/ AutoCompactStep \/ Rebudget \/ SendRequest \/ Reload
ContextSpec == ContextInit /\ [][ContextNext]_contextVars

-----------------------------------------------------------------------------
(* Properties. *)

\* What is sent fits: every message with tool results is within the aggregate
\* limit, or has nothing left that may be spilled - whichever results were
\* decided earlier, in which order they came, and after a compaction or restart.
MessagesWithinBudget ==
    ctxPc = "send" =>
        \A i \in DOMAIN turns :
            \/ Total(shown, turns[i]) <= AggregateLimit
            \/ \A r \in Range(turns[i]) : shown[r] = "preview" \/ r \in Readbacks

\* A result that was sent once is sent in the same form ever after, so the
\* prompt's prefix stays what the provider has cached ("decisions are frozen"):
\* also when the decisions are taken anew after a restart.
SentFormIsFrozen ==
    [][\A r \in Results : sentAs[r] # "none" => sentAs'[r] = sentAs[r]]_contextVars

\* A preview tells the model where the whole result is saved; the file is there,
\* unless a compaction emptied the directory while the preview was kept.
PreviewHasItsFile ==
    \A r \in InConversation : shown[r] = "preview" => r \in spilled \cup cleaned
=============================================================================
