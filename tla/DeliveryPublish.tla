--------------------------- MODULE DeliveryPublish ---------------------------
(***************************************************************************)
(* publish_verified: one Job's branch and Draft Pull Request at GitHub.    *)
(* Attempts of the Job publish at the same time when one has lost its      *)
(* lease while it was publishing; an Attempt whose deadline interrupts     *)
(* publication calls once more.  Each action is one request to GitHub.     *)
(*                                                                         *)
(* A POST whose answer does not arrive may still be carried out, at once   *)
(* or later.  GETs are repeated by the client and have no effect.  People  *)
(* with access to the repository touch the branch and its pull requests.   *)
(***************************************************************************)
EXTENDS Naturals, Sequences

CONSTANTS
  Attempts,    \* the Attempts of the Job that get as far as publishing
  NoRef,       \* the branch does not exist
  Foreign,     \* a commit or a pull request that is not this Job's
  MaxTouches   \* bound: how often people interfere

Calls == Attempts \X {1, 2}

ASSUME PublishAssumption ==
  /\ NoRef \notin Calls /\ NoRef # Foreign
  /\ Foreign \notin Calls /\ Foreign \notin Attempts
  /\ MaxTouches \in Nat

VARIABLES
  ref,      \* head of mewcode/{job_id}: the call that made its commit
  pulls,    \* pull requests from that branch, as GitHub lists them
  late,     \* POSTs given up by the client and not carried out yet
  touched,  \* how often people have interfered
  pc,       \* pc[c]: the next request of call c, or how it ended
  after,    \* after[c]: what _existing_delivery was called after
  seen,     \* seen[c]: the branch head _existing_delivery has read
  head,     \* head[c]: the commit call c opens a pull request for
  result,   \* result[c]: the Delivery returned
  outage    \* history: call c met an unreachable or refusing GitHub

github == <<ref, pulls, late, touched>>
vars == <<ref, pulls, late, touched, pc, after, seen, head, result, outage>>

NoDelivery == [pull |-> 0, head |-> NoRef]

Init ==
  /\ ref = NoRef /\ pulls = <<>> /\ late = {} /\ touched = 0
  /\ pc = [c \in Calls |-> "idle"]
  /\ after = [c \in Calls |-> "start"]
  /\ seen = [c \in Calls |-> NoRef]
  /\ head = [c \in Calls |-> NoRef]
  /\ result = [c \in Calls |-> NoDelivery]
  /\ outage = [c \in Calls |-> FALSE]

-----------------------------------------------------------------------------
(* GitHub *)

IsOpen(pull) == pull.state \in {"draft", "ready"}

\* one open pull request for a branch, and only for a branch that exists
MayOpen == ref # NoRef /\ \A i \in DOMAIN pulls : ~IsOpen(pulls[i])

\* the body carries the Job's marker and names the report of the call's Attempt
DraftBy(c) == [by |-> c[1], state |-> "draft"]

CarryOut(post, c) ==
  IF post = "create_ref"
  THEN /\ ref' = IF ref = NoRef THEN c ELSE ref
       /\ UNCHANGED pulls
  ELSE /\ pulls' = IF MayOpen THEN Append(pulls, DraftBy(c)) ELSE pulls
       /\ UNCHANGED ref

LateEffect ==
  \E post \in late :
    /\ CarryOut(post[1], post[2])
    /\ late' = late \ {post}
    /\ UNCHANGED <<touched, pc, after, seen, head, result, outage>>

\* somebody commits to the branch, deletes it, opens a pull request of their
\* own from it, or marks one ready, merges or closes it
People ==
  /\ touched < MaxTouches /\ ref # NoRef
  /\ touched' = touched + 1
  /\ \/ ref' = Foreign /\ UNCHANGED pulls
     \/ /\ ref' = NoRef
        /\ pulls' = [i \in DOMAIN pulls |-> [pulls[i] EXCEPT !.state = "closed"]]
     \/ /\ MayOpen
        /\ \E s \in {"draft", "ready"} : pulls' = Append(pulls, [by |-> Foreign, state |-> s])
        /\ UNCHANGED ref
     \/ /\ \E i \in DOMAIN pulls, s \in {"ready", "closed"} :
             IsOpen(pulls[i]) /\ pulls' = [pulls EXCEPT ![i].state = s]
        /\ UNCHANGED ref
  /\ UNCHANGED <<late, pc, after, seen, head, result, outage>>

-----------------------------------------------------------------------------
(* publish_verified *)

Goto(c, step) == pc' = [pc EXCEPT ![c] = step]

Lookup(c, why) == Goto(c, "look_ref") /\ after' = [after EXCEPT ![c] = why]

Deliver(c, pull, commit) ==
  /\ Goto(c, "delivered")
  /\ result' = [result EXCEPT ![c] = [pull |-> pull, head |-> commit]]

Begin(c) ==
  /\ pc[c] = "idle" /\ c[2] = 1
  /\ Lookup(c, "start")
  /\ UNCHANGED <<github, seen, head, result, outage>>

\* GET the ref and its commit, whose parent and trailers tell whose it is
LookRef(c) ==
  /\ pc[c] = "look_ref"
  /\ \/ /\ ref = NoRef
        /\ Goto(c, IF after[c] = "start" THEN "make_commit" ELSE "failed")
        /\ UNCHANGED seen
     \/ ref = Foreign /\ Goto(c, "failed") /\ UNCHANGED seen
     \/ /\ ref \in Calls
        /\ seen' = [seen EXCEPT ![c] = ref]
        /\ Goto(c, "look_pulls")
  /\ UNCHANGED <<github, after, head, result, outage>>

OwnPull(pull) == pull.by # Foreign /\ pull.state = "draft"

\* GET the pull requests of the branch
LookPulls(c) ==
  /\ pc[c] = "look_pulls"
  /\ \/ /\ pulls = <<>>
        /\ IF after[c] = "pull"
           THEN Goto(c, "failed") /\ UNCHANGED head
           ELSE Goto(c, "create_pull") /\ head' = [head EXCEPT ![c] = seen[c]]
        /\ UNCHANGED result
     \/ /\ Len(pulls) = 1 /\ OwnPull(pulls[1])
        /\ IF after[c] = "pull" /\ seen[c] # head[c]
           THEN Goto(c, "failed") /\ UNCHANGED result
           ELSE Deliver(c, 1, seen[c])
        /\ UNCHANGED head
     \/ /\ Len(pulls) > 1 \/ (Len(pulls) = 1 /\ ~OwnPull(pulls[1]))
        /\ Goto(c, "failed")
        /\ UNCHANGED <<head, result>>
  /\ UNCHANGED <<github, after, seen, outage>>

\* POST blobs, tree and commit, which nothing refers to yet
MakeCommit(c) ==
  /\ pc[c] = "make_commit"
  /\ head' = [head EXCEPT ![c] = c]
  /\ Goto(c, "create_ref")
  /\ UNCHANGED <<github, after, seen, result, outage>>

CreateRef_ConflictFails(c) ==
  /\ pc[c] = "create_ref"
  /\ CarryOut("create_ref", c)
  /\ Goto(c, IF ref = NoRef THEN "create_pull" ELSE "failed")
  /\ UNCHANGED <<late, touched, after, seen, head, result, outage>>

\* POST the ref; if it exists by now, look at what is there
CreateRef(c) ==
  /\ pc[c] = "create_ref"
  /\ CarryOut("create_ref", c)
  /\ IF ref = NoRef THEN Goto(c, "create_pull") /\ UNCHANGED after
                    ELSE Lookup(c, "ref")
  /\ UNCHANGED <<late, touched, seen, head, result, outage>>

CreatePull_OwnHead(c) ==
  /\ pc[c] = "create_pull"
  /\ CarryOut("create_pull", c)
  /\ IF MayOpen THEN Deliver(c, Len(pulls) + 1, c) /\ UNCHANGED after
                ELSE Lookup(c, "pull") /\ UNCHANGED result
  /\ UNCHANGED <<late, touched, seen, head, outage>>

\* POST the Draft Pull Request; if GitHub refuses, look at what is there
CreatePull(c) ==
  /\ pc[c] = "create_pull"
  /\ CarryOut("create_pull", c)
  /\ IF MayOpen THEN Deliver(c, Len(pulls) + 1, head[c]) /\ UNCHANGED after
                ELSE Lookup(c, "pull") /\ UNCHANGED result
  /\ UNCHANGED <<late, touched, seen, head, outage>>

Requesting == {"look_ref", "look_pulls", "make_commit", "create_ref", "create_pull"}

\* the call is left; a POST it has sent may still arrive
GiveUp(c) ==
  /\ pc[c] \in Requesting
  /\ late' = IF pc[c] \in {"create_ref", "create_pull"} THEN late \union {<<pc[c], c>>} ELSE late
  /\ UNCHANGED <<ref, pulls, touched, seen, head, result>>

\* GitHub cannot be reached, answers garbage or refuses
Outage(c) ==
  /\ GiveUp(c)
  /\ Goto(c, "failed")
  /\ outage' = [outage EXCEPT ![c] = TRUE]
  /\ UNCHANGED after

\* the Attempt deadline cancels the call, and process() makes it once more
Interrupt(c) ==
  /\ c[2] = 1
  /\ GiveUp(c)
  /\ pc' = [pc EXCEPT ![c] = "interrupted", ![<<c[1], 2>>] = "look_ref"]
  /\ UNCHANGED <<after, outage>>

Step(c) ==
  LookRef(c) \/ LookPulls(c) \/ MakeCommit(c) \/ CreateRef(c) \/ CreatePull(c)

Next ==
  \/ \E c \in Calls : Begin(c) \/ Step(c) \/ Outage(c) \/ Interrupt(c)
  \/ LateEffect
  \/ People

Spec == Init /\ [][Next]_vars

-----------------------------------------------------------------------------
(* Properties *)

\* Every variable has its range, and exactly the calls that deliver have a result;
\* no call ever takes a commit for its own Job's that is not.
TypeOK ==
  /\ ref \in Calls \union {NoRef, Foreign}
  /\ pulls \in Seq([by : Attempts \union {Foreign}, state : {"draft", "ready", "closed"}])
  /\ late \subseteq {"create_ref", "create_pull"} \X Calls
  /\ touched \in 0 .. MaxTouches
  /\ pc \in [Calls -> Requesting \union {"idle", "delivered", "failed", "interrupted"}]
  /\ after \in [Calls -> {"start", "ref", "pull"}]
  /\ seen \in [Calls -> Calls \union {NoRef}]
  /\ head \in [Calls -> Calls \union {NoRef}]
  /\ result \in [Calls -> [pull : Nat, head : Calls \union {NoRef}]]
  /\ outage \in [Calls -> BOOLEAN]
  /\ \A c \in Calls : pc[c] = "delivered" <=> result[c] # NoDelivery

\* docs/coding-agent-platform-mvp.md: publishing again makes no second branch or
\* pull request.  Without people, all calls that deliver deliver the same one,
\* and the commit they report is the branch's.
OneDelivery ==
  touched = 0 =>
    /\ Len(pulls) <= 1
    /\ \A c \in Calls : pc[c] = "delivered" => result[c] = [pull |-> 1, head |-> ref]

\* Races between calls, replays and POSTs that take effect late never make a
\* call fail: only people or an outage it met itself do
\* (test_publish_converges_after_ref_or_pull_race).
ConvergesUnlessDisturbed ==
  \A c \in Calls : pc[c] = "failed" => touched > 0 \/ outage[c]

\* Whatever people do, a call only delivers a pull request of this Job that is an
\* open draft at that moment.
DeliversOwnDraft ==
  [][\A c \in Calls :
       pc[c] # "delivered" /\ pc'[c] = "delivered" =>
         LET pull == pulls'[result'[c].pull]
         IN pull.by \in Attempts /\ pull.state = "draft"]_vars

\* docs/coding-agent-platform-mvp.md: the pull request carries the verification
\* evidence of what it proposes, i.e. its body names the report of the Attempt
\* that made its commit.
EvidenceIsOfTheCommit ==
  touched = 0 => \A i \in DOMAIN pulls : pulls[i].by = ref[1]

=============================================================================
