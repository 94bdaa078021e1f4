---------------------------- MODULE ClientProofs ----------------------------
(***************************************************************************)
(* Proofs about the components of the command line client, each for any    *)
(* number of processes, pages, agents, files or messages:                  *)
(*                                                                         *)
(*   - inbox and board of a team (TeamStorage).  As long as the lock       *)
(*     protocol is kept, what a process is about to write is what the      *)
(*     inbox holds and its own doing (Rewritten); as long as no operations *)
(*     overlap, a copy that is about to be saved has all of the board      *)
(*     (Leads), and any other no task that is not on it (Follows);         *)
(*   - pages (RemoteControl): every locked page has an end of its lock     *)
(*     under way, or a reason (Explained);                                 *)
(*   - Permissions, SubAgents, Worktrees, TerminalSession: what the        *)
(*     memory, the tools, the baselines and the fields of the interface    *)
(*     say at every step, of which the properties look at some;            *)
(*   - checkpoints (WorkspaceFiles): versions in use are below the next;   *)
(*   - the conversation and its logs (SessionLog): calls and results of    *)
(*     the conversation, of the log and of what a boundary keeps, and the  *)
(*     call a crash in a flush left unanswered, which nothing answers any  *)
(*     more (NeverAnswered);                                               *)
(*   - what the model is sent (ContextWindow): a message is as the log has *)
(*     it or as the budget decided, and the decision, taken again from its *)
(*     own outcome, is the same (FinalIsStable).                           *)
(***************************************************************************)
EXTENDS SessionLog, ContextWindow, SubAgents, Permissions, TerminalSession,
        RemoteControl, TeamStorage, WorkspaceFiles, Worktrees,
        FiniteSetTheorems, SequenceTheorems, NumberLemmas, TLAPS

-----------------------------------------------------------------------------
(* The inbox and the board of a team. *)

Mails == [unread : SUBSET Nat, read : SUBSET Nat]

MailTypeOK ==
    /\ mailPc \in [Procs -> {"idle", "lock", "read", "write", "fill", "unlock", "dead"}]
    /\ inbox \in Mails /\ mailCopy \in [Procs -> Mails]
    /\ sending \in [Procs -> Nat] /\ taken \in [1 .. MaxMail -> Nat] /\ written \subseteq Nat

\* Messages are numbered one after the other and belong to one writer.
Numbered ==
    /\ \E n \in 0 .. MaxMail : Sent = 1 .. n
    /\ \A p \in Procs : mailPc[p] = "idle" => sending[p] = 0
    /\ \A p \in Procs : sending[p] # 0 => sending[p] \notin written
    /\ \A p, q \in Procs : sending[p] # 0 /\ sending[p] = sending[q] => p = q
    /\ \A k \in 1 .. MaxMail : taken[k] # 0 => k \in Sent
    /\ inbox.unread \cup inbox.read \subseteq Sent
    /\ \A p \in Procs : mailCopy[p].unread \cup mailCopy[p].read \subseteq Sent

Inside == {"read", "write", "fill", "unlock"}

\* What a process is about to write is what the inbox holds, and its own doing.
Rewritten(p) ==
    IF sending[p] # 0
    THEN [unread |-> inbox.unread \cup {sending[p]}, read |-> inbox.read]
    ELSE [unread |-> {}, read |-> inbox.read \cup inbox.unread]

\* The lock protocol, as long as it is kept: whoever is inside holds the lock, a
\* torn file has a writer, the copies are true, and what was written or sent is
\* where it belongs.
Holder == \A p \in Procs : mailPc[p] \in Inside => lockFile = p
TornByWriter == torn => \E p \in Procs : mailPc[p] = "fill"
TrueCopies == \A p \in Procs : mailPc[p] \in {"write", "fill"} => mailCopy[p] = Rewritten(p)
Filed == \A p \in Procs : mailPc[p] = "unlock" /\ sending[p] # 0 => sending[p] \in inbox.unread \cup inbox.read
NotYetFiled ==
    \A p \in Procs : mailPc[p] \in {"lock", "read", "write", "fill"} /\ sending[p] # 0 =>
        sending[p] \notin inbox.unread \cup inbox.read /\ taken[sending[p]] = 0
Kept == written \subseteq inbox.unread \cup inbox.read
TakenOnce == \A k \in 1 .. MaxMail : taken[k] <= 1
TakenOrUnread ==
    \A k \in inbox.unread :
        \/ taken[k] = 0
        \/ \E p \in Procs : /\ lockFile = p
                            /\ mailPc[p] = "dead" \/ (mailPc[p] \in {"write", "fill"} /\ sending[p] = 0)

Locked ==
    /\ Holder /\ TornByWriter /\ TrueCopies /\ Filed /\ NotYetFiled
    /\ Kept /\ TakenOnce /\ TakenOrUnread

MailIInv == MailTypeOK /\ Numbered /\ (writerMishap \/ Locked)

\* The number of messages sent is the last message's.
LEMMA SentNumber == Numbered => Cardinality(Sent) \in 0 .. MaxMail /\ Sent = 1 .. Cardinality(Sent)
<1> SUFFICES ASSUME Numbered PROVE Cardinality(Sent) \in 0 .. MaxMail /\ Sent = 1 .. Cardinality(Sent)
  OBVIOUS
<1>1. PICK n \in 0 .. MaxMail : Sent = 1 .. n
  BY DEF Numbered
<1>2. Cardinality(1 .. n) = n
  BY StorageAssumption, FS_Interval
<1>3. QED BY <1>1, <1>2

LEMMA MailTypeStep == ASSUME NEW q \in Procs, MailTypeOK, Numbered, MailStep(q) PROVE MailTypeOK'
<1> DEFINE Places == {"idle", "lock", "read", "write", "fill", "unlock", "dead"}
<1>0. /\ mailPc \in [Procs -> Places] /\ inbox \in Mails /\ mailCopy \in [Procs -> Mails]
      /\ sending \in [Procs -> Nat] /\ taken \in [1 .. MaxMail -> Nat] /\ written \subseteq Nat
  BY DEF MailTypeOK
<1> SUFFICES /\ mailPc' \in [Procs -> Places] /\ inbox' \in Mails /\ mailCopy' \in [Procs -> Mails]
             /\ sending' \in [Procs -> Nat] /\ taken' \in [1 .. MaxMail -> Nat] /\ written' \subseteq Nat
  BY DEF MailTypeOK
<1> USE <1>0 DEF Goto
<1>1. CASE StartWrite(q)
  <2>1. Cardinality(Sent) \in Nat
    BY SentNumber
  <2>2. QED BY <1>1, <2>1 DEF StartWrite
<1>2. CASE StartConsume(q)
  BY <1>2 DEF StartConsume
<1>3. CASE CreateLock(q) \/ LockExists(q) \/ GiveUpLock(q)
  BY <1>3 DEF CreateLock, LockExists, GiveUpLock
<1>4. CASE ReadInbox(q)
  BY <1>4 DEF ReadInbox, Mails, NoMail
<1>5. CASE Truncate(q) \/ Die(q)
  BY <1>5 DEF Truncate, Die
<1>6. CASE Fill(q)
  BY <1>6 DEF Fill
<1>7. CASE Unlock(q)
  BY <1>7 DEF Unlock, Mails, NoMail
<1>8. QED BY <1>1, <1>2, <1>3, <1>4, <1>5, <1>6, <1>7 DEF MailStep

LEMMA NumberedStep == ASSUME NEW q \in Procs, MailTypeOK, Numbered, MailStep(q) PROVE Numbered'
<1>0. Cardinality(Sent) \in 0 .. MaxMail /\ Sent = 1 .. Cardinality(Sent)
  BY SentNumber
<1>1. CASE StartWrite(q)
  <2> DEFINE new == Cardinality(Sent) + 1
  <2>1. /\ sending[q] = 0 /\ sending' = [sending EXCEPT ![q] = new] /\ new \in 1 .. MaxMail
        /\ mailPc' = [mailPc EXCEPT ![q] = "lock"] /\ UNCHANGED <<inbox, written, taken, mailCopy>>
    BY <1>0, <1>1, StorageAssumption DEF StartWrite, Numbered, Goto
  <2>2. new \notin Sent
    BY <1>0
  <2> HIDE DEF new
  <2>3. sending'[q] = new /\ \A p \in Procs \ {q} : sending'[p] = sending[p]
    BY <2>1 DEF MailTypeOK
  <2>4. Sent' = Sent \cup {new}
    BY <2>1, <2>3 DEF Sent
  <2>5. Sent' = 1 .. new
    BY <1>0, <2>4 DEF new
  <2>6. \A p \in Procs : mailPc'[p] = "idle" => sending'[p] = 0
    BY <2>1, <2>3 DEF MailTypeOK, Numbered
  <2>7. \A p \in Procs : sending'[p] # 0 => sending'[p] \notin written
    BY <2>2, <2>3 DEF Numbered, Sent
  <2>8. \A p, r \in Procs : sending'[p] # 0 /\ sending'[p] = sending'[r] => p = r
    <3>1. \A p \in Procs : sending[p] # new
      BY <2>1, <2>2 DEF Sent
    <3>2. QED BY <2>3, <3>1 DEF Numbered
  <2>9. QED BY <2>1, <2>4, <2>5, <2>6, <2>7, <2>8 DEF Numbered
<1>2. CASE Unlock(q)
  <2>1. /\ sending' = [sending EXCEPT ![q] = 0] /\ written' = (written \cup {sending[q]}) \ {0}
        /\ mailPc' = [mailPc EXCEPT ![q] = "idle"] /\ UNCHANGED <<inbox, taken>>
    BY <1>2 DEF Unlock, Goto
  <2>2. sending'[q] = 0 /\ \A p \in Procs \ {q} : sending'[p] = sending[p]
    BY <2>1 DEF MailTypeOK
  <2>3. Sent' = Sent
    BY <2>1, <2>2 DEF Sent
  <2>4. \A p \in Procs : mailPc'[p] = "idle" => sending'[p] = 0
    BY <2>1, <2>2 DEF MailTypeOK, Numbered
  <2>5. \A p \in Procs : mailCopy'[p] = mailCopy[p] \/ mailCopy'[p] = NoMail
    BY <1>2 DEF Unlock, MailTypeOK
  <2>6. \A p \in Procs : mailCopy'[p].unread \cup mailCopy'[p].read \subseteq Sent
    BY <2>5 DEF NoMail, Numbered
  <2>7. QED BY <2>1, <2>2, <2>3, <2>4, <2>6 DEF Numbered
<1>3. CASE Fill(q)
  <2>1. /\ inbox' = mailCopy[q] /\ mailPc[q] = "fill"
        /\ mailPc' = [mailPc EXCEPT ![q] = "unlock"] /\ UNCHANGED <<sending, written, taken, mailCopy>>
    BY <1>3 DEF Fill, Goto
  <2>2. Sent' = Sent
    BY <2>1 DEF Sent
  <2>3. \A p \in Procs : mailPc'[p] = "idle" => mailPc[p] = "idle"
    BY <2>1 DEF MailTypeOK
  <2>4. QED BY <2>1, <2>2, <2>3 DEF Numbered
<1>4. CASE ReadInbox(q)
  <2>1. /\ mailPc' = [mailPc EXCEPT ![q] = "write"] /\ UNCHANGED <<sending, written, inbox>>
        /\ taken' = [k \in DOMAIN taken |->
              taken[k] + IF sending[q] = 0 /\ ~torn /\ k \in inbox.unread THEN 1 ELSE 0]
    BY <1>4 DEF ReadInbox, Goto
  <2>2. Sent' = Sent
    BY <2>1 DEF Sent
  <2>3. \A p \in Procs : mailPc'[p] = "idle" => mailPc[p] = "idle"
    BY <2>1 DEF MailTypeOK
  <2>4. \A k \in 1 .. MaxMail : taken'[k] # 0 => k \in Sent
    BY <2>1 DEF Numbered, MailTypeOK
  <2>5. sending[q] # 0 => sending[q] \in Sent
    BY DEF Sent
  <2>6. mailCopy'[q].unread \cup mailCopy'[q].read \subseteq inbox.unread \cup inbox.read \cup Sent
    BY <1>4, <2>5 DEF ReadInbox, NoMail, MailTypeOK
  <2>7. \A p \in Procs \ {q} : mailCopy'[p] = mailCopy[p]
    BY <1>4 DEF ReadInbox, MailTypeOK
  <2>8. \A p \in Procs : mailCopy'[p].unread \cup mailCopy'[p].read \subseteq Sent
    BY <2>6, <2>7 DEF Numbered
  <2>9. QED BY <2>1, <2>2, <2>3, <2>4, <2>8 DEF Numbered
<1>5. CASE CreateLock(q) \/ LockExists(q) \/ GiveUpLock(q) \/ Truncate(q) \/ Die(q)
  <2>1. UNCHANGED <<sending, written, inbox, taken, mailCopy>>
    BY <1>5 DEF CreateLock, LockExists, GiveUpLock, Truncate, Die
  <2>2. Sent' = Sent
    BY <2>1 DEF Sent
  <2>3. \A p \in Procs : mailPc'[p] = "idle" => mailPc[p] = "idle"
    BY <1>5 DEF CreateLock, LockExists, GiveUpLock, Truncate, Die, Goto, MailTypeOK
  <2>4. QED BY <2>1, <2>2, <2>3 DEF Numbered
<1>6. CASE StartConsume(q)
  <2>1. sending' = [sending EXCEPT ![q] = 0] /\ sending[q] = 0 /\ UNCHANGED <<written, inbox, taken, mailCopy>>
    BY <1>6 DEF StartConsume, Numbered
  <2>2. sending' = sending
    BY <2>1 DEF MailTypeOK
  <2>3. Sent' = Sent
    BY <2>1, <2>2 DEF Sent
  <2>4. \A p \in Procs : mailPc'[p] = "idle" => mailPc[p] = "idle"
    BY <1>6 DEF StartConsume, Goto, MailTypeOK
  <2>5. QED BY <2>1, <2>2, <2>3, <2>4 DEF Numbered
<1>7. QED BY <1>1, <1>2, <1>3, <1>4, <1>5, <1>6 DEF MailStep

LEMMA LockedStep ==
    ASSUME NEW q \in Procs, MailTypeOK, Numbered, Locked, MailStep(q), ~writerMishap'
    PROVE  Locked'
<1>0. /\ inbox.unread \subseteq Nat /\ inbox.read \subseteq Nat /\ sending \in [Procs -> Nat]
      /\ taken \in [1 .. MaxMail -> Nat] /\ NoProc \notin Procs
      /\ inbox = [unread |-> inbox.unread, read |-> inbox.read]
      /\ \A k \in inbox.unread \cup inbox.read : k \in 1 .. MaxMail
      /\ \A p \in Procs : sending[p] # 0 => sending[p] \in 1 .. MaxMail
  <2>1. Sent \subseteq 1 .. MaxMail
    BY SentNumber, StorageAssumption
  <2>2. \A p \in Procs : sending[p] # 0 => sending[p] \in Sent
    BY DEF Sent
  <2>3. QED BY <2>1, <2>2, StorageAssumption DEF MailTypeOK, Mails, Numbered
<1> USE <1>0 DEF Inside, Rewritten
<1>1. CASE StartWrite(q)
  <2>1. /\ mailPc[q] = "idle" /\ sending' = [sending EXCEPT ![q] = Cardinality(Sent) + 1]
        /\ UNCHANGED <<lockFile, inbox, torn, mailCopy, written, taken>>
        /\ mailPc'[q] = "lock" /\ \A p \in Procs \ {q} : mailPc'[p] = mailPc[p]
    BY <1>1 DEF StartWrite, Goto, MailTypeOK
  <2>2. /\ Cardinality(Sent) + 1 \in 1 .. MaxMail /\ Cardinality(Sent) + 1 \notin Sent
    BY <1>1, SentNumber, StorageAssumption DEF StartWrite
  <2>3. /\ sending'[q] \notin Sent /\ sending'[q] \in 1 .. MaxMail
        /\ \A p \in Procs \ {q} : sending'[p] = sending[p]
        /\ sending'[q] \notin inbox.unread \cup inbox.read /\ taken[sending'[q]] = 0
    BY <2>1, <2>2 DEF Numbered
  <2>4. Holder'
    BY <2>1, <2>2, <2>3 DEF Holder, Locked
  <2>5. TornByWriter'
    BY <2>1, <2>2, <2>3 DEF TornByWriter, Locked
  <2>6. TrueCopies'
    BY <2>1, <2>2, <2>3 DEF TrueCopies, Locked
  <2>7. Filed'
    BY <2>1, <2>2, <2>3 DEF Filed, Locked
  <2>8. NotYetFiled'
    BY <2>1, <2>2, <2>3 DEF NotYetFiled, Locked
  <2>9. Kept'
    BY <2>1, <2>2, <2>3 DEF Kept, Locked
  <2>10. TakenOnce'
    BY <2>1, <2>2, <2>3 DEF TakenOnce, Locked
  <2>11. TakenOrUnread'
    BY <2>1, <2>2, <2>3 DEF TakenOrUnread, Locked
  <2>12. QED BY <2>4, <2>5, <2>6, <2>7, <2>8, <2>9, <2>10, <2>11 DEF Locked
<1>2. CASE StartConsume(q)
  <2>1. /\ mailPc[q] = "idle" /\ sending' = sending
        /\ UNCHANGED <<lockFile, inbox, torn, mailCopy, written, taken>>
        /\ mailPc'[q] = "lock" /\ \A p \in Procs \ {q} : mailPc'[p] = mailPc[p]
    BY <1>2 DEF StartConsume, Goto, MailTypeOK, Numbered
  <2>2. sending[q] = 0
    BY <2>1 DEF Numbered
  <2>3. Holder'
    BY <2>1, <2>2 DEF Holder, Locked
  <2>4. TornByWriter'
    BY <2>1, <2>2 DEF TornByWriter, Locked
  <2>5. TrueCopies'
    BY <2>1, <2>2 DEF TrueCopies, Locked
  <2>6. Filed'
    BY <2>1, <2>2 DEF Filed, Locked
  <2>7. NotYetFiled'
    BY <2>1, <2>2 DEF NotYetFiled, Locked
  <2>8. Kept'
    BY <2>1, <2>2 DEF Kept, Filed, Locked
  <2>9. TakenOnce'
    BY <2>1, <2>2 DEF TakenOnce, Locked
  <2>10. TakenOrUnread'
    BY <2>1, <2>2 DEF TakenOrUnread, Locked
  <2>11. QED BY <2>3, <2>4, <2>5, <2>6, <2>7, <2>8, <2>9, <2>10 DEF Locked
<1>3. CASE CreateLock(q)
  <2>1. /\ mailPc[q] = "lock" /\ lockFile = NoProc /\ lockFile' = q
        /\ UNCHANGED <<inbox, torn, mailCopy, sending, written, taken>>
        /\ mailPc'[q] = "read" /\ \A p \in Procs \ {q} : mailPc'[p] = mailPc[p]
    BY <1>3 DEF CreateLock, Goto, MailTypeOK
  <2>2. \A p \in Procs : mailPc[p] \notin Inside
    BY <2>1 DEF Locked, Holder
  <2>3. Holder'
    BY <2>1, <2>2 DEF Holder, Locked
  <2>4. TornByWriter'
    BY <2>1, <2>2 DEF TornByWriter, Locked
  <2>5. TrueCopies'
    BY <2>1, <2>2 DEF TrueCopies, Locked
  <2>6. Filed'
    BY <2>1, <2>2 DEF Filed, Locked
  <2>7. NotYetFiled'
    BY <2>1, <2>2 DEF NotYetFiled, Locked
  <2>8. Kept'
    BY <2>1, <2>2 DEF Kept, Filed, Locked
  <2>9. TakenOnce'
    BY <2>1, <2>2 DEF TakenOnce, Locked
  <2>10. TakenOrUnread'
    BY <2>1, <2>2 DEF TakenOrUnread, Locked
  <2>11. QED BY <2>3, <2>4, <2>5, <2>6, <2>7, <2>8, <2>9, <2>10 DEF Locked
<1>4. CASE LockExists(q)
  <2>1. UNCHANGED <<lockFile, mailPc, inbox, torn, mailCopy, sending, written, taken>>
    BY <1>4 DEF LockExists
  <2>2. QED BY <2>1 DEF Locked, Holder, TornByWriter, TrueCopies, Filed, NotYetFiled, Kept, TakenOnce, TakenOrUnread
<1>5. CASE GiveUpLock(q)
  BY <1>5 DEF GiveUpLock
<1>6. CASE ReadInbox(q)
  <2>1. /\ mailPc[q] = "read" /\ UNCHANGED <<lockFile, inbox, torn, sending, written>>
        /\ mailPc'[q] = "write" /\ \A p \in Procs \ {q} : mailPc'[p] = mailPc[p]
        /\ \A p \in Procs \ {q} : mailCopy'[p] = mailCopy[p]
    BY <1>6 DEF ReadInbox, Goto, MailTypeOK
  <2>2. lockFile = q /\ (\A p \in Procs \ {q} : mailPc[p] \notin Inside) /\ ~torn
    BY <2>1 DEF Locked, Holder, TornByWriter
  <2>3. mailCopy'[q] = Rewritten(q)
    BY <1>6, <2>2 DEF ReadInbox, MailTypeOK
  <2>4. \A k \in 1 .. MaxMail : taken'[k] = taken[k] + IF sending[q] = 0 /\ k \in inbox.unread THEN 1 ELSE 0
    BY <1>6, <2>2 DEF ReadInbox
  <2>5. \A k \in inbox.unread : taken[k] = 0
    BY <2>1, <2>2 DEF Locked, TakenOrUnread
  <2>6. \A p \in Procs : mailPc[p] \in {"lock", "read"} /\ sending[p] # 0 =>
          sending[p] \notin inbox.unread /\ sending[p] \in 1 .. MaxMail
    BY DEF Locked, NotYetFiled
  <2>7. Holder'
    BY <2>1, <2>2, <2>3, <2>4, <2>5, <2>6 DEF Holder, Locked
  <2>8. TornByWriter'
    BY <2>1, <2>2, <2>3, <2>4, <2>5, <2>6 DEF TornByWriter, Locked
  <2>9. TrueCopies'
    BY <2>1, <2>2, <2>3, <2>4, <2>5, <2>6 DEF TrueCopies, Locked
  <2>10. Filed'
    BY <2>1, <2>2, <2>3, <2>4, <2>5, <2>6 DEF Filed, Locked
  <2>11. NotYetFiled'
    BY <2>1, <2>2, <2>3, <2>4, <2>5, <2>6 DEF NotYetFiled, Locked
  <2>12. Kept'
    BY <2>1, <2>2, <2>3, <2>4, <2>5, <2>6 DEF Kept, Locked
  <2>13. TakenOnce'
    BY <2>1, <2>2, <2>3, <2>4, <2>5, <2>6 DEF TakenOnce, Locked
  <2>14. TakenOrUnread'
    BY <2>1, <2>2, <2>3, <2>4, <2>5, <2>6 DEF TakenOrUnread, Locked
  <2>15. QED BY <2>7, <2>8, <2>9, <2>10, <2>11, <2>12, <2>13, <2>14 DEF Locked
<1>7. CASE Truncate(q)
  <2>1. /\ mailPc[q] = "write" /\ torn' = TRUE /\ UNCHANGED <<lockFile, inbox, mailCopy, sending, written, taken>>
        /\ mailPc'[q] = "fill" /\ \A p \in Procs \ {q} : mailPc'[p] = mailPc[p]
    BY <1>7 DEF Truncate, Goto, MailTypeOK
  <2>2. Holder'
    BY <2>1 DEF Holder, Locked
  <2>3. TornByWriter'
    BY <2>1 DEF TornByWriter, Locked
  <2>4. TrueCopies'
    BY <2>1 DEF TrueCopies, Locked
  <2>5. Filed'
    BY <2>1 DEF Filed, Locked
  <2>6. NotYetFiled'
    BY <2>1 DEF NotYetFiled, Locked
  <2>7. Kept'
    BY <2>1 DEF Kept, Locked
  <2>8. TakenOnce'
    BY <2>1 DEF TakenOnce, Locked
  <2>9. TakenOrUnread'
    BY <2>1 DEF TakenOrUnread, Locked
  <2>10. QED BY <2>2, <2>3, <2>4, <2>5, <2>6, <2>7, <2>8, <2>9 DEF Locked
<1>8. CASE Fill(q)
  <2>1. /\ mailPc[q] = "fill" /\ torn' = FALSE /\ inbox' = mailCopy[q]
        /\ UNCHANGED <<lockFile, mailCopy, sending, written, taken>>
        /\ mailPc'[q] = "unlock" /\ \A p \in Procs \ {q} : mailPc'[p] = mailPc[p]
    BY <1>8 DEF Fill, Goto, MailTypeOK
  <2>2. lockFile = q /\ \A p \in Procs \ {q} : mailPc[p] \notin Inside
    BY <2>1 DEF Locked, Holder
  <2>3. \/ (sending[q] # 0 /\ inbox'.unread = inbox.unread \cup {sending[q]} /\ inbox'.read = inbox.read)
        \/ (sending[q] = 0 /\ inbox'.unread = {} /\ inbox'.read = inbox.read \cup inbox.unread)
    <3>1. inbox' = Rewritten(q)
      BY <2>1, Zenon DEF Locked, TrueCopies
    <3>2. QED BY <3>1
  <2>4. \A p \in Procs \ {q} : sending[p] # 0 => sending[p] # sending[q]
    BY DEF Numbered
  <2>5. Holder'
    BY <2>1, <2>2, <2>3, <2>4 DEF Holder, Locked
  <2>6. TornByWriter'
    BY <2>1, <2>2, <2>3, <2>4 DEF TornByWriter, Locked
  <2>7. TrueCopies'
    BY <2>1, <2>2, <2>3, <2>4 DEF TrueCopies, Locked
  <2>8. Filed'
    BY <2>1, <2>2, <2>3, <2>4 DEF Filed, Locked
  <2>9. NotYetFiled'
    BY <2>1, <2>2, <2>3, <2>4 DEF NotYetFiled, Locked
  <2>10. Kept'
    BY <2>1, <2>2, <2>3, <2>4 DEF Kept, Locked
  <2>11. TakenOnce'
    BY <2>1, <2>2, <2>3, <2>4 DEF TakenOnce, Locked
  <2>12. TakenOrUnread'
    <3>1. sending[q] # 0 => taken[sending[q]] = 0
      BY <2>1 DEF Locked, NotYetFiled
    <3>2. sending[q] # 0 => \A k \in inbox.unread : taken[k] = 0
      BY <2>1, <2>2 DEF Locked, TakenOrUnread
    <3>3. \A k \in inbox'.unread : taken[k] = 0
      BY <2>3, <3>1, <3>2
    <3>4. QED BY <2>1, <3>3 DEF TakenOrUnread
  <2>13. QED BY <2>5, <2>6, <2>7, <2>8, <2>9, <2>10, <2>11, <2>12 DEF Locked
<1>9. CASE Unlock(q)
  <2>1. /\ mailPc[q] = "unlock" /\ lockFile' = NoProc /\ written' = (written \cup {sending[q]}) \ {0}
        /\ UNCHANGED <<inbox, torn, taken>> /\ sending'[q] = 0
        /\ mailPc'[q] = "idle" /\ \A p \in Procs \ {q} : mailPc'[p] = mailPc[p]
        /\ \A p \in Procs \ {q} : sending'[p] = sending[p] /\ mailCopy'[p] = mailCopy[p]
    BY <1>9 DEF Unlock, Goto, MailTypeOK
  <2>2. lockFile = q /\ \A p \in Procs \ {q} : mailPc[p] \notin Inside
    BY <2>1 DEF Locked, Holder
  <2>3. Holder'
    BY <2>1, <2>2 DEF Holder, Locked
  <2>4. TornByWriter'
    BY <2>1, <2>2 DEF TornByWriter, Locked
  <2>5. TrueCopies'
    BY <2>1, <2>2 DEF TrueCopies, Locked
  <2>6. Filed'
    BY <2>1, <2>2 DEF Filed, Locked
  <2>7. NotYetFiled'
    BY <2>1, <2>2 DEF NotYetFiled, Locked
  <2>8. Kept'
    BY <2>1, <2>2 DEF Kept, Filed, Locked
  <2>9. TakenOnce'
    BY <2>1, <2>2 DEF TakenOnce, Locked
  <2>10. TakenOrUnread'
    BY <2>1, <2>2 DEF TakenOrUnread, Locked
  <2>11. QED BY <2>3, <2>4, <2>5, <2>6, <2>7, <2>8, <2>9, <2>10 DEF Locked
<1>10. CASE Die(q)
  <2>1. /\ mailPc[q] \notin {"fill", "idle"} /\ UNCHANGED <<lockFile, inbox, torn, mailCopy, sending, written, taken>>
        /\ mailPc'[q] = "dead" /\ \A p \in Procs \ {q} : mailPc'[p] = mailPc[p]
    BY <1>10 DEF Die, Goto, MailTypeOK
  <2>2. Holder'
    BY <2>1 DEF Holder, Locked
  <2>3. TornByWriter'
    BY <2>1 DEF TornByWriter, Locked
  <2>4. TrueCopies'
    BY <2>1 DEF TrueCopies, Locked
  <2>5. Filed'
    BY <2>1 DEF Filed, Locked
  <2>6. NotYetFiled'
    BY <2>1 DEF NotYetFiled, Locked
  <2>7. Kept'
    BY <2>1 DEF Kept, Locked
  <2>8. TakenOnce'
    BY <2>1 DEF TakenOnce, Locked
  <2>9. TakenOrUnread'
    BY <2>1 DEF TakenOrUnread, Locked
  <2>10. QED BY <2>2, <2>3, <2>4, <2>5, <2>6, <2>7, <2>8, <2>9 DEF Locked
<1>11. QED
  BY <1>1, <1>2, <1>3, <1>4, <1>5, <1>6, <1>7, <1>8, <1>9, <1>10 DEF MailStep

LEMMA MailInvariance == StorageSpec => []MailIInv
<1>1. StorageInit => MailIInv
  <2> SUFFICES ASSUME StorageInit PROVE MailIInv
    OBVIOUS
  <2>1. MailTypeOK
    BY DEF StorageInit, MailTypeOK, Mails, NoMail
  <2>2. Sent = 1 .. 0
    BY DEF StorageInit, Sent
  <2>3. Numbered
    <3>1. \E n \in 0 .. MaxMail : Sent = 1 .. n
      BY <2>2, StorageAssumption
    <3>2. \A p \in Procs : sending[p] = 0 /\ mailCopy[p].unread \cup mailCopy[p].read = {}
      BY DEF StorageInit, NoMail
    <3>3. \A k \in 1 .. MaxMail : taken[k] = 0
      BY DEF StorageInit
    <3>4. inbox.unread \cup inbox.read = {}
      BY DEF StorageInit, NoMail
    <3>5. QED BY <3>1, <3>2, <3>3, <3>4 DEF Numbered
  <2>4. Locked
    BY DEF StorageInit, Locked, Holder, TornByWriter, TrueCopies, Filed, NotYetFiled, Kept, TakenOnce,
           TakenOrUnread, Inside, NoMail
  <2>5. QED BY <2>1, <2>3, <2>4 DEF MailIInv
<1>2. MailIInv /\ [StorageNext]_storageVars => MailIInv'
  <2> SUFFICES ASSUME MailIInv, [StorageNext]_storageVars PROVE MailIInv'
    OBVIOUS
  <2>1. ASSUME NEW q \in Procs, MailStep(q) PROVE MailIInv'
    <3>1. writerMishap => writerMishap'
      BY <2>1, Zenon DEF MailStep, StartWrite, StartConsume, CreateLock, LockExists, GiveUpLock, ReadInbox,
         Truncate, Fill, Unlock, Die
    <3>2. QED BY <2>1, <3>1, MailTypeStep, NumberedStep, LockedStep DEF MailIInv
  <2>2. CASE UNCHANGED mailVars
    BY <2>2 DEF mailVars, MailIInv, MailTypeOK, Numbered, Sent, Locked, Holder, TornByWriter, TrueCopies,
       Rewritten, Filed, NotYetFiled, Kept, TakenOnce, TakenOrUnread
  <2>3. ASSUME NEW q \in Procs, BoardStep(q) PROVE UNCHANGED mailVars
    BY <2>3, Zenon DEF BoardStep, OpenStore, ReadBoard, CreateTask, UpdateTask, StartSave, TruncateBoard,
       FillBoard, CloseStore
  <2>4. QED BY <2>1, <2>2, <2>3 DEF StorageNext, storageVars
<1>3. QED BY <1>1, <1>2, PTL DEF StorageSpec

\* A message whose write returned stays in the inbox and is handed out at most
\* once, for any number of processes and messages, as long as no process works
\* without the lock or dies with the file truncated (teams/mailbox.py).
THEOREM MailLossNeedsAMishap == StorageSpec => []MailLossNeedsMishap
<1>1. MailIInv => MailLossNeedsMishap
  BY DEF MailIInv, MailTypeOK, Locked, Kept, TakenOnce, MailLossNeedsMishap
<1>2. QED BY <1>1, MailInvariance, PTL

\* The board, as long as no process creates over what it has not read and no two
\* operations overlap: who saves has everything that is on the board; the ids of
\* everyone else's copy are on it and below their next one.
Ids(p) == DOMAIN mem[p]
On(b) == UNION {b[i] : i \in DOMAIN b}

BoardTyped ==
    /\ boardNext \in Nat /\ memNext \in [Procs -> Nat] /\ DOMAIN mem = Procs
    /\ boardOp \in [Procs -> Nat] /\ boardOps \in Nat
    /\ boardPc \in [Procs -> {"closed", "idle", "save", "fill"}]

Follows(p) == Ids(p) \subseteq DOMAIN board /\ \A i \in Ids(p) : i < memNext[p]
Leads(p) ==
    /\ DOMAIN board \subseteq Ids(p) /\ \A i \in Ids(p) : i \in Nat /\ i < memNext[p]
    /\ \A i \in DOMAIN board : board[i] \subseteq mem[p][i]
    /\ boardOp[p] \in On(mem[p])

OneSaves == \A p, q \in Procs : Saving(p) /\ Saving(q) => p = q
TornByOne == boardTorn <=> \E p \in Procs : boardPc[p] = "fill"

BoardKept ==
    /\ OneSaves /\ TornByOne
    /\ boardDone \subseteq On(board)
    /\ \A i \in DOMAIN board : i \in Nat /\ i < boardNext
    /\ \A p \in Procs : IF Saving(p) THEN Leads(p) ELSE Follows(p)

BoardIInv == BoardTyped /\ (boardMishap \/ BoardKept)

\* A copy that has every task of another, each with all its operations, has all
\* its operations.
LEMMA MoreIsOn ==
    ASSUME NEW b, NEW c, DOMAIN b \subseteq DOMAIN c, \A i \in DOMAIN b : b[i] \subseteq c[i]
    PROVE  On(b) \subseteq On(c)
BY DEF On

LEMMA LoadedIsTheBoard ==
    ASSUME NEW m, DOMAIN m \subseteq DOMAIN board
    PROVE  DOMAIN LoadTasks(m) = DOMAIN board /\ \A i \in DOMAIN board : LoadTasks(m)[i] = board[i]
BY DEF LoadTasks

\* Beginning to save, over a copy that has all of the board.
LEMMA BeginKeeps ==
    ASSUME NEW q \in Procs, BoardTyped, BoardKept, \A p \in Procs : ~Saving(p),
           NEW m, NEW next \in Nat, StartSave(q, m, next),
           DOMAIN board \subseteq DOMAIN m, \A i \in DOMAIN m : i \in Nat /\ i < next,
           \A i \in DOMAIN board : board[i] \subseteq m[i],
           boardOps + 1 \in On(m)
    PROVE  BoardKept'
<1>1. /\ UNCHANGED <<board, boardNext, boardTorn, boardDone>>
      /\ boardOp'[q] = boardOps + 1 /\ mem'[q] = m /\ memNext'[q] = next /\ boardPc'[q] = "save"
      /\ \A p \in Procs \ {q} : /\ boardPc'[p] = boardPc[p] /\ mem'[p] = mem[p]
                                /\ memNext'[p] = memNext[p] /\ boardOp'[p] = boardOp[p]
      /\ boardPc[q] = "idle"
  BY DEF StartSave, BoardTyped, BoardGoto
<1>2. Saving(q)' /\ \A p \in Procs \ {q} : ~Saving(p)'
  BY <1>1 DEF Saving
<1>3. OneSaves' /\ TornByOne' /\ boardDone' \subseteq On(board)' /\ \A i \in DOMAIN board' : i \in Nat /\ i < boardNext'
  <2>1. OneSaves'
    BY <1>2 DEF OneSaves
  <2>2. ~boardTorn
    BY DEF BoardKept, TornByOne, Saving
  <2>3. TornByOne'
    <3>1. \A p \in Procs : boardPc'[p] # "fill"
      BY <1>1 DEF Saving
    <3>2. QED BY <1>1, <2>2, <3>1 DEF TornByOne
  <2>4. On(board)' = On(board)
    BY <1>1 DEF On
  <2>5. QED BY <1>1, <2>1, <2>3, <2>4 DEF BoardKept
<1>4. Leads(q)'
  <2>1. On(mem[q])' = On(m)
    BY <1>1 DEF On
  <2>2. QED BY ONLY <2>1, <1>1, DOMAIN board \subseteq DOMAIN m, \A i \in DOMAIN m : i \in Nat /\ i < next,
           \A i \in DOMAIN board : board[i] \subseteq m[i], boardOps + 1 \in On(m) DEF Leads, Ids
<1>5. ASSUME NEW p \in Procs \ {q} PROVE Follows(p)'
  BY <1>1 DEF Follows, Ids, BoardKept
<1>6. \A p \in Procs : IF Saving(p)' THEN Leads(p)' ELSE Follows(p)'
  BY <1>2, <1>4, <1>5
<1>7. QED BY <1>3, <1>6 DEF BoardKept

LEMMA BoardStepTyped == ASSUME NEW q \in Procs, BoardTyped, BoardStep(q) PROVE BoardTyped'
<1> USE DEF BoardTyped, BoardGoto
<1>1. CASE OpenStore(q) \/ ReadBoard(q)
  BY <1>1 DEF OpenStore, ReadBoard
<1>2. CASE CreateTask(q)
  BY <1>2 DEF CreateTask, StartSave
<1>3. CASE UpdateTask(q)
  <2>1. PICK m : StartSave(q, m, boardNext)
    BY <1>3 DEF UpdateTask
  <2>2. QED BY <2>1 DEF StartSave
<1>4. CASE TruncateBoard(q)
  BY <1>4 DEF TruncateBoard
<1>5. CASE FillBoard(q)
  BY <1>5 DEF FillBoard
<1>6. CASE CloseStore(q)
  BY <1>6 DEF CloseStore
<1>7. QED BY <1>1, <1>2, <1>3, <1>4, <1>5, <1>6 DEF BoardStep

\* What the steps that begin no operation do to the others: nothing.
LEMMA BoardStepKept == ASSUME NEW q \in Procs, BoardTyped, BoardKept, BoardStep(q), ~boardMishap' PROVE BoardKept'
<1>1. CASE OpenStore(q) \/ ReadBoard(q)
  <2>1. PICK m : /\ m = NoTasks \/ m = mem[q]
                 /\ mem' = [mem EXCEPT ![q] = LoadTasks(m)] /\ memNext' = [memNext EXCEPT ![q] = boardNext]
                 /\ boardPc[q] \in {"closed", "idle"}
                 /\ boardPc' = [boardPc EXCEPT ![q] = "idle"]
                 /\ ~boardTorn /\ UNCHANGED <<board, boardNext, boardTorn, boardOp, boardDone>>
    <3>1. CASE OpenStore(q)
      BY <3>1 DEF OpenStore, BoardGoto
    <3>2. CASE ReadBoard(q)
      <4>1. boardPc' = [boardPc EXCEPT ![q] = "idle"]
        BY <3>2 DEF ReadBoard, BoardTyped
      <4>2. QED BY <3>2, <4>1 DEF ReadBoard
    <3>3. QED BY <1>1, <3>1, <3>2
  <2>2. /\ mem'[q] = LoadTasks(m) /\ memNext'[q] = boardNext
        /\ \A p \in Procs : Saving(p)' <=> Saving(p)
        /\ ~Saving(q)
        /\ \A p \in Procs \ {q} : mem'[p] = mem[p] /\ memNext'[p] = memNext[p]
    BY <2>1 DEF Saving, BoardTyped
  <2>3. DOMAIN m \subseteq DOMAIN board
    BY <2>1, <2>2 DEF NoTasks, BoardKept, Follows, Ids
  <2>4. DOMAIN mem'[q] = DOMAIN board
    BY <2>2, <2>3, LoadedIsTheBoard
  <2>5. Follows(q)'
    BY <2>1, <2>2, <2>4 DEF Follows, Ids, BoardKept
  <2>6. ASSUME NEW p \in Procs \ {q} PROVE (Leads(p)' <=> Leads(p)) /\ (Follows(p)' <=> Follows(p))
    <3>1. On(mem[p])' = On(mem[p])
      BY <2>2 DEF On
    <3>2. Leads(p)' <=> Leads(p)
      BY <2>1, <2>2, <3>1 DEF Leads, Ids
    <3>3. Follows(p)' <=> Follows(p)
      BY <2>1, <2>2 DEF Follows, Ids
    <3>4. QED BY <3>2, <3>3
  <2>7. \A p \in Procs : IF Saving(p)' THEN Leads(p)' ELSE Follows(p)'
    BY <2>2, <2>5, <2>6 DEF BoardKept
  <2>8. OneSaves' /\ TornByOne'
    BY <2>1, <2>2 DEF BoardKept, OneSaves, TornByOne
  <2>9. On(board)' = On(board)
    BY <2>1 DEF On
  <2>10. QED BY <2>1, <2>7, <2>8, <2>9 DEF BoardKept
<1>2. CASE CreateTask(q)
  <2> DEFINE id == memNext[q]
             m == [i \in DOMAIN mem[q] \cup {id} |-> IF i = id THEN {boardOps + 1} ELSE mem[q][i]]
  <2>1. /\ mem[q] = board /\ \A p \in Procs : ~Saving(p)
    BY <1>2 DEF CreateTask
  <2>2. StartSave(q, m, id + 1)
    BY <1>2 DEF CreateTask
  <2>3. /\ id \in Nat /\ \A i \in DOMAIN board : i \in Nat /\ i < id
    BY <2>1 DEF BoardKept, Follows, Ids, BoardTyped
  <2>4. /\ DOMAIN board \subseteq DOMAIN m /\ \A i \in DOMAIN m : i \in Nat /\ i < id + 1
        /\ \A i \in DOMAIN board : board[i] \subseteq m[i]
    BY <2>1, <2>3
  <2>5. boardOps + 1 \in On(m)
    BY DEF On
  <2> HIDE DEF m, id
  <2>6. id + 1 \in Nat
    BY <2>3
  <2>7. QED BY <2>1, <2>2, <2>4, <2>5, <2>6, BeginKeeps
<1>3. CASE UpdateTask(q)
  <2> DEFINE loaded == LoadTasks(mem[q])
  <2>1. \A p \in Procs : ~Saving(p)
    BY <1>3 DEF UpdateTask
  <2>2. PICK id \in DOMAIN loaded : StartSave(q, [loaded EXCEPT ![id] = @ \cup {boardOps + 1}], boardNext)
    BY <1>3 DEF UpdateTask
  <2> DEFINE m == [loaded EXCEPT ![id] = @ \cup {boardOps + 1}]
  <2>3. DOMAIN loaded = DOMAIN board /\ \A i \in DOMAIN board : loaded[i] = board[i]
    BY <2>1, LoadedIsTheBoard DEF BoardKept, Follows, Ids
  <2>4. loaded = [i \in DOMAIN loaded |-> loaded[i]]
    BY DEF LoadTasks
  <2>5. StartSave(q, m, boardNext)
    BY <2>2
  <2> HIDE DEF loaded
  <2>6. /\ DOMAIN m = DOMAIN board /\ \A i \in DOMAIN board : board[i] \subseteq m[i]
        /\ boardOps + 1 \in m[id]
    BY <2>2, <2>3, <2>4
  <2>7. boardOps + 1 \in On(m)
    <3> HIDE DEF m
    <3>1. QED BY <2>2, <2>3, <2>6 DEF On
  <2>8. \A i \in DOMAIN m : i \in Nat /\ i < boardNext
    BY <2>6 DEF BoardKept
  <2>9. boardNext \in Nat
    BY DEF BoardTyped
  <2> HIDE DEF m
  <2>10. QED BY <2>1, <2>5, <2>6, <2>7, <2>8, <2>9, BeginKeeps
<1>4. CASE TruncateBoard(q)
  <2>1. /\ UNCHANGED <<board, boardNext, mem, memNext, boardOp, boardDone>>
        /\ boardPc'[q] = "fill" /\ boardPc[q] = "save" /\ boardTorn'
        /\ \A p \in Procs \ {q} : boardPc'[p] = boardPc[p]
    BY <1>4 DEF TruncateBoard, BoardTyped, BoardGoto
  <2>2. \A p \in Procs : Saving(p)' <=> Saving(p)
    BY <2>1 DEF Saving
  <2>3. \A p \in Procs : (Leads(p)' <=> Leads(p)) /\ (Follows(p)' <=> Follows(p))
    BY <2>1 DEF Leads, Follows, Ids, On
  <2>4. OneSaves' /\ TornByOne' /\ On(board)' = On(board)
    BY <2>1, <2>2 DEF BoardKept, OneSaves, TornByOne, On
  <2>5. QED BY <2>1, <2>2, <2>3, <2>4 DEF BoardKept
<1>5. CASE FillBoard(q)
  <2>1. /\ board' = mem[q] /\ boardNext' = memNext[q] /\ boardDone' = boardDone \cup {boardOp[q]}
        /\ boardPc'[q] = "idle" /\ boardPc[q] = "fill"
        /\ \A p \in Procs \ {q} : boardPc'[p] = boardPc[p]
        /\ UNCHANGED <<mem, memNext, boardOp>>
        /\ boardTorn' \in (IF boardTorn THEN {FALSE} ELSE BOOLEAN)
    BY <1>5 DEF FillBoard, BoardTyped, BoardGoto
  <2>2. Saving(q) /\ Leads(q) /\ \A p \in Procs \ {q} : ~Saving(p) /\ Follows(p)
    BY <2>1 DEF Saving, BoardKept, OneSaves
  <2>3. \A p \in Procs : ~Saving(p)'
    BY <2>1, <2>2 DEF Saving
  <2>4. On(board) \subseteq On(board') /\ boardOp[q] \in On(board')
    BY <2>1, <2>2, MoreIsOn DEF Leads, Ids
  <2>5. boardDone' \subseteq On(board')
    BY <2>1, <2>4 DEF BoardKept
  <2>6. Follows(q)' /\ \A i \in DOMAIN board' : i \in Nat /\ i < boardNext'
    BY <2>1, <2>2 DEF Follows, Leads, Ids
  <2>7. ASSUME NEW p \in Procs \ {q} PROVE Follows(p)'
    BY <2>1, <2>2 DEF Follows, Leads, Ids
  <2>8. OneSaves'
    BY <2>3 DEF OneSaves
  <2>9. ~boardTorn'
    <3>1. boardTorn
      BY <2>1 DEF BoardKept, TornByOne
    <3>2. QED BY <2>1, <3>1
  <2>10. TornByOne'
    BY <2>3, <2>9 DEF TornByOne, Saving
  <2>11. \A p \in Procs : IF Saving(p)' THEN Leads(p)' ELSE Follows(p)'
    BY <2>3, <2>6, <2>7
  <2>12. QED BY <2>5, <2>6, <2>8, <2>10, <2>11 DEF BoardKept, On
<1>6. CASE CloseStore(q)
  <2>1. /\ boardPc[q] \in {"idle", "save"} /\ boardPc'[q] = "closed" /\ mem'[q] = NoTasks
        /\ UNCHANGED <<board, boardNext, boardTorn, boardOp, boardDone>>
        /\ \A p \in Procs \ {q} : boardPc'[p] = boardPc[p] /\ mem'[p] = mem[p] /\ memNext'[p] = memNext[p]
    <3>1. boardPc[q] # "fill"
      BY <1>6 DEF CloseStore
    <3>2. QED BY <1>6, <3>1 DEF CloseStore, BoardTyped, BoardGoto
  <2>2. ~Saving(q)' /\ \A p \in Procs \ {q} : Saving(p)' <=> Saving(p)
    BY <2>1 DEF Saving
  <2>3. Follows(q)'
    BY <2>1 DEF Follows, Ids, NoTasks
  <2>4. ASSUME NEW p \in Procs \ {q} PROVE (Leads(p)' <=> Leads(p)) /\ (Follows(p)' <=> Follows(p))
    BY <2>1 DEF Leads, Follows, Ids, On
  <2>5. OneSaves'
    BY <2>2 DEF BoardKept, OneSaves
  <2>6. TornByOne'
    BY <2>1 DEF BoardKept, TornByOne
  <2>7. QED BY <2>1, <2>2, <2>3, <2>4, <2>5, <2>6 DEF BoardKept, On
<1>7. QED BY <1>1, <1>2, <1>3, <1>4, <1>5, <1>6 DEF BoardStep

LEMMA BoardStepIInv == ASSUME NEW q \in Procs, BoardIInv, BoardStep(q) PROVE BoardIInv'
<1>1. BoardTyped'
  BY BoardStepTyped DEF BoardIInv
<1>2. boardMishap => boardMishap'
  BY Zenon DEF BoardStep, OpenStore, ReadBoard, CreateTask, UpdateTask, StartSave, TruncateBoard, FillBoard, CloseStore
<1>3. QED BY <1>1, <1>2, BoardStepKept DEF BoardIInv

LEMMA BoardInvariance == StorageSpec => []BoardIInv
<1>1. StorageInit => BoardIInv
  BY DEF StorageInit, BoardIInv, BoardTyped, BoardKept, OneSaves, TornByOne, Saving, Follows, Ids, On, NoTasks
<1>2. BoardIInv /\ [StorageNext]_storageVars => BoardIInv'
  <2> SUFFICES ASSUME BoardIInv, [StorageNext]_storageVars PROVE BoardIInv'
    OBVIOUS
  <2>1. CASE UNCHANGED boardVars
    BY <2>1 DEF boardVars, BoardIInv, BoardTyped, BoardKept, OneSaves, TornByOne, Saving, Leads, Follows, Ids, On
  <2>2. ASSUME NEW q \in Procs, MailStep(q) PROVE UNCHANGED boardVars
    BY <2>2, Zenon DEF MailStep, StartWrite, StartConsume, CreateLock, LockExists, GiveUpLock, ReadInbox,
       Truncate, Fill, Unlock, Die
  <2>3. QED BY <2>1, <2>2, BoardStepIInv DEF StorageNext, storageVars
<1>3. QED BY <1>1, <1>2, PTL DEF StorageSpec

\* What an operation on the board has saved stays on it, for any number of
\* processes and operations, unless a task was created over a board its process
\* had not read, two operations overlapped, or a process died in the middle of
\* its write (teams/shared_task.py).
THEOREM TaskLossHasAReason == StorageSpec => []TaskLossIsExplained
<1>1. BoardIInv => TaskLossIsExplained
  BY DEF BoardIInv, BoardKept, TaskLossIsExplained, On
<1>2. QED BY <1>1, BoardInvariance, PTL

-----------------------------------------------------------------------------
(* Remote control: why an input is locked. *)

Ups == [kind : {"say"}, entry : Entries] \cup [kind : {"answer"}, id : Nat]
Downs == [kind : {"free", "ask"}, id : Nat]
Waiting == [by : Pages, entry : Entries]
Reasons == {"none", "missed", "unsent", "late", "bare"}

RemoteTypeOK ==
    /\ open \subseteq Pages /\ locked \subseteq Pages
    /\ asked \in Nat /\ asking \in Nat /\ pendingPerms \subseteq Nat \ {0}
    /\ up \in [Pages -> Seq(Ups)] /\ down \in [Pages -> Seq(Downs)]
    /\ handlers \in Seq(Waiting) /\ why \in [Pages -> Reasons]

\* The server is busy while there is a run.
AskingRun == run \in {"none", "working", "asking", "ending"} /\ (asking # 0 => run = "asking")
BusyRuns == (busy <=> run # "none") /\ AskingRun

Said(p) == Has(up[p], Says)
Freed(p) == Has(down[p], Frees)
Waits(p) == \E i \in 1 .. Len(handlers) : handlers[i].by = p

Explained(r) ==
    why[r] # "none" \/ Said(r) \/ Freed(r) \/ Waits(r) \/ run \in {"working", "asking"} \/ compacting # {}

RemoteIInv == RemoteTypeOK /\ open \subseteq connections /\ BusyRuns /\ LockIsExplained

LEMMA Broadcasts ==
    ASSUME NEW m \in Downs, RemoteTypeOK, open \subseteq connections, Broadcast(m), UNCHANGED <<open, locked>>
    PROVE  /\ down' \in [Pages -> Seq(Downs)] /\ why' \in [Pages -> Reasons] /\ open' \subseteq connections'
           /\ \A p \in Pages : /\ Freed(p) => Freed(p)'
                              /\ why[p] # "none" => why'[p] # "none"
           /\ m = FreeMessage => \A p \in locked : why'[p] # "none" \/ Freed(p)'
<1>1. Hearers = open /\ down \in [Pages -> Seq(Downs)] /\ why \in [Pages -> Reasons]
  BY DEF Hearers, RemoteTypeOK
<1>2. /\ down' = [p \in Pages |-> IF p \in open THEN Append(down[p], m) ELSE down[p]]
      /\ connections' = connections \cap open /\ open' = open
      /\ why' = [p \in Pages |-> IF Frees(m) /\ p \in locked /\ p \notin open THEN "missed" ELSE why[p]]
  BY <1>1 DEF Broadcast
<1>3. /\ down' \in [Pages -> Seq(Downs)] /\ open' \subseteq connections'
  BY <1>1, <1>2
<1>4. why' \in [Pages -> Reasons] /\ \A p \in Pages : why[p] # "none" => why'[p] # "none"
  BY <1>1, <1>2 DEF Reasons
<1>5. ASSUME NEW p \in open
      PROVE  /\ Freed(p) => Freed(p)'
             /\ m = FreeMessage => Freed(p)'
  <2>1. /\ down'[p] = Append(down[p], m) /\ down[p] \in Seq(Downs) /\ Len(down[p]) \in Nat
        /\ Len(down'[p]) = Len(down[p]) + 1 /\ down'[p][Len(down[p]) + 1] = m
        /\ \A i \in 1 .. Len(down[p]) : down'[p][i] = down[p][i]
    BY <1>1, <1>2, <1>5, AppendProperties, LenProperties DEF RemoteTypeOK
  <2>2. QED BY <2>1 DEF Freed, Has, Frees
<1>6. ASSUME NEW p \in Pages \ open
      PROVE  /\ Freed(p) => Freed(p)'
             /\ m = FreeMessage /\ p \in locked => why'[p] # "none"
  BY <1>1, <1>2 DEF Freed, Has, Frees
<1>7. QED BY <1>3, <1>4, <1>5, <1>6 DEF RemoteTypeOK

\* What a page's own step leaves alone.
LEMMA Elsewhere ==
    ASSUME NEW p \in Pages, RemoteIInv, UNCHANGED <<handlers, busy, run, compacting, asked, asking, pendingPerms>>,
           up' \in [Pages -> Seq(Ups)], down' \in [Pages -> Seq(Downs)], why' \in [Pages -> Reasons],
           open' \subseteq Pages, locked' \subseteq locked \cup {p}, open' \subseteq connections',
           \A r \in Pages \ {p} : up'[r] = up[r] /\ down'[r] = down[r] /\ why'[r] = why[r],
           p \in locked' => \/ why'[p] # "none" \/ Said(p)' \/ Freed(p)'
                            \/ (p \in locked /\ (Said(p) => Said(p)') /\ (Freed(p) => Freed(p)')
                               /\ (why[p] # "none" => why'[p] # "none"))
    PROVE  RemoteIInv'
<1>1. RemoteTypeOK' /\ BusyRuns'
  BY DEF RemoteIInv, RemoteTypeOK, BusyRuns, AskingRun
<1>2. ASSUME NEW r \in locked' PROVE Explained(r)'
  <2>1. CASE r # p
    <3>1. r \in locked /\ r \in Pages
      BY <1>2, <2>1 DEF RemoteIInv, RemoteTypeOK
    <3>2. Explained(r) /\ (Said(r) => Said(r)') /\ (Freed(r) => Freed(r)') /\ why'[r] = why[r]
      BY <2>1, <3>1 DEF RemoteIInv, LockIsExplained, Explained, Said, Freed, Waits, Has
    <3>3. QED BY <3>2 DEF Explained, Waits
  <2>2. CASE r = p
    <3>1. p \in locked => Explained(p)
      BY DEF RemoteIInv, LockIsExplained, Explained, Said, Freed, Waits
    <3>2. QED BY <1>2, <2>2, <3>1 DEF Explained, Waits
  <2>3. QED BY <2>1, <2>2
<1>3. LockIsExplained'
  BY <1>2 DEF LockIsExplained, Explained, Said, Freed, Waits
<1>4. QED BY <1>1, <1>3 DEF RemoteIInv

LEMMA PageStep ==
    ASSUME NEW p \in Pages, RemoteIInv,
           \/ Connect(p) \/ Break(p) \/ Load(p) \/ \E entry \in Entries : Send(p, entry)
           \/ \E id \in 1 .. MaxAsks : Respond(p, id)
           \/ Hear(p)
    PROVE  RemoteIInv'
<1>0. /\ open \subseteq Pages /\ locked \subseteq Pages /\ asked \in Nat
      /\ up \in [Pages -> Seq(Ups)] /\ down \in [Pages -> Seq(Downs)] /\ why \in [Pages -> Reasons]
      /\ open \subseteq connections /\ up[p] \in Seq(Ups) /\ down[p] \in Seq(Downs)
      /\ Len(up[p]) \in Nat /\ Len(down[p]) \in Nat
  BY LenProperties DEF RemoteIInv, RemoteTypeOK
<1> USE <1>0 DEF serverVars, pageVars
<1>1. CASE Connect(p)
  <2>1. /\ UNCHANGED <<handlers, busy, run, compacting, asking, pendingPerms, up, down, why, locked, asked>>
        /\ open' = open \cup {p} /\ connections' = connections \cup {p}
    BY <1>1 DEF Connect
  <2>2. (Said(p) => Said(p)') /\ (Freed(p) => Freed(p)')
    BY <2>1 DEF Said, Freed, Has
  <2>3. QED BY <2>1, <2>2, Elsewhere
<1>2. CASE Break(p)
  <2>1. /\ UNCHANGED <<handlers, busy, run, compacting, asking, pendingPerms, locked, asked>> /\ open' = open \ {p}
        /\ connections' \in {connections, connections \ {p}}
        /\ up' = [up EXCEPT ![p] = <<>>] /\ down' = [down EXCEPT ![p] = <<>>]
        /\ why' = IF p \notin locked THEN why
                  ELSE IF Said(p) THEN [why EXCEPT ![p] = "unsent"]
                  ELSE IF Freed(p) THEN [why EXCEPT ![p] = "missed"] ELSE why
    BY <1>2 DEF Break, Said, Freed
  <2>2. up' \in [Pages -> Seq(Ups)] /\ down' \in [Pages -> Seq(Downs)]
    BY <2>1, EmptySeq
  <2>3. why' \in [Pages -> Reasons] /\ \A r \in Pages \ {p} : why'[r] = why[r]
    BY <2>1 DEF Reasons
  <2>4. p \in locked => \/ why'[p] # "none"
                         \/ (~Said(p) /\ ~Freed(p) /\ why'[p] = why[p])
    BY <2>1
  <2>5. QED BY <2>1, <2>2, <2>3, <2>4, Elsewhere
<1>3. CASE Load(p)
  <2>1. /\ UNCHANGED <<handlers, busy, run, compacting, asking, pendingPerms, asked, open, connections, up, down>>
        /\ locked' = locked \ {p} /\ why' = [why EXCEPT ![p] = "none"]
    BY <1>3 DEF Load
  <2>2. why' \in [Pages -> Reasons] /\ \A r \in Pages \ {p} : why'[r] = why[r]
    BY <2>1 DEF Reasons
  <2>3. QED BY <2>1, <2>2, Elsewhere
<1>4. ASSUME NEW entry \in Entries, Send(p, entry) PROVE RemoteIInv'
  <2> DEFINE m == [kind |-> "say", entry |-> entry]
  <2>1. /\ UNCHANGED <<handlers, busy, run, compacting, asking, pendingPerms, asked, open, connections, down>>
        /\ locked' = locked \cup {p}
    BY <1>4 DEF Send
  <2>2. CASE p \in open
    <3>1. up' = [up EXCEPT ![p] = Append(up[p], m)] /\ why' = why /\ m \in Ups /\ Says(m)
      BY <1>4, <2>2 DEF Send, Ups, Says
    <3> HIDE DEF m
    <3>2. up'[p] = Append(up[p], m) /\ up' \in [Pages -> Seq(Ups)]
      BY <3>1
    <3>3. Said(p)'
      BY <3>1, <3>2, AppendProperties DEF Said, Has
    <3>4. QED BY <2>1, <3>1, <3>2, <3>3, Elsewhere
  <2>3. CASE p \notin open
    <3>1. up' = up /\ why' = [why EXCEPT ![p] = "unsent"]
      BY <1>4, <2>3 DEF Send
    <3>2. why' \in [Pages -> Reasons] /\ why'[p] # "none" /\ \A r \in Pages \ {p} : why'[r] = why[r]
      BY <3>1 DEF Reasons
    <3>3. QED BY <2>1, <3>1, <3>2, Elsewhere
  <2>4. QED BY <2>2, <2>3
<1>5. ASSUME NEW id \in 1 .. MaxAsks, Respond(p, id) PROVE RemoteIInv'
  <2> DEFINE m == [kind |-> "answer", id |-> id]
  <2>1. /\ UNCHANGED <<handlers, busy, run, compacting, asking, pendingPerms, asked, open, connections, down, locked, why>>
        /\ up' = IF p \in open THEN [up EXCEPT ![p] = Append(up[p], m)] ELSE up
    BY <1>5 DEF Respond
  <2>2. id \in Nat /\ m \in Ups
    BY RemoteAssumption DEF Ups
  <2> HIDE DEF m
  <2>3. up' \in [Pages -> Seq(Ups)] /\ (up'[p] = up[p] \/ up'[p] = Append(up[p], m))
        /\ \A r \in Pages \ {p} : up'[r] = up[r]
    BY <2>1, <2>2
  <2>4. \A i \in 1 .. Len(up[p]) : i \in 1 .. Len(up'[p]) /\ up'[p][i] = up[p][i]
    <3>1. up[p] \in Seq(Ups) /\ Len(up[p]) \in Nat
      BY DEF RemoteIInv, RemoteTypeOK
    <3>2. CASE up'[p] = up[p]
      BY <3>2
    <3>3. CASE up'[p] = Append(up[p], m)
      <4>1. /\ Len(Append(up[p], m)) = Len(up[p]) + 1
            /\ \A i \in 1 .. Len(up[p]) : Append(up[p], m)[i] = up[p][i]
        BY <2>2, <3>1, AppendProperties
      <4> QED BY <3>1, <3>3, <4>1
    <3> QED BY <2>3, <3>2, <3>3
  <2>5. (Said(p) => Said(p)') /\ (Freed(p) => Freed(p)')
    BY <2>1, <2>4 DEF Said, Freed, Has
  <2>6. QED BY <2>1, <2>3, <2>5, Elsewhere
<1>6. CASE Hear(p)
  <2>1. /\ UNCHANGED <<handlers, busy, run, compacting, asking, pendingPerms, asked, open, connections, up>>
        /\ down[p] # <<>> /\ down' = [down EXCEPT ![p] = Tail(down[p])]
    BY <1>6 DEF Hear
  <2>2. down' \in [Pages -> Seq(Downs)] /\ down'[p] = Tail(down[p])
    BY <2>1, HeadTailProperties
  <2>3. CASE Frees(Head(down[p]))
    <3>1. locked' = locked \ {p} /\ why' = [why EXCEPT ![p] = "none"]
      BY <1>6, <2>3 DEF Hear
    <3>2. why' \in [Pages -> Reasons] /\ \A r \in Pages \ {p} : why'[r] = why[r]
      BY <3>1 DEF Reasons
    <3>3. QED BY <2>1, <2>2, <3>1, <3>2, Elsewhere
  <2>4. CASE ~Frees(Head(down[p]))
    <3>1. UNCHANGED <<locked, why>>
      BY <1>6, <2>4 DEF Hear
    <3>2. Freed(p) => Freed(p)'
      <4>1. SUFFICES ASSUME NEW i \in 1 .. Len(down[p]), Frees(down[p][i])
                     PROVE  \E j \in 1 .. Len(Tail(down[p])) : Frees(Tail(down[p])[j])
        BY <2>2 DEF Freed, Has
      <4>2. Head(down[p]) = down[p][1] /\ Len(Tail(down[p])) = Len(down[p]) - 1
            /\ \A j \in 1 .. Len(Tail(down[p])) : Tail(down[p])[j] = down[p][j + 1]
        BY <2>1, HeadTailProperties
      <4>3. i # 1
        BY <2>4, <4>1, <4>2
      <4>4. i - 1 \in 1 .. Len(Tail(down[p])) /\ Tail(down[p])[i - 1] = down[p][i]
        BY <4>2, <4>3
      <4>5. QED BY <4>1, <4>4
    <3>3. Said(p) => Said(p)'
      BY <2>1 DEF Said, Has
    <3>4. QED BY <2>1, <2>2, <3>1, <3>2, <3>3, Elsewhere
  <2>5. QED BY <2>3, <2>4
<1>7. QED BY <1>1, <1>2, <1>3, <1>4, <1>5, <1>6
\* A step that broadcasts the end of something explains every lock.
LEMMA Ending ==
    ASSUME RemoteIInv, Broadcast(FreeMessage), UNCHANGED <<open, locked, up, asked>>,
           handlers' \in Seq(Waiting), asking' \in Nat, pendingPerms' \subseteq Nat \ {0}, BusyRuns'
    PROVE  RemoteIInv'
<1>1. FreeMessage \in Downs
  BY DEF FreeMessage, Downs
<1>2. /\ down' \in [Pages -> Seq(Downs)] /\ why' \in [Pages -> Reasons] /\ open' \subseteq connections'
      /\ \A p \in locked : why'[p] # "none" \/ Freed(p)'
  BY <1>1, Broadcasts DEF RemoteIInv
<1>3. RemoteTypeOK'
  BY <1>2 DEF RemoteIInv, RemoteTypeOK
<1>4. LockIsExplained'
  BY <1>2 DEF LockIsExplained, Freed
<1>5. QED BY <1>2, <1>3, <1>4 DEF RemoteIInv

\* A step that keeps what explains the locks.
LEMMA Keeping ==
    ASSUME RemoteIInv, UNCHANGED <<open, locked>>, asked' \in Nat, asking' \in Nat,
           pendingPerms' \subseteq Nat \ {0},
           up' \in [Pages -> Seq(Ups)], down' \in [Pages -> Seq(Downs)], why' \in [Pages -> Reasons],
           handlers' \in Seq(Waiting), open' \subseteq connections', BusyRuns',
           \A r \in locked : Explained(r) => Explained(r)'
    PROVE  RemoteIInv'
<1>1. RemoteTypeOK'
  BY DEF RemoteIInv, RemoteTypeOK
<1>2. LockIsExplained'
  BY DEF RemoteIInv, LockIsExplained, Explained, Said, Freed, Waits
<1>3. QED BY <1>1, <1>2 DEF RemoteIInv

LEMMA ReceiveStep == ASSUME NEW p \in Pages, RemoteIInv, Receive(p) PROVE RemoteIInv'
<1> DEFINE m == Head(up[p])
<1>0. /\ up \in [Pages -> Seq(Ups)] /\ down \in [Pages -> Seq(Downs)] /\ why \in [Pages -> Reasons]
      /\ handlers \in Seq(Waiting) /\ open \subseteq connections /\ asked \in Nat /\ locked \subseteq Pages
      /\ up[p] \in Seq(Ups) /\ Len(up[p]) \in Nat /\ Len(handlers) \in Nat
  BY LenProperties DEF RemoteIInv, RemoteTypeOK
<1>1. /\ up[p] # <<>> /\ up' = [up EXCEPT ![p] = Tail(up[p])]
      /\ UNCHANGED <<open, connections, locked, down, why, busy, asked, compacting>>
  BY DEF Receive
<1>2. /\ m \in Ups /\ m = up[p][1] /\ Tail(up[p]) \in Seq(Ups) /\ Len(Tail(up[p])) = Len(up[p]) - 1
      /\ \A j \in 1 .. Len(Tail(up[p])) : Tail(up[p])[j] = up[p][j + 1]
  BY <1>0, <1>1, HeadTailProperties
<1> HIDE DEF m
<1>3. up' \in [Pages -> Seq(Ups)] /\ up'[p] = Tail(up[p]) /\ \A r \in Pages \ {p} : up'[r] = up[r]
  BY <1>0, <1>1, <1>2
<1>4. \A r \in Pages \ {p} : Said(r) => Said(r)'
  BY <1>3 DEF Said, Has
<1>5. \A r \in Pages : Freed(r) => Freed(r)'
  BY <1>1 DEF Freed, Has
<1>6. CASE Says(m)
  <2> DEFINE w == [by |-> p, entry |-> m.entry]
  <2>1. handlers' = Append(handlers, w) /\ UNCHANGED run
    BY <1>6 DEF Receive, m
  <2>2. w \in Waiting /\ w.by = p
    BY <1>2, <1>6 DEF Waiting, Says, Ups
  <2> HIDE DEF w
  <2>3. /\ handlers' \in Seq(Waiting) /\ Len(handlers') = Len(handlers) + 1
        /\ handlers'[Len(handlers) + 1] = w
        /\ \A i \in 1 .. Len(handlers) : handlers'[i] = handlers[i]
    BY <1>0, <2>1, <2>2, AppendProperties
  <2>4. Waits(p)' /\ \A r \in Pages : Waits(r) => Waits(r)'
    <3>1. Waits(p)'
      <4>1. Len(handlers) + 1 \in 1 .. Len(handlers')
        BY <1>0, <2>3
      <4>2. QED BY <2>2, <2>3, <4>1 DEF Waits
    <3>2. ASSUME NEW r \in Pages, Waits(r) PROVE Waits(r)'
      <4>1. PICK i \in 1 .. Len(handlers) : handlers[i].by = r
        BY <3>2 DEF Waits
      <4>2. i \in 1 .. Len(handlers') /\ handlers'[i].by = r
        BY <1>0, <2>3, <4>1
      <4>3. QED BY <4>2 DEF Waits
    <3>3. QED BY <3>1, <3>2
  <2>5. \A r \in locked : Explained(r) => Explained(r)'
    BY <1>0, <1>1, <1>4, <1>5, <2>1, <2>4 DEF Explained
  <2>6. UNCHANGED <<busy, run, asking, pendingPerms>>
    BY <1>1, <1>6 DEF Receive, m
  <2>7. BusyRuns'
    BY <2>6, Zenon DEF RemoteIInv, BusyRuns, AskingRun
  <2>8. asking' \in Nat /\ pendingPerms' \subseteq Nat \ {0}
    BY <2>6 DEF RemoteIInv, RemoteTypeOK
  <2>9. QED BY <1>0, <1>1, <1>3, <2>3, <2>5, <2>7, <2>8, Keeping
<1>7. CASE ~Says(m)
  <2>1. Resolve(m.id) /\ UNCHANGED handlers
    BY <1>7 DEF Receive, m
  <2>2. \/ (UNCHANGED <<run, asking>> /\ pendingPerms' \subseteq pendingPerms)
        \/ (asking \in pendingPerms /\ run' = "working" /\ asking' = 0 /\ pendingPerms' \subseteq pendingPerms)
    BY <2>1 DEF Resolve
  <2>3. Said(p) => Said(p)'
    <3>1. SUFFICES ASSUME NEW i \in 1 .. Len(up[p]), Says(up[p][i])
                   PROVE  \E j \in 1 .. Len(Tail(up[p])) : Says(Tail(up[p])[j])
      BY <1>3 DEF Said, Has
    <3>2. i # 1
      BY <1>2, <1>7, <3>1
    <3>3. i - 1 \in 1 .. Len(Tail(up[p])) /\ Tail(up[p])[i - 1] = up[p][i]
      BY <1>0, <1>2, <3>2
    <3>4. QED BY <3>1, <3>3
  <2>4. AskingRun' /\ asking' \in Nat /\ pendingPerms' \subseteq Nat \ {0}
        /\ (run # "none" <=> run' # "none")
        /\ (run \in {"working", "asking"} => run' \in {"working", "asking"})
    <3>1. AskingRun /\ asking \in Nat /\ pendingPerms \subseteq Nat \ {0}
      BY DEF RemoteIInv, RemoteTypeOK, BusyRuns
    <3>2. CASE UNCHANGED <<run, asking>> /\ pendingPerms' \subseteq pendingPerms
      BY <3>1, <3>2 DEF AskingRun
    <3>3. CASE asking \in pendingPerms /\ run' = "working" /\ asking' = 0 /\ pendingPerms' \subseteq pendingPerms
      <4>1. asking # 0
        BY <3>1, <3>3
      <4>2. run = "asking"
        BY <3>1, <4>1 DEF AskingRun
      <4>3. QED BY <3>1, <3>3, <4>2 DEF AskingRun
    <3>4. QED BY <2>2, <3>2, <3>3
  <2>7. BusyRuns'
    BY <1>1, <2>4, Zenon DEF RemoteIInv, BusyRuns
  <2>5. \A r \in locked : Explained(r) => Explained(r)'
    BY <1>0, <1>1, <1>4, <1>5, <2>1, <2>3, <2>4 DEF Explained, Waits
  <2>6. QED BY <1>0, <1>1, <1>3, <2>1, <2>4, <2>5, <2>7, Keeping
<1>8. QED BY <1>6, <1>7
\* The head of the tasks goes, and with it perhaps the only reason for a lock.
LEMMA HandlersTail ==
    ASSUME RemoteIInv, handlers # <<>>
    PROVE  /\ Head(handlers) \in Waiting /\ Tail(handlers) \in Seq(Waiting)
           /\ \A r \in Pages : Waits(r) =>
                 \/ Head(handlers).by = r
                 \/ \E i \in 1 .. Len(Tail(handlers)) : Tail(handlers)[i].by = r
<1>1. handlers \in Seq(Waiting) /\ Len(handlers) \in Nat
  BY LenProperties DEF RemoteIInv, RemoteTypeOK
<1>2. /\ Head(handlers) \in Waiting /\ Head(handlers) = handlers[1] /\ Tail(handlers) \in Seq(Waiting)
      /\ Len(Tail(handlers)) = Len(handlers) - 1
      /\ \A j \in 1 .. Len(Tail(handlers)) : Tail(handlers)[j] = handlers[j + 1]
  BY <1>1, HeadTailProperties
<1>3. ASSUME NEW r \in Pages, NEW i \in 1 .. Len(handlers), handlers[i].by = r, Head(handlers).by # r
      PROVE  \E j \in 1 .. Len(Tail(handlers)) : Tail(handlers)[j].by = r
  <2>1. i # 1
    BY <1>2, <1>3
  <2>2. i - 1 \in 1 .. Len(Tail(handlers)) /\ Tail(handlers)[i - 1] = handlers[i]
    BY <1>1, <1>2, <2>1
  <2>3. QED BY <1>3, <2>2
<1>4. QED BY <1>2, <1>3 DEF Waits

LEMMA HandleStep == RemoteIInv /\ Handle => RemoteIInv'
<1> SUFFICES ASSUME RemoteIInv, Handle PROVE RemoteIInv'
  OBVIOUS
<1> DEFINE h == Head(handlers)
<1>0. /\ up \in [Pages -> Seq(Ups)] /\ down \in [Pages -> Seq(Downs)] /\ why \in [Pages -> Reasons]
      /\ handlers \in Seq(Waiting) /\ open \subseteq connections /\ asked \in Nat /\ locked \subseteq Pages
      /\ asking \in Nat /\ pendingPerms \subseteq Nat \ {0} /\ AskingRun
  BY DEF RemoteIInv, RemoteTypeOK, BusyRuns
<1>1. /\ handlers # <<>> /\ UNCHANGED <<open, locked, up, asking, pendingPerms, asked>>
      /\ Ignored(h) \/ Command(h) \/ CompactBegins(h) \/ Review(h) \/ RunBegins(h)
  BY DEF Handle
<1>2. /\ h \in Waiting /\ Tail(handlers) \in Seq(Waiting)
      /\ \A r \in Pages : Waits(r) =>
            \/ h.by = r
            \/ \E i \in 1 .. Len(Tail(handlers)) : Tail(handlers)[i].by = r
  BY <1>1, HandlersTail
<1> HIDE DEF h
<1>3. \A r \in Pages : Said(r) => Said(r)'
  BY <1>1 DEF Said, Has
<1>4. CASE Ignored(h)
  <2>1. handlers' = Tail(handlers) /\ UNCHANGED <<connections, down, busy, run, asking, compacting>>
    BY <1>1, <1>4 DEF Ignored, h, Handle
  <2>2. BusyRuns'
    BY <1>1, <2>1, Zenon DEF RemoteIInv, BusyRuns, AskingRun
  <2>3. h.by \in Pages
    BY <1>2 DEF Waiting
  <2>4. /\ why' \in [Pages -> Reasons] /\ \A r \in Pages : why[r] # "none" => why'[r] # "none"
    BY <1>0, <1>4, <2>3 DEF Ignored, Reasons
  <2>5. h.by \in locked => why'[h.by] # "none" \/ run \in {"working", "asking"}
    <3>1. CASE busy
      <4>1. run # "none"
        BY <3>1, Zenon DEF RemoteIInv, BusyRuns
      <4>2. run \in {"working", "asking", "ending"}
        BY <1>0, <4>1 DEF AskingRun
      <4>3. QED BY <1>0, <1>4, <2>3, <3>1, <4>2 DEF Ignored
    <3>2. CASE ~busy
      BY <1>0, <1>4, <2>3, <3>2 DEF Ignored
    <3>3. QED BY <3>1, <3>2
  <2>6. \A r \in Pages : Waits(r) => h.by = r \/ Waits(r)'
    BY <1>2, <2>1 DEF Waits
  <2>7. \A r \in Pages : Freed(r) => Freed(r)'
    BY <2>1 DEF Freed, Has
  <2>8. \A r \in locked : Explained(r) => Explained(r)'
    BY <1>0, <1>3, <2>1, <2>4, <2>5, <2>6, <2>7 DEF Explained
  <2>9. QED BY <1>0, <1>1, <1>2, <2>1, <2>2, <2>4, <2>8, Keeping
<1>5. CASE Command(h)
  <2>1. handlers' = Tail(handlers) /\ Broadcast(FreeMessage) /\ UNCHANGED <<busy, run, asking>>
    BY <1>1, <1>5 DEF Command, h
  <2>2. BusyRuns'
    BY <2>1, Zenon DEF RemoteIInv, BusyRuns, AskingRun
  <2>3. QED BY <1>0, <1>1, <1>2, <2>1, <2>2, Ending
<1>6. CASE CompactBegins(h)
  <2>1. /\ handlers' = Tail(handlers) /\ compacting' # {}
        /\ UNCHANGED <<connections, down, why, busy, run, asking>>
    BY <1>1, <1>6 DEF CompactBegins, h
  <2>2. BusyRuns'
    BY <2>1, Zenon DEF RemoteIInv, BusyRuns, AskingRun
  <2>3. \A r \in locked : Explained(r)'
    BY <2>1 DEF Explained
  <2>4. QED BY <1>0, <1>1, <1>2, <2>1, <2>2, <2>3, Keeping
<1>7. CASE Review(h)
  <2> DEFINE w == [h EXCEPT !.entry = "text"]
  <2>1. /\ handlers' = Append(Tail(handlers), w)
        /\ UNCHANGED <<connections, down, why, busy, run, asking, compacting>>
    BY <1>1, <1>7 DEF Review, h
  <2>2. w \in Waiting /\ w.by = h.by
    BY <1>2 DEF Waiting, Entries
  <2> HIDE DEF w
  <2>3. /\ handlers' \in Seq(Waiting) /\ Len(Tail(handlers)) \in Nat /\ Len(handlers') = Len(Tail(handlers)) + 1
        /\ handlers'[Len(Tail(handlers)) + 1] = w
        /\ \A i \in 1 .. Len(Tail(handlers)) : handlers'[i] = Tail(handlers)[i]
    BY <1>2, <2>1, <2>2, AppendProperties, LenProperties
  <2>4. ASSUME NEW r \in Pages, Waits(r) PROVE Waits(r)'
    <3>1. CASE h.by = r
      <4>1. Len(Tail(handlers)) + 1 \in 1 .. Len(handlers')
        BY <2>3
      <4>2. QED BY <2>2, <2>3, <3>1, <4>1 DEF Waits
    <3>2. CASE h.by # r
      <4>1. PICK i \in 1 .. Len(Tail(handlers)) : Tail(handlers)[i].by = r
        BY <1>2, <2>4, <3>2
      <4>2. i \in 1 .. Len(handlers') /\ handlers'[i].by = r
        BY <2>3, <4>1
      <4>3. QED BY <4>2 DEF Waits
    <3>3. QED BY <3>1, <3>2
  <2>5. BusyRuns'
    BY <2>1, Zenon DEF RemoteIInv, BusyRuns, AskingRun
  <2>6. \A r \in Pages : Freed(r) => Freed(r)'
    BY <2>1 DEF Freed, Has
  <2>7. \A r \in locked : Explained(r) => Explained(r)'
    BY <1>0, <1>3, <2>1, <2>4, <2>6 DEF Explained
  <2>8. QED BY <1>0, <1>1, <2>1, <2>3, <2>5, <2>7, Keeping
<1>8. CASE RunBegins(h)
  <2>1. /\ handlers' = Tail(handlers) /\ busy' = TRUE /\ run' = "working" /\ ~busy
        /\ UNCHANGED <<connections, down, why, asking, compacting>>
    BY <1>1, <1>8 DEF RunBegins, h
  <2>2. run = "none"
    BY <2>1, Zenon DEF RemoteIInv, BusyRuns
  <2>3. asking = 0
    BY <1>0, <2>2 DEF AskingRun
  <2>4. BusyRuns'
    BY <2>1, <2>3 DEF BusyRuns, AskingRun
  <2>5. \A r \in locked : Explained(r)'
    BY <2>1 DEF Explained
  <2>6. QED BY <1>0, <1>1, <1>2, <2>1, <2>4, <2>5, Keeping
<1>9. QED BY <1>1, <1>4, <1>5, <1>6, <1>7, <1>8

LEMMA RunStep ==
    ASSUME RemoteIInv,
           \/ \E p \in Pages : CompactEnds(p)
           \/ RunAsks \/ RunEnds \/ RunFails
           \/ \E after \in {"working", "ending"} : RunReports(after)
    PROVE  RemoteIInv'
<1>0. /\ up \in [Pages -> Seq(Ups)] /\ down \in [Pages -> Seq(Downs)] /\ why \in [Pages -> Reasons]
      /\ handlers \in Seq(Waiting) /\ open \subseteq connections /\ asked \in Nat /\ locked \subseteq Pages
      /\ asking \in Nat /\ pendingPerms \subseteq Nat \ {0} /\ AskingRun
  BY DEF RemoteIInv, RemoteTypeOK, BusyRuns
<1>1. ASSUME NEW p \in Pages, CompactEnds(p) PROVE RemoteIInv'
  <2>1. /\ Broadcast(FreeMessage)
        /\ UNCHANGED <<open, locked, up, handlers, busy, run, asking, pendingPerms, asked>>
    BY <1>1 DEF CompactEnds
  <2>2. BusyRuns'
    BY <2>1, Zenon DEF RemoteIInv, BusyRuns, AskingRun
  <2>3. QED BY <1>0, <2>1, <2>2, Ending
<1>2. CASE RunAsks
  <2>1. /\ run = "working" /\ asked' = asked + 1 /\ run' = "asking" /\ asking' = asked + 1
        /\ pendingPerms' = pendingPerms \cup {asked + 1} /\ Broadcast(AskMessage(asked + 1))
        /\ UNCHANGED <<open, locked, up, handlers, busy, compacting>>
    BY <1>2 DEF RunAsks
  <2>2. AskMessage(asked + 1) \in Downs
    BY <1>0 DEF AskMessage, Downs
  <2>3. down' \in [Pages -> Seq(Downs)] /\ why' \in [Pages -> Reasons] /\ open' \subseteq connections'
    BY <2>1, <2>2, Broadcasts DEF RemoteIInv
  <2>4. \A r \in locked : Explained(r)'
    BY <2>1 DEF Explained
  <2>5. AskingRun' /\ run # "none" /\ run' # "none"
    BY <2>1 DEF AskingRun
  <2>6. BusyRuns'
    BY <2>1, <2>5, Zenon DEF RemoteIInv, BusyRuns
  <2>7. asking' \in Nat /\ pendingPerms' \subseteq Nat \ {0} /\ asked' \in Nat
    BY <1>0, <2>1
  <2>8. QED BY <1>0, <2>1, <2>3, <2>4, <2>6, <2>7, Keeping
<1>3. CASE RunEnds
  <2>1. /\ run = "ending" /\ run' = "none" /\ busy' = FALSE
        /\ UNCHANGED <<open, connections, locked, up, down, why, handlers, asking, pendingPerms, asked, compacting>>
    BY <1>3 DEF RunEnds, pageVars
  <2>2. BusyRuns'
    <3>1. asking = 0
      BY <1>0, <2>1 DEF AskingRun
    <3>2. QED BY <2>1, <3>1 DEF BusyRuns, AskingRun
  <2>3. \A r \in locked : Explained(r) => Explained(r)'
    BY <2>1 DEF Explained, Said, Freed, Waits, Has
  <2>4. QED BY <1>0, <2>1, <2>2, <2>3, Keeping
<1>4. CASE RunFails
  <2>1. /\ run' = "none" /\ busy' = FALSE /\ asking' = 0 /\ Broadcast(FreeMessage)
        /\ UNCHANGED <<open, locked, up, handlers, pendingPerms, asked>>
    BY <1>4 DEF RunFails
  <2>2. BusyRuns'
    BY <2>1 DEF BusyRuns, AskingRun
  <2>3. QED BY <1>0, <2>1, <2>2, Ending
<1>5. ASSUME NEW after \in {"working", "ending"}, RunReports(after) PROVE RemoteIInv'
  <2>1. /\ run = "working" /\ run' = after /\ Broadcast(FreeMessage)
        /\ UNCHANGED <<open, locked, up, handlers, busy, asking, pendingPerms, asked>>
    BY <1>5 DEF RunReports
  <2>2. AskingRun' /\ run # "none" /\ run' # "none"
    BY <1>0, <2>1 DEF AskingRun
  <2>3. BusyRuns'
    BY <2>1, <2>2, Zenon DEF RemoteIInv, BusyRuns
  <2>4. QED BY <1>0, <2>1, <2>3, Ending
<1>6. QED BY <1>1, <1>2, <1>3, <1>4, <1>5

LEMMA RemoteInvariance == RemoteSpec => []RemoteIInv
<1>1. RemoteInit => RemoteIInv
  <2> SUFFICES ASSUME RemoteInit PROVE RemoteIInv
    OBVIOUS
  <2>1. RemoteTypeOK
    BY EmptySeq DEF RemoteInit, RemoteTypeOK, Reasons
  <2>2. BusyRuns /\ LockIsExplained /\ open \subseteq connections
    BY DEF RemoteInit, BusyRuns, AskingRun, LockIsExplained
  <2>3. QED BY <2>1, <2>2 DEF RemoteIInv
<1>2. RemoteIInv /\ [RemoteNext]_remoteVars => RemoteIInv'
  <2> SUFFICES ASSUME RemoteIInv, [RemoteNext]_remoteVars PROVE RemoteIInv'
    OBVIOUS
  <2>1. CASE UNCHANGED remoteVars
    <3>1. UNCHANGED <<open, connections, locked, up, down, why, handlers, busy, run, asking, pendingPerms,
                      asked, compacting>>
      BY <2>1 DEF remoteVars, pageVars, serverVars
    <3>2. BusyRuns'
      BY <3>1, Zenon DEF RemoteIInv, BusyRuns, AskingRun
    <3>3. RemoteTypeOK' /\ LockIsExplained' /\ open' \subseteq connections'
      BY <3>1 DEF RemoteIInv, RemoteTypeOK, LockIsExplained, Has
    <3>4. QED BY <3>2, <3>3 DEF RemoteIInv
  <2>2. QED BY <2>1, PageStep, ReceiveStep, HandleStep, RunStep DEF RemoteNext
<1>3. QED BY <1>1, <1>2, PTL DEF RemoteSpec

\* A page whose input is locked will be unlocked by what is under way, or one
\* of the four things happened for which nobody will, for any number of pages,
\* messages and breaks (remote.py, and the script of web_content.py).
THEOREM LocksAreExplained == RemoteSpec => []LockIsExplained
<1>1. RemoteIInv => LockIsExplained
  BY DEF RemoteIInv
<1>2. QED BY <1>1, RemoteInvariance, PTL

-----------------------------------------------------------------------------
(* Permissions: what "don't ask again" leaves behind. *)

Remembered ==
    /\ NoCall \notin trusted
    /\ \A c \in trusted : <<c.tool, c.text>> \in allowed

\* Behind the memory of the session only two layers still ask.
LEMMA AskedInSpite ==
    ASSUME NEW c, <<c.tool, c.text>> \in allowed, Check(c) = "ask"
    PROVE  OutOfBounds(c) \/ (autoAllow /\ c.category = "command")
<1> SUFFICES ASSUME ~OutOfBounds(c), ~(autoAllow /\ c.category = "command") PROVE FALSE
  OBVIOUS
<1>1. CASE PlanModeAllows(c)
  BY <1>1 DEF Check
<1>2. CASE ~PlanModeAllows(c) /\ CommandAllowed(c)
  BY <1>2 DEF Check
<1>3. CASE ~PlanModeAllows(c) /\ ~CommandAllowed(c) /\ CommandBanned(c)
  BY <1>3 DEF Check
<1>4. CASE ~PlanModeAllows(c) /\ ~CommandAllowed(c) /\ ~CommandBanned(c)
  <2>1. Check(c) = IF Evaluate(c, c.stem) \in {"allow", "deny"} THEN Evaluate(c, c.stem) ELSE "allow"
    BY <1>4 DEF Check
  <2>2. QED BY <2>1
<1>5. QED BY <1>1, <1>2, <1>3, <1>4

LEMMA RememberedStep == Remembered /\ [PermissionNext]_permissionVars => Remembered'
<1> SUFFICES ASSUME Remembered, [PermissionNext]_permissionVars PROVE Remembered'
  OBVIOUS
<1> USE DEF Remembered, ruleVars
<1>1. ASSUME NEW c \in Calls, CallTool(c) PROVE Remembered'
  BY <1>1 DEF CallTool
<1>2. ASSUME NEW c \in Calls, NEW e \in {"allow", "deny"}, AddRule(c, e) PROVE Remembered'
  BY <1>2 DEF AddRule
<1>3. ASSUME NEW r \in {"yes", "always", "no"}, Answer(r) PROVE Remembered'
  BY <1>3 DEF Answer
<1>4. ASSUME NEW m \in Modes, SetMode(m) PROVE Remembered'
  BY <1>4 DEF SetMode
<1>5. ASSUME NEW b \in BOOLEAN, SetSandbox(b) PROVE Remembered'
  BY <1>5 DEF SetSandbox
<1>6. CASE ResetRules \/ NewProcess
  BY <1>6 DEF ResetRules, NewProcess
<1>7. CASE UNCHANGED permissionVars
  BY <1>7 DEF permissionVars
<1>8. QED BY <1>1, <1>2, <1>3, <1>4, <1>5, <1>6, <1>7 DEF PermissionNext

\* Whatever the rule files hold, whichever mode is set and whatever hooks there
\* are, a call that was answered "don't ask again" is not asked about again in
\* the process, but for the two layers that come before the memory of the session
\* (permissions/checker.py, agent.py:989-994).
THEOREM AlwaysIsKept == PermissionSpec => AlwaysIsRemembered
<1> DEFINE NotAskedAgain == \A c \in trusted : pending # c /\ pending' = c =>
                               OutOfBounds(c) \/ (autoAllow /\ c.category = "command")
<1>1. PermissionInit => Remembered
  BY DEF PermissionInit, Remembered
<1>2. Remembered /\ [PermissionNext]_permissionVars => [NotAskedAgain]_permissionVars
  <2> SUFFICES ASSUME Remembered, PermissionNext, NEW c \in trusted, pending # c, pending' = c
               PROVE  OutOfBounds(c) \/ (autoAllow /\ c.category = "command")
    OBVIOUS
  <2>1. c # NoCall /\ <<c.tool, c.text>> \in allowed
    BY DEF Remembered
  <2>2. ASSUME NEW d \in Calls, CallTool(d) PROVE Check(c) = "ask"
    BY <2>1, <2>2 DEF CallTool
  <2>3. CASE \E d \in Calls : CallTool(d)
    BY <2>1, <2>2, <2>3, AskedInSpite
  <2>4. CASE ~\E d \in Calls : CallTool(d)
    BY <2>1, <2>4, Zenon DEF PermissionNext, AddRule, Answer, SetMode, SetSandbox, ResetRules, NewProcess
  <2>5. QED BY <2>3, <2>4
<1>3. QED BY <1>1, <1>2, RememberedStep, PTL DEF PermissionSpec, AlwaysIsRemembered

-----------------------------------------------------------------------------
(* Sub-agents: who can call the Agent tool. *)

Kinds == {"free", "main", "defined", "fork", "worktree", "teammate"}

SubTypeOK ==
    /\ kind \in [Everyone -> Kinds] /\ kind[0] = "main" /\ DOMAIN tools = Everyone
    /\ DOMAIN caller = Everyone /\ DOMAIN status = Everyone /\ marked \subseteq Subs
    /\ \A b \in Subs : kind[b] # "main" /\ (kind[b] = "free" => status[b] = "free")

\* Only forks whose tool is marked have the Agent tool, and who was called by one
\* has it not.
Depth ==
    \A b \in Subs : kind[b] # "free" =>
        /\ caller[b] \in Everyone /\ kind[caller[b]] # "free"
        /\ "Agent" \in tools[b] => kind[b] = "fork" /\ b \in marked
        /\ kind[caller[b]] # "main" => kind[caller[b]] = "fork" /\ "Agent" \notin tools[b]

LEMMA SubNumbers == Everyone = Subs \cup {0} /\ Subs \subseteq Nat /\ 0 \notin Subs
  BY SubAgentAssumption DEF Everyone, Subs

\* What the tools of a sub-agent are taken from leaves the Agent tool out,
\* except for a fork's.
LEMMA NoAgentTool ==
    ASSUME NEW d, NEW background
    PROVE  "Agent" \notin ResolvedTools(d, background) /\ "Agent" \notin TeammateTools(d)
  BY DEF ResolvedTools, TeammateTools, ByDefinition, Forbidden, BackgroundTools

LEMMA LaunchNew ==
    ASSUME NEW a, NEW k, NEW its, NEW withDialogue, NEW where, NEW type,
           Launch(a, k, its, withDialogue, where, type)
    PROVE  \E new \in Subs :
              /\ kind[new] = "free" /\ kind' = [kind EXCEPT ![new] = k] /\ tools' = [tools EXCEPT ![new] = its]
              /\ marked' = IF k = "fork" /\ withDialogue /\ ForkMarks THEN marked \cup {new} ELSE marked
              /\ caller' = [caller EXCEPT ![new] = a] /\ status' = [status EXCEPT ![new] = "running"]
<1> DEFINE Free == {b \in Subs : kind[b] = "free"}
           First(b) == kind[b] = "free" /\ \A c \in Subs : kind[c] = "free" => b <= c
           new == CHOOSE b \in Subs : First(b)
<1>1. Free \subseteq Nat /\ Free # {}
  BY SubNumbers DEF Launch
<1>2. PICK n \in Free : \A m \in Free : n <= m
  BY <1>1, LeastNumber
<1>3. \E b \in Subs : First(b)
  BY <1>2
<1>4. new \in Subs /\ First(new)
  BY <1>3
<1>5. /\ kind' = [kind EXCEPT ![new] = k] /\ tools' = [tools EXCEPT ![new] = its]
      /\ marked' = IF k = "fork" /\ withDialogue /\ ForkMarks THEN marked \cup {new} ELSE marked
      /\ caller' = [caller EXCEPT ![new] = a] /\ status' = [status EXCEPT ![new] = "running"]
  BY DEF Launch
<1> HIDE DEF new
<1>6. QED BY <1>4, <1>5

LEMMA Launched ==
    ASSUME SubTypeOK, Depth, NEW a \in Everyone, Calling(a),
           NEW k \in Kinds \ {"free", "main"}, NEW its, NEW withDialogue, NEW where, NEW type,
           Launch(a, k, its, withDialogue, where, type),
           "Agent" \in its => k = "fork" /\ withDialogue /\ a \notin marked
    PROVE  SubTypeOK' /\ Depth'
<1>1. PICK new \in Subs :
         /\ kind[new] = "free" /\ kind' = [kind EXCEPT ![new] = k] /\ tools' = [tools EXCEPT ![new] = its]
         /\ marked' = IF k = "fork" /\ withDialogue /\ ForkMarks THEN marked \cup {new} ELSE marked
         /\ caller' = [caller EXCEPT ![new] = a] /\ status' = [status EXCEPT ![new] = "running"]
  BY LaunchNew
<1>2. /\ kind \in [Everyone -> Kinds] /\ kind[0] = "main" /\ DOMAIN tools = Everyone
      /\ DOMAIN caller = Everyone /\ DOMAIN status = Everyone /\ marked \subseteq Subs
      /\ new \in Everyone /\ new # 0 /\ 0 \in Everyone /\ Subs \subseteq Everyone
  BY <1>1, SubNumbers DEF SubTypeOK
<1>3. a # 0 => a \in Subs /\ kind[a] = "fork" /\ a \in marked
  BY SubNumbers DEF Calling, Holds, SubTypeOK, Depth
<1>4. /\ kind'[new] = k /\ tools'[new] = its /\ caller'[new] = a /\ status'[new] = "running"
      /\ \A b \in Everyone \ {new} : /\ kind'[b] = kind[b] /\ tools'[b] = tools[b] /\ caller'[b] = caller[b]
                                     /\ status'[b] = status[b]
      /\ marked \subseteq marked' /\ marked' \subseteq marked \cup {new}
  BY <1>1, <1>2
<1>5. SubTypeOK'
  BY <1>1, <1>2, <1>4 DEF SubTypeOK
<1>6. a # new /\ kind'[a] = kind[a] /\ kind[a] # "free"
  BY <1>1, <1>2, <1>3, <1>4
<1>7. ASSUME NEW b \in Subs, b # new, kind[b] # "free"
      PROVE  /\ caller'[b] \in Everyone /\ kind'[caller'[b]] # "free"
             /\ "Agent" \in tools'[b] => kind'[b] = "fork" /\ b \in marked'
             /\ kind'[caller'[b]] # "main" => kind'[caller'[b]] = "fork" /\ "Agent" \notin tools'[b]
  <2>1. caller[b] # new /\ caller[b] \in Everyone
    BY <1>1, <1>7 DEF Depth
  <2>2. kind'[caller[b]] = kind[caller[b]] /\ caller'[b] = caller[b] /\ tools'[b] = tools[b] /\ kind'[b] = kind[b]
    BY <1>2, <1>4, <1>7, <2>1
  <2>3. QED BY <1>4, <1>7, <2>1, <2>2 DEF Depth
<1>8. /\ "Agent" \in its => k = "fork" /\ new \in marked'
      /\ kind[a] # "main" => kind[a] = "fork" /\ "Agent" \notin its
  BY <1>1, <1>2, <1>3 DEF ForkMarks
<1>9. Depth'
  BY <1>2, <1>4, <1>6, <1>7, <1>8 DEF Depth
<1>10. QED BY <1>5, <1>9

LEMMA SubStep == SubTypeOK /\ Depth /\ [SubNext]_subVars => SubTypeOK' /\ Depth'
<1> SUFFICES ASSUME SubTypeOK, Depth, [SubNext]_subVars PROVE SubTypeOK' /\ Depth'
  OBVIOUS
<1>1. ASSUME NEW a \in Everyone, NEW b \in BOOLEAN, NEW d \in Definitions, CallDefined(a, d, b)
      PROVE  SubTypeOK' /\ Depth'
  BY <1>1, NoAgentTool, Launched DEF CallDefined, Kinds
<1>2. ASSUME NEW a \in Everyone, NEW b \in BOOLEAN, NEW type \in {"none", "empty"}, CallFork(a, type, b)
      PROVE  SubTypeOK' /\ Depth'
  <2>1. Calling(a) /\ a \notin marked
    BY <1>2 DEF CallFork
  <2>2. CASE type = "none"
    <3>1. Launch(a, "fork", Base, TRUE, "back", type)
      BY <1>2, <2>2 DEF CallFork
    <3>2. QED BY <2>1, <3>1, Launched DEF Kinds
  <2>3. CASE type # "none"
    <3>1. Launch(a, "fork", ResolvedTools(Plain, b), FALSE, IF b THEN "back" ELSE "fore", type)
      BY <1>2, <2>3 DEF CallFork
    <3>2. QED BY <2>1, <3>1, NoAgentTool, Launched DEF Kinds
  <2>4. QED BY <2>2, <2>3
<1>3. ASSUME NEW a \in Everyone, NEW d \in Definitions \cup {Plain}, CallIsolated(a, d)
      PROVE  SubTypeOK' /\ Depth'
  BY <1>3, NoAgentTool, Launched DEF CallIsolated, Kinds
<1>4. ASSUME NEW a \in Everyone, NEW d \in Definitions \cup {Plain}, NEW type \in {"none", "named"},
             CallTeammate(a, type, d)
      PROVE  SubTypeOK' /\ Depth'
  BY <1>4, NoAgentTool, Launched DEF CallTeammate, Kinds
<1>5. ASSUME NEW b \in Everyone, (\E how \in {"completed", "failed"} : Return(b, how)) \/ Interrupt(b)
      PROVE  SubTypeOK' /\ Depth'
  <2>1. /\ UNCHANGED <<kind, tools, marked, caller>> /\ status[b] = "running" /\ b \in Subs
        /\ \E s : status' = [status EXCEPT ![b] = s]
    BY <1>5 DEF Return, Interrupt
  <2>2. SubTypeOK'
    BY <2>1 DEF SubTypeOK
  <2>3. QED BY <2>1, <2>2 DEF Depth
<1>6. CASE (\E a \in Everyone, t \in TeamNames : CreateTeam(a, t) \/ DeleteTeam(a, t)) \/ UNCHANGED subVars
  <2>1. UNCHANGED agentVars
    BY <1>6 DEF CreateTeam, DeleteTeam, subVars
  <2>2. QED BY <2>1 DEF agentVars, SubTypeOK, Depth
<1>7. QED BY <1>1, <1>2, <1>3, <1>4, <1>5, <1>6 DEF SubNext

LEMMA SubInvariance == SubSpec => [](SubTypeOK /\ Depth)
<1>1. SubInit => SubTypeOK /\ Depth
  BY SubNumbers DEF SubInit, SubTypeOK, Depth, Kinds
<1>2. QED BY <1>1, SubStep, PTL DEF SubSpec

\* Sub-agents of sub-agents come from forks only and never call again, for any
\* number of agents, teams and definitions (tools/agent_tool.py:189).
THEOREM NestingHasABound == SubSpec => []NestingIsBounded
<1>1. SubTypeOK /\ Depth => NestingIsBounded
  BY SubNumbers DEF SubTypeOK, Depth, NestingIsBounded, Holds
<1>2. QED BY <1>1, SubInvariance, PTL
\* The main agent's tools are narrowed while there are teams in coordinator
\* mode, and whole again afterwards (tools/team_create.py, team_delete.py).
THEOREM NarrowedAndRestored == SubSpec => []NarrowedWhileTeams
<1> DEFINE Coordinates == coordinating \in BOOLEAN /\ (coordinating <=> Coordinator /\ teams # {})
           NIInv == Coordinates /\ NarrowedWhileTeams
<1>1. SubInit => NIInv
  BY DEF SubInit, NarrowedWhileTeams
<1>2. NIInv /\ [SubNext]_subVars => NIInv'
  <2> SUFFICES ASSUME NIInv, [SubNext]_subVars PROVE NIInv'
    OBVIOUS
  <2>1. CASE UNCHANGED treeTeamVars
    BY <2>1 DEF treeTeamVars, NarrowedWhileTeams
  <2>2. ASSUME NEW a \in Everyone, NEW t \in TeamNames, CreateTeam(a, t) PROVE NIInv'
    BY <2>2, SubAgentAssumption DEF CreateTeam, NarrowedWhileTeams
  <2>3. ASSUME NEW a \in Everyone, NEW t \in TeamNames, DeleteTeam(a, t) PROVE NIInv'
    BY <2>3, SubAgentAssumption DEF DeleteTeam, NarrowedWhileTeams, AllTools
  <2>4. ASSUME ~\E a \in Everyone, t \in TeamNames : CreateTeam(a, t) \/ DeleteTeam(a, t)
        PROVE  UNCHANGED treeTeamVars
    BY <2>4, ZenonT(40) DEF SubNext, subVars, CallDefined, CallFork, CallIsolated, CallTeammate, Launch, Return, Interrupt,
       treeTeamVars
  <2>5. QED BY <2>1, <2>2, <2>3, <2>4
<1>3. QED BY <1>1, <1>2, PTL DEF SubSpec

-----------------------------------------------------------------------------
(* Worktrees: where work can be, and what counts it. *)

WorktreeTypeOK ==
    /\ checkout \subseteq Names /\ dirty \subseteq checkout
    /\ branch \in [Names -> 0 .. NoBase] /\ pushed \in [Names -> Nat] /\ baseline \in [Names -> 0 .. NoBase]
    /\ made \in [Names -> Nat]

\* Sessions count from the main checkout's HEAD.
Sessions ==
    /\ entered.base = 0 /\ sessionFile.base = 0
    /\ entered # NoSession => entered.name \in Names
    /\ sessionFile # NoSession => sessionFile.name \in Names

\* A directory has a branch, which is ahead of its baseline by what was made
\* since; a sub-agent at work has had all of its branch made.
Baselines ==
    /\ \A n \in checkout : branch[n] # NoBase
    /\ \A n \in Active : branch[n] = baseline[n] + made[n]

RunsCount == agentRuns \subseteq Agents /\ \A a \in agentRuns : baseline[a] \in {0, NoBase}

WorktreeIInv == WorktreeTypeOK /\ Sessions /\ Baselines /\ RunsCount

LEMMA CreatedKeeps ==
    ASSUME NEW n \in Names, WorktreeTypeOK, Baselines, Created(n)
    PROVE  /\ WorktreeTypeOK' /\ Baselines'
           /\ \A m \in Names \ {n} : baseline'[m] = baseline[m]
           /\ n \notin checkout => baseline'[n] = 0
<1> USE WorktreeAssumption DEF WorktreeTypeOK, Baselines, NoBase, Active
<1>1. made' = [made EXCEPT ![n] = 0] /\ made'[n] = 0 /\ \A m \in Names \ {n} : made'[m] = made[m]
  BY DEF Created
<1>2. CASE n \in checkout
  <2>1. baseline' = [baseline EXCEPT ![n] = branch[n]] /\ UNCHANGED <<checkout, branch, pushed, dirty>>
    BY <1>2 DEF Created, gitVars
  <2>2. baseline'[n] = branch[n] /\ \A m \in Names \ {n} : baseline'[m] = baseline[m]
    BY <2>1
  <2>3. QED BY <1>1, <1>2, <2>1, <2>2
<1>3. CASE n \notin checkout
  <2>1. /\ baseline' = [baseline EXCEPT ![n] = 0] /\ checkout' = checkout \cup {n}
        /\ branch' = [branch EXCEPT ![n] = 0] /\ pushed' = [pushed EXCEPT ![n] = 0] /\ dirty' = dirty \ {n}
    BY <1>3 DEF Created
  <2>2. /\ baseline'[n] = 0 /\ branch'[n] = 0
        /\ \A m \in Names \ {n} : baseline'[m] = baseline[m] /\ branch'[m] = branch[m]
    BY <2>1
  <2>3. QED BY <1>1, <1>3, <2>1, <2>2
<1>4. QED BY <1>2, <1>3

LEMMA RemovedKeeps ==
    ASSUME NEW n \in Names, WorktreeTypeOK, Baselines, Removed(n), UNCHANGED made
    PROVE  /\ WorktreeTypeOK' /\ Baselines'
           /\ \A m \in Names : baseline'[m] \in {baseline[m], NoBase}
<1> USE WorktreeAssumption DEF WorktreeTypeOK, Baselines, NoBase, Active
<1>1. baseline' = [baseline EXCEPT ![n] = NoBase] /\ baseline'[n] = NoBase
      /\ \A m \in Names \ {n} : baseline'[m] = baseline[m]
  BY DEF Removed
<1>2. CASE UNCHANGED gitVars
  BY <1>1, <1>2 DEF gitVars
<1>3. CASE ~UNCHANGED gitVars
  <2>1. /\ checkout' = checkout \ {n} /\ branch' = [branch EXCEPT ![n] = NoBase]
        /\ pushed' = [pushed EXCEPT ![n] = 0] /\ dirty' = dirty \ {n}
    BY <1>3 DEF Removed
  <2>2. branch'[n] = NoBase /\ \A m \in Names \ {n} : branch'[m] = branch[m]
    BY <2>1
  <2>3. QED BY <1>1, <2>1, <2>2
<1>4. QED BY <1>2, <1>3

\* A step that leaves the managers' state alone, or the repository's.
LEMMA SameBaselines ==
    ASSUME WorktreeTypeOK, Baselines, UNCHANGED <<gitVars, baseline, made>>
    PROVE  WorktreeTypeOK' /\ Baselines'
  BY DEF WorktreeTypeOK, Baselines, Active, gitVars

\* One that takes directories away.
LEMMA FewerCheckouts ==
    ASSUME WorktreeTypeOK, Baselines, UNCHANGED <<branch, pushed, baseline, made>>,
           NEW gone, checkout' = checkout \ gone, dirty' = dirty \ gone
    PROVE  WorktreeTypeOK' /\ Baselines'
  BY DEF WorktreeTypeOK, Baselines, Active

LEMMA WorktreeStep == WorktreeIInv /\ [WorktreeNext]_worktreeVars => WorktreeIInv'
<1> SUFFICES ASSUME WorktreeIInv, [WorktreeNext]_worktreeVars PROVE WorktreeIInv'
  OBVIOUS
<1>0. WorktreeTypeOK /\ Sessions /\ Baselines /\ RunsCount /\ Chosen \subseteq Names /\ Agents \subseteq Names
      /\ Mates \subseteq Names /\ NoSession.base = 0
  BY DEF WorktreeIInv, Names, NoSession
<1>1. ASSUME NEW n \in Names, CommandCreate(n) PROVE WorktreeIInv'
  <2>1. n \in Chosen /\ n \notin Agents /\ Created(n) /\ entered' = [name |-> n, base |-> 0]
        /\ sessionFile' = entered' /\ UNCHANGED agentRuns
    BY <1>1, WorktreeAssumption DEF CommandCreate, Entered
  <2>2. Sessions'
    BY <1>0, <2>1 DEF Sessions
  <2>3. WorktreeTypeOK' /\ Baselines' /\ \A m \in Names \ {n} : baseline'[m] = baseline[m]
    BY <1>0, <2>1, CreatedKeeps
  <2>4. RunsCount'
    BY <1>0, <2>1, <2>3 DEF RunsCount
  <2>5. QED BY <2>2, <2>3, <2>4 DEF WorktreeIInv
<1>2. ASSUME NEW n \in Names, CommandEnter(n) PROVE WorktreeIInv'
  <2>1. entered' = [name |-> n, base |-> 0] /\ sessionFile' = entered'
        /\ UNCHANGED <<gitVars, baseline, made, agentRuns>>
    BY <1>2 DEF CommandEnter, Entered
  <2>2. Sessions' /\ RunsCount'
    BY <1>0, <2>1 DEF Sessions, RunsCount
  <2>3. QED BY <1>0, <2>1, <2>2, SameBaselines DEF WorktreeIInv
<1>3. ASSUME NEW n \in Names, AgentStarts(n) PROVE WorktreeIInv'
  <2>1. n \in Agents /\ n \notin checkout /\ Created(n) /\ UNCHANGED <<entered, sessionFile>>
        /\ agentRuns' = agentRuns \cup {n}
    BY <1>3 DEF AgentStarts
  <2>2. /\ WorktreeTypeOK' /\ Baselines' /\ baseline'[n] = 0
        /\ \A m \in Names \ {n} : baseline'[m] = baseline[m]
    BY <1>0, <2>1, CreatedKeeps
  <2>3. RunsCount'
    BY <1>0, <2>1, <2>2 DEF RunsCount
  <2>4. QED BY <1>0, <2>1, <2>2, <2>3 DEF WorktreeIInv, Sessions
<1>4. ASSUME NEW n \in Names, AgentEnds(n) \/ Sweep(n) PROVE WorktreeIInv'
  <2>1. (Removed(n) \/ UNCHANGED <<gitVars, baseline>>) /\ UNCHANGED <<entered, sessionFile, made>>
        /\ agentRuns' \subseteq agentRuns
    BY <1>4 DEF AgentEnds, Sweep
  <2>2. WorktreeTypeOK' /\ Baselines' /\ \A m \in Names : baseline'[m] \in {baseline[m], NoBase}
    BY <1>0, <2>1, RemovedKeeps, SameBaselines
  <2>3. RunsCount'
    BY <1>0, <2>1, <2>2 DEF RunsCount
  <2>4. QED BY <1>0, <2>1, <2>2, <2>3 DEF WorktreeIInv, Sessions
<1>5. ASSUME NEW remove \in BOOLEAN, NEW discard \in BOOLEAN,
             CommandExit(remove, discard) \/ ToolExit(remove, discard)
      PROVE  WorktreeIInv'
  <2>1. /\ entered # NoSession /\ \E heard \in SUBSET Answers : Exit(entered.name, remove, discard, heard)
        /\ UNCHANGED <<agentRuns, made>>
    BY <1>5 DEF CommandExit, ToolExit
  <2>2. entered.name \in Names /\ entered' = NoSession /\ sessionFile' = NoSession
        /\ (Removed(entered.name) \/ UNCHANGED <<gitVars, baseline>>)
    BY <1>0, <2>1 DEF Exit, Sessions
  <2>3. Sessions'
    BY <1>0, <2>2 DEF Sessions
  <2>4. WorktreeTypeOK' /\ Baselines' /\ \A m \in Names : baseline'[m] \in {baseline[m], NoBase}
    BY <1>0, <2>1, <2>2, RemovedKeeps, SameBaselines
  <2>5. RunsCount'
    BY <1>0, <2>1, <2>4 DEF RunsCount
  <2>6. QED BY <2>3, <2>4, <2>5 DEF WorktreeIInv
<1>6. ASSUME NEW n \in Names, Work(n) PROVE WorktreeIInv'
  <2> USE WorktreeAssumption DEF WorktreeTypeOK, Baselines, NoBase, Active
  <2>1. n \in checkout /\ UNCHANGED <<checkout, baseline, entered, sessionFile, agentRuns>>
    BY <1>6 DEF Work, managerVars
  <2>2. Sessions' /\ RunsCount'
    BY <1>0, <2>1 DEF Sessions, RunsCount
  <2>3. CASE dirty' = dirty \cup {n} /\ UNCHANGED <<branch, pushed, made>>
    BY <1>0, <2>1, <2>2, <2>3 DEF WorktreeIInv
  <2>4. CASE /\ n \in dirty /\ branch[n] < MaxCommits
             /\ branch' = [branch EXCEPT ![n] = branch[n] + 1] /\ dirty' = dirty \ {n} /\ UNCHANGED pushed
             /\ made' = [made EXCEPT ![n] = made[n] + 1]
    <3>1. /\ branch'[n] = branch[n] + 1 /\ made'[n] = made[n] + 1
          /\ \A m \in Names \ {n} : branch'[m] = branch[m] /\ made'[m] = made[m]
      BY <1>0, <2>4
    <3>2. WorktreeTypeOK'
      BY <1>0, <2>1, <2>4, <3>1
    <3>3. \A o \in checkout' : branch'[o] # NoBase
      BY <1>0, <2>1, <2>4, <3>1
    <3>4. ASSUME NEW o \in Active' PROVE branch'[o] = baseline'[o] + made'[o]
      <4>1. o \in Names /\ o \in Active /\ baseline'[o] = baseline[o]
        BY <2>1
      <4>2. branch[o] = baseline[o] + made[o] /\ baseline[o] \in Nat /\ made[o] \in Nat
        BY <1>0, <4>1
      <4>3. CASE o = n
        BY <3>1, <4>1, <4>2, <4>3
      <4>4. CASE o # n
        BY <3>1, <4>1, <4>2, <4>4
      <4>5. QED BY <4>3, <4>4
    <3>5. Baselines'
      BY <3>3, <3>4
    <3>6. QED BY <2>2, <3>2, <3>5 DEF WorktreeIInv
  <2>5. CASE /\ pushed' = [pushed EXCEPT ![n] = branch[n]] /\ UNCHANGED <<branch, dirty, made>>
    BY <1>0, <2>1, <2>2, <2>5 DEF WorktreeIInv
  <2>6. QED BY <1>6, <2>3, <2>4, <2>5 DEF Work
<1>7. CASE Restart
  <2> DEFINE kept == sessionFile # NoSession /\ sessionFile.name \in checkout
  <2>1. /\ entered' = (IF kept THEN sessionFile ELSE NoSession) /\ sessionFile' = entered' /\ UNCHANGED gitVars
        /\ baseline' = [n \in Names |-> IF kept /\ n = sessionFile.name THEN branch[n] ELSE NoBase]
        /\ made' = [n \in Names |-> 0] /\ agentRuns' = {}
    BY <1>7 DEF Restart
  <2>2. Sessions' /\ RunsCount'
    BY <1>0, <2>1 DEF Sessions, RunsCount
  <2>3. \A n \in Names : baseline'[n] \in {NoBase, branch[n]}
    BY <1>0, <2>1 DEF Sessions
  <2>4. WorktreeTypeOK' /\ Baselines'
    BY <1>0, <2>1, <2>3, WorktreeAssumption DEF WorktreeTypeOK, Baselines, Active, gitVars, NoBase
  <2>5. QED BY <2>2, <2>4 DEF WorktreeIInv
<1>8. ASSUME NEW n \in Names, UserRemoves(n) PROVE WorktreeIInv'
  BY <1>0, <1>8, FewerCheckouts DEF UserRemoves, managerVars, WorktreeIInv, Sessions, RunsCount
<1>9. ASSUME NEW n \in Names, MateStarts(n) PROVE WorktreeIInv'
  <2>1. Created(n) /\ UNCHANGED <<entered, sessionFile, agentRuns>> /\ n \notin Active
    BY <1>9 DEF MateStarts, Created
  <2>2. /\ WorktreeTypeOK' /\ Baselines' /\ \A m \in Names \ {n} : baseline'[m] = baseline[m]
        /\ n \notin checkout => baseline'[n] = 0
    BY <1>0, <2>1, CreatedKeeps
  <2>3. n \in Mates /\ n \notin Agents
    BY <1>9, WorktreeAssumption DEF MateStarts
  <2>4. RunsCount'
    BY <1>0, <2>1, <2>2, <2>3 DEF RunsCount
  <2>5. QED BY <1>0, <2>1, <2>2, <2>4 DEF WorktreeIInv, Sessions
<1>10. ASSUME NEW n \in Names, MateEnds(n) PROVE WorktreeIInv'
  BY <1>0, <1>10, SameBaselines DEF MateEnds, managerVars, WorktreeIInv, Sessions, RunsCount
<1>11. CASE TeamDelete \/ Quit
  <2>1. TeamGoes /\ agentRuns' \subseteq agentRuns
    BY <1>11 DEF TeamDelete, Quit
  <2>2. PICK gone \in SUBSET {m \in Mates : mates[m] # "none"} :
           checkout' = checkout \ gone /\ dirty' = dirty \ gone
    BY <2>1 DEF TeamGoes
  <2>3. UNCHANGED <<branch, pushed, baseline, made, entered, sessionFile>>
    BY <2>1 DEF TeamGoes, managerVars
  <2>4. WorktreeTypeOK' /\ Baselines'
    BY <1>0, <2>2, <2>3, FewerCheckouts
  <2>5. Sessions' /\ RunsCount'
    BY <1>0, <2>1, <2>3 DEF Sessions, RunsCount
  <2>6. QED BY <2>4, <2>5 DEF WorktreeIInv
<1>12. CASE UNCHANGED worktreeVars
  BY <1>0, <1>12, SameBaselines DEF worktreeVars, managerVars, WorktreeIInv, Sessions, RunsCount
<1>13. QED
  BY <1>1, <1>2, <1>3, <1>4, <1>5, <1>6, <1>7, <1>8, <1>9, <1>10, <1>11, <1>12 DEF WorktreeNext, ToolEnter

LEMMA WorktreeInvariance == WorktreeSpec => []WorktreeIInv
<1>1. WorktreeInit => WorktreeIInv
  BY WorktreeAssumption DEF WorktreeInit, WorktreeIInv, WorktreeTypeOK, Sessions, Baselines, RunsCount, Active,
     NoSession, NoBase, Names
<1>2. QED BY <1>1, WorktreeStep, PTL DEF WorktreeSpec

\* A worktree whose directory, files and branch are left alone loses nothing.
LEMMA NothingLost ==
    ASSUME NEW m \in Names, WorktreeTypeOK, Baselines, branch'[m] = branch[m], m \in dirty => m \in dirty'
    PROVE  ~Loses(m)
<1>1. branch[m] \in 0 .. NoBase /\ (m \in dirty => branch[m] # NoBase)
  BY DEF WorktreeTypeOK, Baselines
<1>2. ~(branch'[m] < branch[m])
  BY <1>1, WorktreeAssumption DEF NoBase
<1>3. QED BY <1>1, <1>2 DEF Loses

LEMMA NothingDone ==
    ASSUME NEW m \in Names, WorktreeTypeOK, Baselines, UNCHANGED gitVars
    PROVE  ~Loses(m)
  BY NothingLost DEF gitVars

\* What a removal can lose is what the worktree held.
LEMMA RemovedLoses ==
    ASSUME NEW n \in Names, NEW m \in Names, WorktreeTypeOK, Baselines, Removed(n), Loses(m)
    PROVE  m = n /\ (n \in dirty \/ (branch[n] # NoBase /\ branch[n] > pushed[n]))
<1>1. CASE UNCHANGED gitVars
  BY <1>1, NothingDone
<1>2. CASE ~UNCHANGED gitVars
  <2>1. dirty' = dirty \ {n} /\ branch' = [branch EXCEPT ![n] = NoBase]
    BY <1>2 DEF Removed
  <2>2. m # n => branch'[m] = branch[m] /\ (m \in dirty => m \in dirty')
    BY <2>1 DEF WorktreeTypeOK
  <2>3. m = n
    BY <2>2, NothingLost
  <2>4. QED BY <2>3 DEF Loses
<1>3. QED BY <1>1, <1>2

Explains(n) ==
    \/ by' \in {"discard", "user", "blind"}
    \/ by' = "create" /\ n \notin checkout
    \/ /\ by' = "team" /\ n \in Mates /\ mates[n] # "none" /\ mates'[n] = "none"
       /\ branch'[n] = branch[n]
    \/ by' = "command" /\ n \notin dirty /\ made[n] = 0

LEMMA LossExplainedStep ==
    ASSUME WorktreeIInv, WorktreeNext, NEW m \in Names, Loses(m)
    PROVE  Explains(m)
<1>0. WorktreeTypeOK /\ Sessions /\ Baselines /\ RunsCount /\ Chosen \subseteq Names /\ Agents \subseteq Names
      /\ Mates \subseteq Names
  BY DEF WorktreeIInv, Names
<1>1. ASSUME NEW n \in Names, CommandCreate(n) \/ MateStarts(n) PROVE Explains(m)
  <2>1. Created(n) /\ by' = "create" /\ n \in Names
    BY <1>1 DEF CommandCreate, MateStarts
  <2>2. CASE n \in checkout
    BY <1>0, <2>1, <2>2, NothingDone DEF Created
  <2>3. CASE n \notin checkout
    <3>1. dirty' = dirty \ {n} /\ branch' = [branch EXCEPT ![n] = 0]
      BY <2>1, <2>3 DEF Created
    <3>2. m # n => branch'[m] = branch[m] /\ (m \in dirty => m \in dirty')
      BY <1>0, <3>1 DEF WorktreeTypeOK
    <3>3. m = n
      BY <1>0, <3>2, NothingLost
    <3>4. QED BY <2>1, <2>3, <3>3 DEF Explains
  <2>4. QED BY <2>2, <2>3
<1>2. ASSUME NEW n \in Names, CommandEnter(n) PROVE FALSE
  BY <1>0, <1>2, NothingDone DEF CommandEnter
<1>3. ASSUME NEW n \in Names, AgentStarts(n) PROVE FALSE
  <2>1. n \notin checkout /\ n \notin dirty /\ branch[n] = NoBase /\ dirty' = dirty \ {n}
        /\ branch' = [branch EXCEPT ![n] = 0]
    BY <1>0, <1>3 DEF AgentStarts, Created, WorktreeTypeOK
  <2>2. m # n => branch'[m] = branch[m] /\ (m \in dirty => m \in dirty')
    BY <1>0, <2>1 DEF WorktreeTypeOK
  <2>3. m = n
    BY <1>0, <2>2, NothingLost
  <2>4. QED BY <2>1, <2>3 DEF Loses
<1>4. ASSUME NEW n \in Names, AgentEnds(n) PROVE Explains(m)
  <2>1. n \in Active /\ Removed(n) /\ \E heard \in SUBSET Answers :
           /\ by' = IF heard = Answers THEN "other" ELSE "blind"
           /\ ~Changed(n, baseline[n], heard)
    BY <1>0, <1>4, NothingDone DEF AgentEnds
  <2>2. PICK heard \in SUBSET Answers : /\ by' = IF heard = Answers THEN "other" ELSE "blind"
                                       /\ ~Changed(n, baseline[n], heard)
    BY <2>1
  <2>3. CASE heard = Answers
    <3>1. n \in checkout /\ n \notin dirty /\ ~(branch[n] > baseline[n])
      BY <2>2, <2>3 DEF Changed, Answers
    <3>2. n \in agentRuns
      BY <1>4 DEF AgentEnds
    <3>3. baseline[n] = 0 /\ branch[n] = 0
      BY <1>0, <2>1, <3>1, <3>2, WorktreeAssumption DEF RunsCount, Active, WorktreeTypeOK, NoBase
    <3>4. QED BY <1>0, <2>1, <3>1, <3>3, RemovedLoses DEF WorktreeTypeOK
  <2>4. CASE heard # Answers
    BY <2>2, <2>4 DEF Explains
  <2>5. QED BY <2>3, <2>4
<1>5. ASSUME NEW n \in Names, Sweep(n) PROVE Explains(m)
  <2>1. PICK heard \in SUBSET Answers : /\ ~Changed(n, branch[n], heard) /\ branch[n] = pushed[n]
                                       /\ by' = IF "status" \in heard THEN "other" ELSE "blind"
    BY <1>5 DEF Sweep
  <2>2. m = n /\ n \in dirty
    BY <1>0, <1>5, <2>1, RemovedLoses DEF Sweep, WorktreeTypeOK
  <2>3. "status" \notin heard
    BY <2>1, <2>2 DEF Changed
  <2>4. QED BY <2>1, <2>3 DEF Explains
<1>6. ASSUME NEW remove \in BOOLEAN, NEW discard \in BOOLEAN, CommandExit(remove, discard)
      PROVE  Explains(m)
  <2> DEFINE n == entered.name
  <2>1. PICK heard \in SUBSET Answers :
           /\ Exit(n, remove, discard, heard)
           /\ by' = IF discard THEN "discard" ELSE IF heard = Answers THEN "command" ELSE "blind"
    BY <1>6 DEF CommandExit
  <2>2. n \in Names /\ n \in Active
    BY <2>1 DEF Exit, Active
  <2>3. remove /\ Removed(n)
    BY <1>0, <2>1, NothingDone DEF Exit
  <2>4. CASE ~discard /\ heard = Answers
    <3>1. n \in checkout /\ n \notin dirty /\ ~(branch[n] > baseline[n])
      BY <2>1, <2>3, <2>4 DEF Exit, Changed, Answers
    <3>2. made[n] = 0
      BY <1>0, <2>2, <3>1, WorktreeAssumption DEF Baselines, WorktreeTypeOK, NoBase
    <3>3. m = n
      BY <1>0, <2>2, <2>3, RemovedLoses
    <3>4. QED BY <2>1, <2>4, <3>1, <3>2, <3>3 DEF Explains
  <2>5. QED BY <2>1, <2>4 DEF Explains
<1>7. ASSUME NEW remove \in BOOLEAN, NEW discard \in BOOLEAN, ToolExit(remove, discard)
      PROVE  Explains(m)
  <2> DEFINE n == entered.name
  <2>1. PICK heard \in SUBSET Answers :
           /\ remove /\ ~discard => ~Changed(n, entered.base, heard)
           /\ Exit(n, remove, discard, heard)
           /\ by' = IF discard THEN "discard" ELSE IF heard = Answers THEN "other" ELSE "blind"
    BY <1>7 DEF ToolExit
  <2>2. n \in Names /\ remove /\ Removed(n)
    BY <1>0, <2>1, NothingDone DEF Exit, Active
  <2>3. CASE ~discard /\ heard = Answers
    <3>1. n \in checkout /\ n \notin dirty /\ ~(branch[n] > 0)
      BY <1>0, <2>1, <2>2, <2>3 DEF Changed, Answers, Sessions
    <3>2. branch[n] = 0
      BY <1>0, <2>2, <3>1, WorktreeAssumption DEF WorktreeTypeOK, NoBase
    <3>3. QED BY <1>0, <2>2, <3>1, <3>2, RemovedLoses DEF WorktreeTypeOK
  <2>4. QED BY <2>1, <2>3 DEF Explains
<1>8. ASSUME NEW n \in Names, Work(n) PROVE FALSE
  <2>1. n \in checkout /\ branch[n] # NoBase /\ branch[n] \in 0 .. NoBase /\ branch[m] \in 0 .. NoBase
    BY <1>0, <1>8 DEF Work, Baselines, WorktreeTypeOK
  <2>2. CASE m \in dirty => m \in dirty'
    <3>1. branch' = branch
      BY <1>0, <1>8, <2>2, NothingLost DEF Work, WorktreeTypeOK
    <3>2. QED BY <1>0, <2>2, <3>1, NothingLost
  <2>3. CASE ~(m \in dirty => m \in dirty')
    <3>1. m = n /\ branch' = [branch EXCEPT ![n] = branch[n] + 1] /\ branch[n] < MaxCommits
      BY <1>8, <2>3 DEF Work
    <3>2. branch'[m] = branch[m] + 1
      BY <1>0, <3>1 DEF WorktreeTypeOK
    <3>3. QED BY <2>1, <3>1, <3>2, WorktreeAssumption DEF Loses, NoBase
  <2>4. QED BY <2>2, <2>3
<1>9. CASE Restart
  BY <1>0, <1>9, NothingDone DEF Restart
<1>10. ASSUME NEW n \in Names, UserRemoves(n) PROVE Explains(m)
  BY <1>10 DEF UserRemoves, Explains
<1>11. ASSUME NEW n \in Names, MateEnds(n) PROVE FALSE
  BY <1>0, <1>11, NothingDone DEF MateEnds
<1>12. CASE TeamDelete \/ Quit
  <2>1. TeamGoes
    BY <1>12 DEF TeamDelete, Quit
  <2>2. PICK gone \in SUBSET {n \in Mates : mates[n] # "none"} :
           checkout' = checkout \ gone /\ dirty' = dirty \ gone
    BY <2>1 DEF TeamGoes
  <2>3. branch' = branch /\ mates' = [n \in Mates |-> "none"] /\ by' = "team"
    BY <2>1 DEF TeamGoes
  <2>4. m \in gone
    BY <1>0, <2>2, <2>3, NothingLost
  <2>5. QED BY <2>2, <2>3, <2>4 DEF Explains
<1>13. QED
  BY <1>1, <1>2, <1>3, <1>4, <1>5, <1>6, <1>7, <1>8, <1>9, <1>10, <1>11, <1>12 DEF WorktreeNext, ToolEnter

\* What the tools, the end of a sub-agent and the sweep remove has never held
\* work that is nowhere else, the /worktree command removes none that was made
\* under its eyes, and deleting a team loses what its members had not committed:
\* for any number of worktrees, members and commits
\* (worktree/manager.py, worktree/cleanup.py, tools/agent_tool.py, teams/manager.py).
THEOREM WorkLossHasAReason == WorktreeSpec => WorkLossIsExplained
<1>1. WorktreeIInv /\ [WorktreeNext]_worktreeVars =>
        [\A n \in Names : Loses(n) =>
            \/ by' \in {"discard", "user", "blind"}
            \/ by' = "create" /\ n \notin checkout
            \/ /\ by' = "team" /\ n \in Mates /\ mates[n] # "none" /\ mates'[n] = "none"
               /\ branch'[n] = branch[n]
            \/ by' = "command" /\ n \notin dirty /\ made[n] = 0]_worktreeVars
  BY LossExplainedStep DEF Explains
<1>2. QED BY <1>1, WorktreeInvariance, PTL DEF WorktreeSpec, WorkLossIsExplained
-----------------------------------------------------------------------------
(* The runs of the terminal. *)

Quiet == {"free", "over"}
RunPlaces == {"free", "created", "mcp", "mounts", "works", "asks", "question", "unwinds", "over"}

TerminalTyped ==
    /\ runAt \in [Runs -> RunPlaces] /\ agentTask \in Runs \cup {NoRun}
    /\ streaming \in BOOLEAN /\ inputOn \in BOOLEAN /\ planDialog \in BOOLEAN

\* One run is on its way, and the App knows it; whoever typed meanwhile waits for
\* that run, which is cancelled; nobody could have put a question on the screen.
OneRun ==
    /\ \A r \in Runs : runAt[r] \notin Quiet => agentTask = r /\ runAt[r] # "mcp"
    /\ \A r \in Working : streaming
    /\ submitWaits # NoRun =>
          /\ submitWaits \in cancelled
          /\ \A r \in Runs : runAt[r] \notin Quiet => r = submitWaits
    /\ onScreen = {}

\* A dialog on the screen keeps the input off; it belongs to the run that asks, or,
\* with a plan, to none, since that run is leaving.
DialogsHaveRuns ==
    disturbed = "none" =>
        /\ dialog # NoRun =>
              dialog \in Runs /\ runAt[dialog] = "asks" /\ ~inputOn /\ dialog \notin cancelled
        /\ planDialog =>
              ~inputOn /\ submitWaits = NoRun /\ \A r \in Runs : runAt[r] \in Quiet \cup {"unwinds"}

TerminalOrder == TerminalTyped /\ OneRun /\ DialogsHaveRuns
TerminalIInv == disturbed # "overlap" => TerminalOrder

LEMMA AFreeRun == FreeRuns # {} => FreeRun \in FreeRuns
<1>1. FreeRuns \subseteq Nat
  BY DEF FreeRuns, Runs
<1>2. ASSUME FreeRuns # {} PROVE \E n \in FreeRuns : \A m \in FreeRuns : n <= m
  BY <1>1, <1>2, LeastNumber
<1>3. QED BY <1>2 DEF FreeRun

\* A run starts where none is on its way.
LEMMA RunStarts ==
    ASSUME TerminalTyped, Starts(runAt), \A r \in Runs : runAt[r] \in Quiet
    PROVE  /\ runAt' \in [Runs -> RunPlaces] /\ agentTask' \in Runs
           /\ \A r \in Runs : runAt'[r] \notin Quiet => agentTask' = r /\ runAt'[r] = "created"
<1>1. FreeRun \in Runs /\ runAt[FreeRun] = "free"
  BY AFreeRun DEF Starts, FreeRuns
<1>2. agentTask' = FreeRun /\ runAt' = [runAt EXCEPT ![FreeRun] = "created"]
  BY DEF Starts
<1>3. runAt' \in [Runs -> RunPlaces]
  BY <1>1, <1>2 DEF TerminalTyped, RunPlaces
<1>4. ASSUME NEW r \in Runs, runAt'[r] \notin Quiet PROVE r = FreeRun /\ runAt'[r] = "created"
  BY <1>1, <1>2, <1>4 DEF TerminalTyped
<1>5. QED BY <1>1, <1>2, <1>3, <1>4

\* While nobody streams and the user is listened to, no run is on its way.
LEMMA NoneOnItsWay ==
    ASSUME TerminalTyped, OneRun, \A r \in Runs : runAt[r] # "created",
           ~streaming \/ ~Alive(agentTask)
    PROVE  \A r \in Runs : runAt[r] \in Quiet
<1>1. SUFFICES ASSUME NEW r \in Runs, runAt[r] \notin Quiet PROVE FALSE
  OBVIOUS
<1>2. agentTask = r /\ runAt[r] # "mcp" /\ runAt[r] # "created" /\ runAt[r] \in RunPlaces
  BY <1>1 DEF OneRun, TerminalTyped
<1>3. r \in Working
  BY <1>1, <1>2 DEF Working, Quiet, RunPlaces
<1>4. streaming
  BY <1>3 DEF OneRun
<1>5. r # NoRun
  BY DEF Runs, NoRun
<1>6. Alive(agentTask)
  BY <1>1, <1>2, <1>5 DEF Alive, Quiet
<1>7. QED BY <1>4, <1>6

\* The run that is on its way goes on.
LEMMA RunGoesOn ==
    ASSUME TerminalOrder, NEW r \in Runs, runAt[r] \notin Quiet,
           NEW place \in RunPlaces, place \notin {"mcp", "free", "over"},
           runAt' = [runAt EXCEPT ![r] = place], streaming' = TRUE,
           UNCHANGED <<agentTask, cancelled, submitWaits, onScreen>>
    PROVE  /\ runAt' \in [Runs -> RunPlaces] /\ OneRun'
           /\ agentTask = r /\ \A q \in Runs : q # r => runAt[q] \in Quiet /\ runAt'[q] \in Quiet
<1>1. runAt' \in [Runs -> RunPlaces]
  BY DEF TerminalOrder, TerminalTyped
<1>2. /\ agentTask = r
      /\ \A q \in Runs : q # r => runAt[q] \in Quiet /\ runAt'[q] = runAt[q]
      /\ runAt'[r] = place
  BY DEF TerminalOrder, TerminalTyped, OneRun
<1>3. \A q \in Runs : runAt'[q] \notin Quiet => agentTask' = q /\ runAt'[q] # "mcp"
  BY <1>2
<1>4. submitWaits' # NoRun =>
          submitWaits' \in cancelled' /\ \A q \in Runs : runAt'[q] \notin Quiet => q = submitWaits'
  BY <1>2 DEF TerminalOrder, OneRun
<1>5. onScreen' = {} /\ \A q \in Working' : streaming'
  BY DEF TerminalOrder, OneRun
<1>6. OneRun'
  BY <1>3, <1>4, <1>5 DEF OneRun
<1>7. QED BY <1>1, <1>2, <1>6

\* What a run does on its own.
LEMMA RunSteps ==
    ASSUME TerminalOrder, disturbed' # "overlap", NEW r \in Runs,
           \/ Begin(r) \/ AfterMcp(r) \/ Mounted(r) \/ AskPermission(r) \/ Question(r) \/ QuestionTimesOut(r)
           \/ ToolResult(r) \/ Leave(r) \/ Unwound(r) \/ AnswerQuestion(r)
    PROVE  TerminalOrder'
<1> USE DEF TerminalOrder
<1>0. runAt[r] \in {"mounts", "works", "asks", "question", "unwinds"} => streaming = TRUE
  BY DEF OneRun, Working, TerminalTyped
<1>1. CASE Begin(r)
  <2>1. /\ runAt[r] = "created" /\ runAt' = [runAt EXCEPT ![r] = "mounts"] /\ streaming' = TRUE
        /\ disturbed' = disturbed
        /\ UNCHANGED <<cancelled, agentTask, submitWaits, dialog, planDialog, inputOn, onScreen>>
    BY <1>1 DEF Begin, screenVars
  <2>2. runAt' \in [Runs -> RunPlaces] /\ OneRun' /\ \A q \in Runs : q # r => runAt[q] \in Quiet
    BY <2>1, RunGoesOn DEF Quiet, RunPlaces
  <2>3. disturbed = "none" => dialog = NoRun /\ ~planDialog
    BY <2>1, <2>2 DEF DialogsHaveRuns, Quiet
  <2>4. QED BY <2>1, <2>2, <2>3 DEF TerminalTyped, DialogsHaveRuns
<1>2. CASE AfterMcp(r)
  BY <1>2 DEF AfterMcp, OneRun, Quiet
<1>3. CASE AskPermission(r)
  <2>1. /\ runAt[r] = "works" /\ streaming' = TRUE /\ r \notin cancelled
        /\ disturbed' = disturbed /\ dialog' = r
        /\ UNCHANGED <<cancelled, agentTask, submitWaits, planDialog, onScreen>>
    BY <1>0, <1>3 DEF AskPermission
  <2>2. PICK place \in {"asks", "unwinds"} : runAt' = [runAt EXCEPT ![r] = place]
    BY <1>3 DEF AskPermission
  <2>3. /\ runAt' \in [Runs -> RunPlaces] /\ OneRun'
        /\ \A q \in Runs : q # r => runAt[q] \in Quiet /\ runAt'[q] \in Quiet
    BY <2>1, <2>2, RunGoesOn DEF Quiet, RunPlaces
  <2>4. inputOn' \in BOOLEAN
    BY <1>3 DEF AskPermission, TerminalTyped
  <2>5. ASSUME disturbed = "none" PROVE dialog = NoRun /\ ~planDialog
    BY <2>1, <2>3, <2>5 DEF DialogsHaveRuns, Quiet
  <2>6. ASSUME disturbed = "none" PROVE runAt'[r] = "asks" /\ ~inputOn'
    BY <1>3, <2>5, <2>6 DEF AskPermission, TerminalTyped
  <2>7. QED BY <2>1, <2>3, <2>4, <2>5, <2>6 DEF TerminalTyped, DialogsHaveRuns
<1>4. CASE Question(r) \/ QuestionTimesOut(r)
  <2>1. /\ runAt[r] \in {"works", "question"} /\ streaming' = TRUE
        /\ disturbed' = disturbed
        /\ UNCHANGED <<cancelled, agentTask, submitWaits, dialog, planDialog, inputOn, onScreen>>
    BY <1>0, <1>4 DEF Question, QuestionTimesOut, screenVars
  <2>2. PICK place \in {"works", "question"} : runAt' = [runAt EXCEPT ![r] = place]
    BY <1>4 DEF Question, QuestionTimesOut
  <2>3. runAt' \in [Runs -> RunPlaces] /\ OneRun' /\ \A q \in Runs : q # r => runAt[q] \in Quiet
    BY <2>1, <2>2, RunGoesOn DEF Quiet, RunPlaces
  <2>4. disturbed = "none" => dialog = NoRun /\ ~planDialog
    BY <2>1, <2>3 DEF DialogsHaveRuns, Quiet
  <2>5. QED BY <2>1, <2>3, <2>4 DEF TerminalTyped, DialogsHaveRuns
<1>5. CASE ToolResult(r)
  <2>1. PICK q \in Runs : runAt[q] = "question"
    BY <1>5 DEF ToolResult
  <2>2. agentTask = r /\ agentTask = q /\ runAt[r] = "works"
    BY <1>5, <2>1 DEF ToolResult, OneRun, Quiet
  <2>3. QED BY <2>1, <2>2
<1>6. CASE Leave(r)
  <2>1. /\ runAt[r] \in {"works", "asks", "question"} /\ streaming' = TRUE
        /\ runAt' = [runAt EXCEPT ![r] = "unwinds"]
        /\ disturbed' = disturbed
        /\ UNCHANGED <<cancelled, agentTask, submitWaits, dialog, onScreen>>
    BY <1>0, <1>6 DEF Leave
  <2>2. /\ runAt' \in [Runs -> RunPlaces] /\ OneRun'
        /\ \A q \in Runs : q # r => runAt[q] \in Quiet /\ runAt'[q] \in Quiet
    BY <2>1, RunGoesOn DEF Quiet, RunPlaces
  <2>3. \/ r \notin cancelled /\ runAt[r] = "works" /\ planDialog' = TRUE /\ inputOn' = FALSE
        \/ r \notin cancelled /\ runAt[r] = "works" /\ planDialog' = planDialog /\ inputOn' = inputOn
        \/ r \in cancelled /\ planDialog' = planDialog /\ inputOn' = inputOn
    BY <1>6 DEF Leave, PlanShown
  <2>4. ASSUME disturbed = "none" PROVE dialog = NoRun /\ ~planDialog
    <3>1. ~planDialog
      BY <2>1, <2>4 DEF DialogsHaveRuns, Quiet
    <3>2. dialog # NoRun => dialog = r /\ runAt[r] = "asks" /\ r \notin cancelled
      BY <2>2, <2>4 DEF DialogsHaveRuns, Quiet
    <3>3. QED BY <2>3, <3>1, <3>2
  <2>5. r \notin cancelled => submitWaits = NoRun
    BY <2>1 DEF OneRun, Quiet
  <2>6. \A q \in Runs : runAt'[q] \in Quiet \cup {"unwinds"}
    BY <2>1, <2>2 DEF TerminalTyped
  <2>7. inputOn' \in BOOLEAN /\ planDialog' \in BOOLEAN
    BY <2>3 DEF TerminalTyped
  <2>8. DialogsHaveRuns'
    <3>1. CASE r \notin cancelled /\ planDialog' = TRUE /\ inputOn' = FALSE
      BY <2>1, <2>4, <2>5, <2>6, <3>1 DEF DialogsHaveRuns
    <3>2. CASE planDialog' = planDialog /\ inputOn' = inputOn
      BY <2>1, <2>4, <3>2 DEF DialogsHaveRuns
    <3>3. QED BY <2>3, <3>1, <3>2
  <2>9. QED BY <2>1, <2>2, <2>7, <2>8 DEF TerminalTyped
<1>7. CASE Unwound(r)
  <2>1. /\ runAt[r] = "unwinds" /\ streaming' = FALSE /\ agentTask' = NoRun
        /\ runAt' = [runAt EXCEPT ![r] = "over"]
        /\ disturbed' = disturbed
        /\ UNCHANGED <<cancelled, submitWaits, dialog, planDialog, inputOn, onScreen>>
    BY <1>7 DEF Unwound, FinishStreaming, screenVars
  <2>2. runAt' \in [Runs -> RunPlaces]
    BY <2>1 DEF TerminalTyped, RunPlaces
  <2>3. \A q \in Runs : runAt'[q] \in Quiet
    BY <2>1 DEF TerminalTyped, OneRun, Quiet
  <2>4. OneRun'
    BY <2>1, <2>3 DEF OneRun, Working, Quiet
  <2>5. disturbed = "none" => dialog = NoRun
    BY <2>1 DEF DialogsHaveRuns, OneRun, Quiet
  <2>6. DialogsHaveRuns'
    BY <2>1, <2>3, <2>5 DEF DialogsHaveRuns
  <2>7. QED BY <2>1, <2>2, <2>4, <2>6 DEF TerminalTyped
<1>8. CASE AnswerQuestion(r)
  BY <1>8 DEF AnswerQuestion, OneRun
<1>9. CASE Mounted(r)
  <2>1. /\ runAt[r] = "mounts" /\ streaming' = TRUE /\ disturbed' = disturbed
        /\ UNCHANGED <<cancelled, agentTask, submitWaits, dialog, planDialog, inputOn, onScreen>>
    BY <1>0, <1>9 DEF Mounted, screenVars
  <2>2. PICK place \in {"works", "over"} : runAt' = [runAt EXCEPT ![r] = place]
    BY <1>9 DEF Mounted
  <2>3. runAt' \in [Runs -> RunPlaces]
    BY <2>2 DEF TerminalTyped, RunPlaces
  <2>4. \A q \in Runs : runAt'[q] \notin Quiet =>
            q = r /\ runAt'[q] = "works" /\ runAt[q] \notin Quiet
    BY <2>1, <2>2 DEF TerminalTyped, OneRun, Quiet
  <2>5. OneRun'
    BY <2>1, <2>4 DEF OneRun
  <2>6. \A q \in Runs : q # r => runAt[q] \in Quiet
    BY <2>1 DEF OneRun, Quiet
  <2>7. disturbed = "none" => dialog = NoRun /\ ~planDialog
    BY <2>1, <2>6 DEF DialogsHaveRuns, Quiet
  <2>8. QED BY <2>1, <2>3, <2>5, <2>7 DEF TerminalTyped, DialogsHaveRuns
<1>10. QED BY <1>1, <1>2, <1>3, <1>4, <1>5, <1>6, <1>7, <1>8, <1>9

\* What the user does.
LEMMA UserSteps ==
    ASSUME TerminalOrder, disturbed' # "overlap",
           Submit \/ SubmitGoesOn \/ Escape \/ CtrlC \/ AnswerDialog \/ AnswerPlan
    PROVE  TerminalOrder'
<1> USE DEF TerminalOrder
<1>1. CASE Submit
  <2>0. /\ submitWaits = NoRun /\ inputOn /\ \A r \in Runs : runAt[r] # "created"
        /\ disturbed' = disturbed /\ UNCHANGED <<dialog, planDialog, inputOn, onScreen>>
    BY <1>1 DEF Submit, Listens
  <2>1. disturbed = "none" => dialog = NoRun /\ ~planDialog
    BY <2>0 DEF DialogsHaveRuns
  <2>2. DialogsHaveRuns'
    BY <2>0, <2>1 DEF DialogsHaveRuns
  <2>3. CASE streaming /\ Alive(agentTask)
    <3>1. /\ cancelled' = cancelled \cup {agentTask} /\ submitWaits' = agentTask
          /\ UNCHANGED <<streaming, runAt, agentTask>>
      BY <1>1, <2>3 DEF Submit
    <3>2. OneRun'
      BY <2>0, <3>1 DEF OneRun, Working
    <3>3. QED BY <2>0, <2>2, <3>1, <3>2 DEF TerminalTyped
  <2>4. CASE ~(streaming /\ Alive(agentTask))
    <3>1. streaming' = FALSE /\ Starts(runAt) /\ submitWaits' = NoRun
      BY <1>1, <2>0, <2>4 DEF Submit, FinishStreaming
    <3>2. \A r \in Runs : runAt[r] \in Quiet
      BY <2>0, <2>4, NoneOnItsWay
    <3>3. /\ runAt' \in [Runs -> RunPlaces] /\ agentTask' \in Runs
          /\ \A r \in Runs : runAt'[r] \notin Quiet => agentTask' = r /\ runAt'[r] = "created"
      BY <3>1, <3>2, RunStarts
    <3>4. Working' = {}
      BY <3>3 DEF Working, Quiet
    <3>5. OneRun'
      BY <2>0, <3>1, <3>3, <3>4 DEF OneRun
    <3>6. QED BY <2>0, <2>2, <3>1, <3>3, <3>5 DEF TerminalTyped
  <2>5. QED BY <2>3, <2>4
<1>2. CASE SubmitGoesOn
  <2>0. /\ submitWaits # NoRun /\ ~Alive(submitWaits) /\ submitWaits' = NoRun
        /\ streaming' = FALSE /\ Starts(runAt)
        /\ disturbed' = disturbed /\ UNCHANGED <<dialog, planDialog, inputOn, onScreen>>
    BY <1>2 DEF SubmitGoesOn, FinishStreaming
  <2>1. \A r \in Runs : runAt[r] \in Quiet
    BY <2>0 DEF OneRun, Alive, Quiet
  <2>2. /\ runAt' \in [Runs -> RunPlaces] /\ agentTask' \in Runs
        /\ \A r \in Runs : runAt'[r] \notin Quiet => agentTask' = r /\ runAt'[r] = "created"
    BY <2>0, <2>1, RunStarts
  <2>3. Working' = {}
    BY <2>2 DEF Working, Quiet
  <2>4. OneRun'
    BY <2>0, <2>2, <2>3 DEF OneRun
  <2>5. disturbed = "none" => dialog = NoRun /\ ~planDialog
    BY <2>0, <2>1 DEF DialogsHaveRuns, Quiet
  <2>6. DialogsHaveRuns'
    BY <2>0, <2>5 DEF DialogsHaveRuns
  <2>7. QED BY <2>0, <2>2, <2>4, <2>6 DEF TerminalTyped
<1>3. CASE Escape
  <2>1. /\ cancelled' = cancelled \cup {agentTask} /\ disturbed' # "none"
        /\ UNCHANGED <<runAt, agentTask, streaming, submitWaits, dialog, planDialog, inputOn, onScreen>>
    BY <1>3 DEF Escape, screenVars
  <2>2. OneRun'
    BY <2>1 DEF OneRun, Working
  <2>3. QED BY <2>1, <2>2 DEF TerminalTyped, DialogsHaveRuns
<1>4. CASE CtrlC
  BY <1>4 DEF CtrlC
<1>5. CASE AnswerDialog
  <2>0. /\ submitWaits = NoRun /\ submitWaits' = NoRun /\ disturbed' = disturbed
        /\ UNCHANGED <<cancelled, agentTask, streaming, planDialog, onScreen>>
    BY <1>5 DEF AnswerDialog, Listens
  <2>1. CASE dialog \in cancelled
    <3>1. UNCHANGED <<runAt, dialog, inputOn>>
      BY <1>5, <2>1 DEF AnswerDialog
    <3>2. OneRun'
      BY <2>0, <3>1 DEF OneRun, Working
    <3>3. DialogsHaveRuns'
      BY <2>0, <2>1, <3>1 DEF DialogsHaveRuns
    <3>4. QED BY <2>0, <3>1, <3>2, <3>3 DEF TerminalTyped
  <2>2. CASE dialog \notin cancelled
    <3>1. /\ dialog' = NoRun /\ inputOn' = TRUE /\ dialog # NoRun
          /\ runAt' = [runAt EXCEPT ![dialog] = IF @ = "asks" THEN "works" ELSE @]
      BY <1>5, <2>2 DEF AnswerDialog
    <3>2. /\ runAt' \in [Runs -> RunPlaces]
          /\ \A r \in Runs : runAt'[r] = runAt[r] \/ (runAt[r] = "asks" /\ runAt'[r] = "works")
      BY <3>1 DEF TerminalTyped, RunPlaces
    <3>3. \A r \in Runs : runAt'[r] \notin Quiet => runAt[r] \notin Quiet /\ runAt'[r] # "mcp"
      BY <3>2 DEF OneRun, Quiet
    <3>4. Working' \subseteq Working
      BY <3>2 DEF Working
    <3>5. OneRun'
      BY <2>0, <3>3, <3>4 DEF OneRun
    <3>6. disturbed = "none" => ~planDialog
      BY <3>1 DEF DialogsHaveRuns, Quiet
    <3>7. DialogsHaveRuns'
      BY <2>0, <3>1, <3>6 DEF DialogsHaveRuns
    <3>8. QED BY <2>0, <3>1, <3>2, <3>5, <3>7 DEF TerminalTyped
  <2>3. QED BY <2>1, <2>2
<1>6. CASE AnswerPlan
  <2>0. /\ submitWaits = NoRun /\ \A r \in Runs : runAt[r] # "created"
        /\ planDialog /\ planDialog' = FALSE /\ inputOn' = TRUE /\ disturbed' = disturbed
        /\ UNCHANGED <<cancelled, streaming, submitWaits, dialog, onScreen>>
    BY <1>6 DEF AnswerPlan, Listens
  <2>1. disturbed = "none" => dialog = NoRun
    BY <2>0 DEF DialogsHaveRuns, Quiet
  <2>2. DialogsHaveRuns'
    BY <2>0, <2>1 DEF DialogsHaveRuns
  <2>3. CASE streaming
    <3>1. UNCHANGED <<runAt, agentTask>>
      BY <1>6, <2>3 DEF AnswerPlan, SendUserMessage
    <3>2. OneRun'
      BY <2>0, <3>1 DEF OneRun, Working
    <3>3. QED BY <2>0, <2>2, <3>1, <3>2 DEF TerminalTyped
  <2>4. CASE ~streaming
    <3>1. Starts(runAt)
      BY <1>6, <2>4 DEF AnswerPlan, SendUserMessage
    <3>2. \A r \in Runs : runAt[r] \in Quiet
      BY <2>0, <2>4, NoneOnItsWay
    <3>3. /\ runAt' \in [Runs -> RunPlaces] /\ agentTask' \in Runs
          /\ \A r \in Runs : runAt'[r] \notin Quiet => agentTask' = r /\ runAt'[r] = "created"
      BY <3>1, <3>2, RunStarts
    <3>4. Working' = {}
      BY <3>3 DEF Working, Quiet
    <3>5. OneRun'
      BY <2>0, <3>3, <3>4 DEF OneRun
    <3>6. QED BY <2>0, <2>2, <3>3, <3>5 DEF TerminalTyped
  <2>5. QED BY <2>3, <2>4
<1>7. QED BY <1>1, <1>2, <1>3, <1>4, <1>5, <1>6

LEMMA TerminalStep ==
    ASSUME TerminalIInv, [TerminalNext]_terminalVars
    PROVE  TerminalIInv'
<1> SUFFICES ASSUME disturbed' # "overlap" PROVE TerminalOrder'
  BY DEF TerminalIInv
<1>1. disturbed # "overlap"
  BY DEF TerminalNext, terminalVars, Begin, AfterMcp, Mounted, AskPermission, Question, QuestionTimesOut,
         ToolResult, Leave, Unwound, AnswerQuestion, Connected, Submit, SubmitGoesOn, Escape, CtrlC,
         AnswerDialog, AnswerPlan, TaskEnds, MailComes, Poll
<1>2. TerminalOrder
  BY <1>1 DEF TerminalIInv
<1>3. CASE UNCHANGED terminalVars \/ Connected \/ TaskEnds \/ MailComes
  <2>1. UNCHANGED <<runAt, cancelled, agentTask, streaming, submitWaits, dialog, planDialog, inputOn,
                    onScreen, disturbed>>
    BY <1>3 DEF terminalVars, Connected, TaskEnds, MailComes, runVars, screenVars
  <2>2. OneRun'
    BY <1>2, <2>1 DEF TerminalOrder, OneRun, Working
  <2>3. DialogsHaveRuns'
    BY <1>2, <2>1 DEF TerminalOrder, DialogsHaveRuns
  <2>4. QED BY <1>2, <2>1, <2>2, <2>3 DEF TerminalOrder, TerminalTyped
<1>4. CASE Poll
  BY <1>4 DEF Poll
<1>5. QED BY <1>2, <1>3, <1>4, RunSteps, UserSteps DEF TerminalNext

\* A run in hand: whoever works on the conversation is the run that the App knows
\* (RunIsInHand), as long as nothing lets runs overlap.
THEOREM RunsAreInHand == TerminalSpec => []RunIsInHand
<1>1. TerminalInit => TerminalIInv
  <2> SUFFICES ASSUME TerminalInit PROVE TerminalOrder
    BY DEF TerminalIInv
  <2>1. Working = {} /\ \A r \in Runs : runAt[r] \in Quiet
    BY DEF TerminalInit, Working, Quiet
  <2>2. QED BY <2>1 DEF TerminalInit, TerminalOrder, TerminalTyped, RunPlaces, OneRun, DialogsHaveRuns
<1>2. TerminalIInv => RunIsInHand
  <2> SUFFICES ASSUME TerminalOrder, disturbed # "overlap"
               PROVE  /\ Cardinality(Working) <= 1
                      /\ \A r \in Working : runAt[r] # "unwinds" => streaming /\ agentTask = r
                      /\ dialog # NoRun /\ disturbed = "none" => runAt[dialog] = "asks"
    BY DEF TerminalIInv, RunIsInHand
  <2>1. \A r \in Working : agentTask = r /\ streaming
    BY DEF TerminalOrder, OneRun, Working, Quiet
  <2>2. Working \subseteq {agentTask}
    BY <2>1
  <2>3. Cardinality(Working) <= 1
    <3>1. IsFiniteSet({agentTask}) /\ Cardinality({agentTask}) = 1
      BY FS_Singleton
    <3>2. Cardinality(Working) <= Cardinality({agentTask})
      BY <2>2, <3>1, FS_Subset
    <3>3. QED BY <3>1, <3>2
  <2>4. dialog # NoRun /\ disturbed = "none" => runAt[dialog] = "asks"
    BY DEF TerminalOrder, DialogsHaveRuns
  <2>5. QED BY <2>1, <2>3, <2>4
<1>3. QED BY <1>1, <1>2, TerminalStep, PTL DEF TerminalSpec

-----------------------------------------------------------------------------
(* The checkpoints of the file history. *)

Snapshots ==
    [version : UNION {[known -> 1 .. MaxVersions] : known \in SUBSET Files}, atDisk : [Files -> Nat]]
Contents == [1 .. MaxVersions -> Nat]

HistoryTyped ==
    /\ disk \in [Files -> Nat] /\ texts \in Nat
    /\ tracked \in [Files -> 0 .. MaxVersions]
    /\ backups \in [Files -> Contents]
    /\ checkpoints \in Seq(Snapshots)

\* What a later checkpoint or the history itself says of a file is no older than
\* what an earlier checkpoint says: this is what rewinding restores.
NotNewer(old, new) == \A f \in DOMAIN old : f \in DOMAIN new /\ old[f] <= new[f]
CheckpointsRise ==
    /\ \A i \in 1 .. Len(checkpoints) : NotNewer(checkpoints[i].version, tracked)
    /\ \A i, j \in 1 .. Len(checkpoints) :
          i < j => NotNewer(checkpoints[i].version, checkpoints[j].version)

HistoryIInv == HistoryTyped /\ CheckpointsRise

LEMMA SnapshotsKnowFiles ==
    ASSUME HistoryTyped, NEW i \in 1 .. Len(checkpoints)
    PROVE  /\ checkpoints[i] \in Snapshots
           /\ DOMAIN checkpoints[i].version \subseteq Files
           /\ \A f \in DOMAIN checkpoints[i].version : checkpoints[i].version[f] \in 1 .. MaxVersions
<1>1. checkpoints[i] \in Snapshots
  BY DEF HistoryTyped
<1>2. PICK known \in SUBSET Files : checkpoints[i].version \in [known -> 1 .. MaxVersions]
  BY <1>1 DEF Snapshots
<1>3. QED BY <1>1, <1>2

LEMMA HistoryStep ==
    ASSUME HistoryIInv, [FilesNext]_filesVars
    PROVE  HistoryIInv'
<1> USE FilesAssumption DEF HistoryIInv
<1>1. CASE UNCHANGED filesVars \/ \E f \in Files : ReadFile(f) \/ Outside(f)
  <2>1. UNCHANGED historyVars
    BY <1>1 DEF filesVars, ReadFile, Outside
  <2>2. disk' \in [Files -> Nat] /\ texts' \in Nat
    <3>1. CASE UNCHANGED filesVars \/ \E f \in Files : ReadFile(f)
      BY <3>1 DEF filesVars, diskVars, ReadFile, HistoryTyped
    <3>2. ASSUME NEW f \in Files, Outside(f) PROVE disk' \in [Files -> Nat] /\ texts' \in Nat
      <4>1. \/ texts' = texts + 1 /\ disk' = [disk EXCEPT ![f] = texts']
            \/ texts' = texts /\ disk' = [disk EXCEPT ![f] = 0]
        BY <3>2 DEF Outside
      <4>2. texts' \in Nat
        BY <4>1 DEF HistoryTyped
      <4>3. PICK n \in Nat : disk' = [disk EXCEPT ![f] = n]
        BY <4>1, <4>2
      <4>4. disk' \in [Files -> Nat]
        BY <4>3 DEF HistoryTyped
      <4>5. QED BY <4>2, <4>4
    <3>3. QED BY <1>1, <3>1, <3>2
  <2>3. QED BY <2>1, <2>2 DEF historyVars, HistoryTyped, CheckpointsRise
<1>2. ASSUME NEW f \in Files, EditFile(f) \/ WriteFile(f) PROVE HistoryIInv'
  <2>1. /\ tracked[f] < MaxVersions /\ tracked' = [tracked EXCEPT ![f] = @ + 1]
        /\ checkpoints' = checkpoints
        /\ backups' = IF disk[f] = 0 THEN backups ELSE [backups EXCEPT ![f][tracked[f] + 1] = disk[f]]
    BY <1>2 DEF EditFile, WriteFile, TrackEdit
  <2>2. disk' \in [Files -> Nat] /\ texts' \in Nat
    BY <1>2 DEF EditFile, WriteFile, Written, Refused, diskVars, HistoryTyped
  <2>3. tracked' \in [Files -> 0 .. MaxVersions] /\ \A g \in Files : tracked[g] <= tracked'[g]
    BY <2>1 DEF HistoryTyped
  <2>4. backups' \in [Files -> Contents]
    BY <2>1 DEF HistoryTyped, Contents
  <2>5. \A i \in 1 .. Len(checkpoints) : NotNewer(checkpoints[i].version, tracked')
    <3>1. SUFFICES ASSUME NEW i \in 1 .. Len(checkpoints), NEW g \in DOMAIN checkpoints[i].version
                   PROVE  g \in DOMAIN tracked' /\ checkpoints[i].version[g] <= tracked'[g]
      BY DEF NotNewer
    <3>2. g \in Files /\ checkpoints[i].version[g] \in Nat
      BY SnapshotsKnowFiles
    <3>3. checkpoints[i].version[g] <= tracked[g]
      BY DEF CheckpointsRise, NotNewer
    <3>4. tracked[g] \in Nat /\ tracked'[g] \in Nat /\ tracked[g] <= tracked'[g] /\ g \in DOMAIN tracked'
      BY <2>3, <3>2 DEF HistoryTyped
    <3>5. QED BY <3>2, <3>3, <3>4
  <2>6. QED BY <2>1, <2>2, <2>3, <2>4, <2>5 DEF HistoryTyped, CheckpointsRise
<1>3. CASE MakeSnapshot
  <2> DEFINE next == [version |-> [f \in Tracked |-> tracked[f]], atDisk |-> disk]
  <2> DEFINE all == Append(checkpoints, next)
  <2> DEFINE first == IF Len(all) > MaxSnapshots THEN 2 ELSE 1
  <2>1. /\ UNCHANGED <<disk, texts, tracked>>
        /\ backups' = [f \in Files |->
                IF f \in Tracked /\ backups[f][tracked[f]] = 0
                THEN [backups[f] EXCEPT ![tracked[f]] = disk[f]] ELSE backups[f]]
        /\ checkpoints' = SubSeq(all, first, Len(all))
    BY <1>3 DEF MakeSnapshot, diskVars
  <2>2. backups' \in [Files -> Contents]
    BY <2>1 DEF HistoryTyped, Contents
  <2>3. next \in Snapshots
    <3>1. Tracked \subseteq Files /\ [f \in Tracked |-> tracked[f]] \in [Tracked -> 1 .. MaxVersions]
      BY DEF HistoryTyped, Tracked
    <3>2. [f \in Tracked |-> tracked[f]] \in UNION {[known -> 1 .. MaxVersions] : known \in SUBSET Files}
      BY <3>1
    <3>3. disk \in [Files -> Nat]
      BY DEF HistoryTyped
    <3>4. QED BY <3>2, <3>3 DEF Snapshots
  <2>4. NotNewer(next.version, tracked)
    BY DEF NotNewer, HistoryTyped, Tracked
  <2>5. ASSUME NEW i \in 1 .. Len(checkpoints) PROVE NotNewer(checkpoints[i].version, next.version)
    <3>1. SUFFICES ASSUME NEW g \in DOMAIN checkpoints[i].version
                   PROVE  g \in Tracked /\ checkpoints[i].version[g] <= tracked[g]
      BY DEF NotNewer
    <3>2. g \in Files /\ checkpoints[i].version[g] \in 1 .. MaxVersions
      BY SnapshotsKnowFiles
    <3>3. checkpoints[i].version[g] <= tracked[g] /\ tracked[g] \in Nat
      BY <3>2 DEF CheckpointsRise, NotNewer, HistoryTyped
    <3>4. QED BY <3>2, <3>3 DEF Tracked
  <2> HIDE DEF next
  <2>6. /\ all \in Seq(Snapshots) /\ Len(all) = Len(checkpoints) + 1 /\ Len(checkpoints) \in Nat
        /\ \A i \in 1 .. Len(checkpoints) : all[i] = checkpoints[i]
        /\ all[Len(checkpoints) + 1] = next
    BY <2>3 DEF HistoryTyped
  <2> HIDE DEF all
  <2>7. \A i \in 1 .. Len(all) : NotNewer(all[i].version, tracked)
    BY <2>4, <2>6 DEF CheckpointsRise
  <2>8. \A i, j \in 1 .. Len(all) : i < j => NotNewer(all[i].version, all[j].version)
    <3>1. SUFFICES ASSUME NEW i \in 1 .. Len(all), NEW j \in 1 .. Len(all), i < j
                   PROVE  NotNewer(all[i].version, all[j].version)
      OBVIOUS
    <3>2. i \in 1 .. Len(checkpoints) /\ all[i] = checkpoints[i]
      BY <2>6, <3>1
    <3>3. CASE j = Len(checkpoints) + 1
      BY <2>5, <2>6, <3>2, <3>3
    <3>4. CASE j # Len(checkpoints) + 1
      <4>1. j \in 1 .. Len(checkpoints) /\ all[j] = checkpoints[j]
        BY <2>6, <3>4
      <4>2. QED BY <3>1, <3>2, <4>1 DEF CheckpointsRise
    <3>5. QED BY <3>3, <3>4
  <2>9. first \in 1 .. 2 /\ first <= Len(all)
    BY <2>6
  <2> HIDE DEF first
  <2>10. /\ checkpoints' \in Seq(Snapshots) /\ Len(checkpoints') = Len(all) - first + 1
         /\ \A i \in 1 .. Len(checkpoints') :
               i + first - 1 \in 1 .. Len(all) /\ checkpoints'[i] = all[i + first - 1]
    BY <2>1, <2>6, <2>9
  <2>11. \A i \in 1 .. Len(checkpoints') : NotNewer(checkpoints'[i].version, tracked')
    BY <2>1, <2>7, <2>10
  <2>12. \A i, j \in 1 .. Len(checkpoints') :
             i < j => NotNewer(checkpoints'[i].version, checkpoints'[j].version)
    <3>1. SUFFICES ASSUME NEW i \in 1 .. Len(checkpoints'), NEW j \in 1 .. Len(checkpoints'), i < j
                   PROVE  NotNewer(checkpoints'[i].version, checkpoints'[j].version)
      OBVIOUS
    <3>2. i + first - 1 < j + first - 1
      BY <2>9, <2>10, <3>1
    <3>3. QED BY <2>8, <2>10, <3>2
  <2>13. QED BY <2>1, <2>2, <2>10, <2>11, <2>12 DEF HistoryTyped, CheckpointsRise
<1>4. ASSUME NEW i \in 1 .. MaxSnapshots, Rewind(i) PROVE HistoryIInv'
  <2> DEFINE s == checkpoints[i].version
  <2>1. /\ i \in 1 .. Len(checkpoints) /\ UNCHANGED <<texts, backups>>
        /\ disk' = [f \in Files |-> IF f \in DOMAIN s THEN backups[f][s[f]] ELSE disk[f]]
        /\ tracked' = [f \in Files |-> IF f \in DOMAIN s THEN s[f] ELSE tracked[f]]
        /\ checkpoints' = SubSeq(checkpoints, 1, i)
    BY <1>4 DEF Rewind, HistoryTyped
  <2>2. DOMAIN s \subseteq Files /\ \A f \in DOMAIN s : s[f] \in 1 .. MaxVersions
    BY <2>1, SnapshotsKnowFiles
  <2>3. NotNewer(s, tracked')
    BY <2>1, <2>2 DEF NotNewer
  <2>4. \A j \in 1 .. Len(checkpoints) : j < i => NotNewer(checkpoints[j].version, s)
    BY <2>1 DEF CheckpointsRise
  <2>5. disk' \in [Files -> Nat] /\ tracked' \in [Files -> 0 .. MaxVersions]
    <3> HIDE DEF s
    <3>1. \A f \in Files : /\ disk[f] \in Nat /\ tracked[f] \in 0 .. MaxVersions
                           /\ backups[f] \in [1 .. MaxVersions -> Nat]
      BY DEF HistoryTyped, Contents
    <3>2. \A f \in DOMAIN s : s[f] \in 0 .. MaxVersions /\ backups[f][s[f]] \in Nat
      BY <2>2, <3>1
    <3>3. QED BY <2>1, <3>1, <3>2
  <2> HIDE DEF s
  <2>6. /\ checkpoints' \in Seq(Snapshots) /\ Len(checkpoints') = i /\ i \in Nat
        /\ \A j \in 1 .. i : checkpoints'[j] = checkpoints[j] /\ j \in 1 .. Len(checkpoints)
    BY <2>1 DEF HistoryTyped
  <2>7. ASSUME NEW j \in 1 .. i PROVE NotNewer(checkpoints[j].version, tracked')
    <3>1. CASE j = i
      BY <2>3, <3>1 DEF s
    <3>2. CASE j # i
      <4>1. NotNewer(checkpoints[j].version, s)
        BY <2>4, <2>6, <3>2
      <4>2. SUFFICES ASSUME NEW g \in DOMAIN checkpoints[j].version
                     PROVE  g \in DOMAIN tracked' /\ checkpoints[j].version[g] <= tracked'[g]
        BY DEF NotNewer
      <4>3. g \in DOMAIN s /\ checkpoints[j].version[g] <= s[g] /\ g \in DOMAIN tracked' /\ s[g] <= tracked'[g]
        BY <2>3, <4>1 DEF NotNewer
      <4>4. checkpoints[j].version[g] \in Nat /\ s[g] \in Nat /\ tracked'[g] \in Nat
        BY <2>2, <2>5, <2>6, <4>3, SnapshotsKnowFiles
      <4>5. QED BY <4>3, <4>4
    <3>3. QED BY <3>1, <3>2
  <2>8. \A j, k \in 1 .. i : j < k => NotNewer(checkpoints[j].version, checkpoints[k].version)
    BY <2>6 DEF CheckpointsRise
  <2>9. CheckpointsRise'
    BY <2>6, <2>7, <2>8 DEF CheckpointsRise
  <2>10. QED BY <2>1, <2>5, <2>6, <2>9 DEF HistoryTyped
<1>5. QED BY <1>1, <1>2, <1>3, <1>4 DEF FilesNext

\* A checkpoint keeps its backups (CheckpointsKeepTheirBackups): an edit writes the
\* version after the one the history is at, and no checkpoint knows a later one,
\* even after a rewind has taken the versions back.
THEOREM BackupsAreKept == FilesSpec => CheckpointsKeepTheirBackups
<1>1. FilesInit => HistoryIInv
  <2> SUFFICES ASSUME FilesInit PROVE HistoryIInv
    OBVIOUS
  <2>1. checkpoints = <<>>
    BY DEF FilesInit
  <2>2. HistoryTyped
    BY FilesAssumption DEF FilesInit, HistoryTyped, Contents
  <2>3. QED BY <2>1, <2>2 DEF HistoryIInv, CheckpointsRise
<1>2. HistoryIInv /\ [FilesNext]_filesVars =>
        [\A i \in DOMAIN checkpoints : \A f \in DOMAIN checkpoints[i].version :
            LET v == checkpoints[i].version[f]
            IN  backups[f][v] = 0 \/ backups'[f][v] = backups[f][v]]_filesVars
  <2> SUFFICES ASSUME HistoryIInv, FilesNext,
                      NEW i \in DOMAIN checkpoints, NEW f \in DOMAIN checkpoints[i].version
               PROVE  LET v == checkpoints[i].version[f]
                      IN  backups[f][v] = 0 \/ backups'[f][v] = backups[f][v]
    OBVIOUS
  <2> DEFINE v == checkpoints[i].version[f]
  <2>1. i \in 1 .. Len(checkpoints)
    BY DEF HistoryIInv, HistoryTyped
  <2>2. f \in Files /\ v \in 1 .. MaxVersions
    BY <2>1, SnapshotsKnowFiles DEF HistoryIInv
  <2>3. v <= tracked[f] /\ tracked[f] \in Nat
    BY <2>1, <2>2 DEF HistoryIInv, HistoryTyped, CheckpointsRise, NotNewer
  <2> HIDE DEF v
  <2>4. CASE \E g \in Files : ReadFile(g) \/ Outside(g)
    BY <2>4 DEF ReadFile, Outside, historyVars
  <2>5. CASE \E j \in 1 .. MaxSnapshots : Rewind(j)
    BY <2>5 DEF Rewind
  <2>6. ASSUME NEW g \in Files, EditFile(g) \/ WriteFile(g) PROVE backups'[f][v] = backups[f][v]
    <3>1. backups' = IF disk[g] = 0 THEN backups ELSE [backups EXCEPT ![g][tracked[g] + 1] = disk[g]]
      BY <2>6 DEF EditFile, WriteFile, TrackEdit
    <3>2. g = f => v # tracked[g] + 1
      BY <2>2, <2>3
    <3>3. QED BY <2>2, <3>1, <3>2 DEF HistoryIInv, HistoryTyped, Contents
  <2>7. CASE MakeSnapshot
    <3>1. backups'[f] = IF f \in Tracked /\ backups[f][tracked[f]] = 0
                        THEN [backups[f] EXCEPT ![tracked[f]] = disk[f]] ELSE backups[f]
      BY <2>2, <2>7 DEF MakeSnapshot
    <3>2. QED BY <2>2, <3>1 DEF HistoryIInv, HistoryTyped, Contents
  <2>8. QED BY <2>4, <2>5, <2>6, <2>7 DEF FilesNext, v
<1>3. QED BY <1>1, <1>2, HistoryStep, PTL DEF FilesSpec, CheckpointsKeepTheirBackups

-----------------------------------------------------------------------------
(* The conversation and its logs. *)

MessageKinds == {"user", "calls", "results", "text", "memory", "summary"}
Messages == [k : MessageKinds, id : Nat, of : Nat]
Conversations == Seq(Messages)
MessageRecords == [k : MessageKinds, id : Nat, of : Nat, keep : {<<>>}]
BoundaryRecords == [k : {"boundary"}, id : {0}, of : {0}, keep : Conversations]
LogRecords == MessageRecords \cup BoundaryRecords
Logs == Seq(LogRecords)

\* Every call has its results right behind it, every result its call right
\* before it: in a conversation and in the records of a log.
Answered(ms) ==
    \A i \in DOMAIN ms : ms[i].k = "calls" =>
        /\ i + 1 \in DOMAIN ms /\ ms[i + 1].k = "results" /\ ms[i + 1].of = ms[i].id
Placed(ms) ==
    \A i \in DOMAIN ms : ms[i].k = "results" =>
        /\ i - 1 \in DOMAIN ms /\ ms[i - 1].k = "calls" /\ ms[i - 1].id = ms[i].of

\* What stands behind a place of a paired sequence is paired, unless it begins
\* with results.
LEMMA SuffixPaired ==
    ASSUME NEW S, NEW ms \in Seq(S), NEW n \in Nat \ {0}
    PROVE  LET t == SubSeq(ms, n, Len(ms))
           IN /\ t \in Seq(S)
              /\ Len(t) = IF n <= Len(ms) THEN Len(ms) - n + 1 ELSE 0
              /\ \A i \in 1 .. Len(t) : t[i] = ms[n + i - 1]
              /\ Answered(ms) => Answered(t)
              /\ Placed(ms) /\ (t # <<>> => t[1].k # "results") => Placed(t)
<1> DEFINE t == SubSeq(ms, n, Len(ms))
<1>0. Len(ms) \in Nat /\ DOMAIN ms = 1 .. Len(ms) /\ \A i \in 1 .. Len(ms) : ms[i] \in S
  BY LenProperties, ElementOfSeq
<1>1. /\ t \in Seq(S)
      /\ Len(t) = IF n <= Len(ms) THEN Len(ms) - n + 1 ELSE 0
      /\ \A i \in 1 .. Len(ms) - n + 1 : t[i] = ms[n + i - 1]
  <2>1. n \in Int /\ Len(ms) \in Int /\ \A i \in n .. Len(ms) : ms[i] \in S
    BY <1>0
  <2>2. QED BY <2>1, SubSeqProperties
<1>2. DOMAIN t = 1 .. Len(t) /\ Len(t) \in Nat
  BY <1>1, LenProperties
<1> HIDE DEF t
<1>3. \A i \in 1 .. Len(t) : t[i] = ms[n + i - 1]
  BY <1>0, <1>1, <1>2
<1>4. ASSUME Answered(ms) PROVE Answered(t)
  <2> SUFFICES ASSUME NEW i \in 1 .. Len(t), t[i].k = "calls"
               PROVE  i + 1 \in 1 .. Len(t) /\ t[i + 1].k = "results" /\ t[i + 1].of = t[i].id
    BY <1>2 DEF Answered
  <2>1. n + i - 1 \in 1 .. Len(ms) /\ t[i] = ms[n + i - 1]
    <3>1. i <= Len(t) /\ i \in Nat /\ i >= 1 /\ n <= Len(ms) /\ Len(t) = Len(ms) - n + 1
      BY <1>0, <1>1, <1>2
    <3>2. QED BY <3>1, <1>0, <1>3
  <2>2. /\ (n + i - 1) + 1 \in 1 .. Len(ms) /\ ms[(n + i - 1) + 1].k = "results"
        /\ ms[(n + i - 1) + 1].of = t[i].id
    BY <2>1, <1>0, <1>4 DEF Answered
  <2>3. i + 1 \in 1 .. Len(t) /\ t[i + 1] = ms[n + (i + 1) - 1]
    <3>1. i <= Len(t) /\ i \in Nat /\ i >= 1 /\ n <= Len(ms) /\ Len(t) = Len(ms) - n + 1
      BY <1>0, <1>1, <1>2
    <3>2. i + 1 \in 1 .. Len(t)
      BY <3>1, <2>2, <1>0, <1>2
    <3>3. QED BY <3>2, <1>3
  <2>4. n + (i + 1) - 1 = (n + i - 1) + 1
    BY <1>2
  <2>5. QED BY <2>2, <2>3, <2>4
<1>5. ASSUME Placed(ms), t # <<>> => t[1].k # "results" PROVE Placed(t)
  <2> SUFFICES ASSUME NEW i \in 1 .. Len(t), t[i].k = "results"
               PROVE  i - 1 \in 1 .. Len(t) /\ t[i - 1].k = "calls" /\ t[i - 1].id = t[i].of
    BY <1>2 DEF Placed
  <2>1. n + i - 1 \in 1 .. Len(ms) /\ t[i] = ms[n + i - 1]
    <3>1. i <= Len(t) /\ i \in Nat /\ i >= 1 /\ n <= Len(ms) /\ Len(t) = Len(ms) - n + 1
      BY <1>0, <1>1, <1>2
    <3>2. QED BY <3>1, <1>0, <1>3
  <2>2. /\ (n + i - 1) - 1 \in 1 .. Len(ms) /\ ms[(n + i - 1) - 1].k = "calls"
        /\ ms[(n + i - 1) - 1].id = t[i].of
    BY <2>1, <1>0, <1>5 DEF Placed
  <2>3. i # 1
    <3>1. t # <<>>
      BY <1>2, Len(t) # 0, EmptySeq
    <3>2. QED BY <3>1, <1>5
  <2>4. i - 1 \in 1 .. Len(t) /\ t[i - 1] = ms[n + (i - 1) - 1]
    BY <2>3, <1>3, <1>2
  <2>5. n + (i - 1) - 1 = (n + i - 1) - 1
    BY <1>2
  <2>6. QED BY <2>2, <2>4, <2>5
<1>6. QED BY <1>1, <1>3, <1>4, <1>5 DEF t

LEMMA JoinedPaired ==
    ASSUME NEW S, NEW a \in Seq(S), NEW b \in Seq(S)
    PROVE  /\ Answered(a) /\ Answered(b) => Answered(a \o b)
           /\ Placed(a) /\ Placed(b) => Placed(a \o b)
<1>0. /\ Len(a) \in Nat /\ DOMAIN a = 1 .. Len(a)
      /\ Len(b) \in Nat /\ DOMAIN b = 1 .. Len(b)
  BY LenProperties
<1> DEFINE c == a \o b
<1>1. /\ DOMAIN c = 1 .. Len(a) + Len(b)
      /\ \A i \in 1 .. Len(a) + Len(b) : c[i] = IF i <= Len(a) THEN a[i] ELSE b[i - Len(a)]
  BY ConcatProperties, LenProperties
<1> HIDE DEF c
<1>2. ASSUME Answered(a), Answered(b) PROVE Answered(c)
  <2> SUFFICES ASSUME NEW i \in 1 .. Len(a) + Len(b), c[i].k = "calls"
               PROVE  /\ i + 1 \in 1 .. Len(a) + Len(b)
                      /\ c[i + 1].k = "results" /\ c[i + 1].of = c[i].id
    BY <1>1 DEF Answered
  <2>1. CASE i <= Len(a)
    <3>1. i \in 1 .. Len(a) /\ c[i] = a[i]
      BY <2>1, <1>0, <1>1
    <3>2. i + 1 \in 1 .. Len(a) /\ a[i + 1].k = "results" /\ a[i + 1].of = a[i].id
      BY <3>1, <1>0, <1>2 DEF Answered
    <3>3. i + 1 \in 1 .. Len(a) + Len(b) /\ c[i + 1] = a[i + 1]
      BY <3>2, <1>0, <1>1
    <3>4. QED BY <3>1, <3>2, <3>3
  <2>2. CASE ~(i <= Len(a))
    <3>1. i - Len(a) \in 1 .. Len(b) /\ c[i] = b[i - Len(a)]
      BY <2>2, <1>0, <1>1
    <3>2. /\ (i - Len(a)) + 1 \in 1 .. Len(b) /\ b[(i - Len(a)) + 1].k = "results"
          /\ b[(i - Len(a)) + 1].of = c[i].id
      BY <3>1, <1>0, <1>2 DEF Answered
    <3>3. /\ i + 1 \in 1 .. Len(a) + Len(b) /\ ~(i + 1 <= Len(a))
          /\ (i - Len(a)) + 1 = (i + 1) - Len(a)
      BY <2>2, <3>2, <1>0
    <3>4. c[i + 1] = b[(i - Len(a)) + 1]
      BY <3>3, <1>1
    <3>5. QED BY <3>2, <3>3, <3>4
  <2>3. QED BY <2>1, <2>2
<1>3. ASSUME Placed(a), Placed(b) PROVE Placed(c)
  <2> SUFFICES ASSUME NEW i \in 1 .. Len(a) + Len(b), c[i].k = "results"
               PROVE  /\ i - 1 \in 1 .. Len(a) + Len(b)
                      /\ c[i - 1].k = "calls" /\ c[i - 1].id = c[i].of
    BY <1>1 DEF Placed
  <2>1. CASE i <= Len(a)
    <3>1. i \in 1 .. Len(a) /\ c[i] = a[i]
      BY <2>1, <1>0, <1>1
    <3>2. i - 1 \in 1 .. Len(a) /\ a[i - 1].k = "calls" /\ a[i - 1].id = a[i].of
      BY <3>1, <1>0, <1>3 DEF Placed
    <3>3. i - 1 \in 1 .. Len(a) + Len(b) /\ c[i - 1] = a[i - 1]
      BY <3>2, <1>0, <1>1
    <3>4. QED BY <3>1, <3>2, <3>3
  <2>2. CASE ~(i <= Len(a))
    <3>1. i - Len(a) \in 1 .. Len(b) /\ c[i] = b[i - Len(a)]
      BY <2>2, <1>0, <1>1
    <3>2. /\ (i - Len(a)) - 1 \in 1 .. Len(b) /\ b[(i - Len(a)) - 1].k = "calls"
          /\ b[(i - Len(a)) - 1].id = c[i].of
      BY <3>1, <1>0, <1>3 DEF Placed
    <3>3. /\ i - 1 \in 1 .. Len(a) + Len(b) /\ ~(i - 1 <= Len(a))
          /\ (i - Len(a)) - 1 = (i - 1) - Len(a)
      BY <2>2, <3>2, <1>0
    <3>4. c[i - 1] = b[(i - Len(a)) - 1]
      BY <3>3, <1>1
    <3>5. QED BY <3>2, <3>3, <3>4
  <2>3. QED BY <2>1, <2>2
<1>4. QED BY <1>2, <1>3 DEF c

LEMMA PrefixPaired ==
    ASSUME NEW S, NEW ms \in Seq(S), NEW n \in 0 .. Len(ms)
    PROVE  LET p == SubSeq(ms, 1, n)
           IN /\ p \in Seq(S) /\ Len(p) = n /\ \A i \in 1 .. n : p[i] = ms[i]
              /\ Placed(ms) => Placed(p)
              /\ Answered(ms) /\ (p # <<>> => p[Len(p)].k # "calls") => Answered(p)
<1> DEFINE p == SubSeq(ms, 1, n)
<1>0. Len(ms) \in Nat /\ DOMAIN ms = 1 .. Len(ms) /\ \A i \in 1 .. Len(ms) : ms[i] \in S
  BY LenProperties, ElementOfSeq
<1>1. p \in Seq(S) /\ Len(p) = n /\ \A i \in 1 .. n : p[i] = ms[i]
  <2>1. 1 \in Int /\ n \in Int /\ \A i \in 1 .. n : ms[i] \in S
    BY <1>0
  <2>2. /\ p \in Seq(S) /\ Len(p) = IF 1 <= n THEN n - 1 + 1 ELSE 0
        /\ \A i \in 1 .. n - 1 + 1 : p[i] = ms[1 + i - 1]
    BY <2>1, SubSeqProperties
  <2> HIDE DEF p
  <2>3. Len(p) = n
    BY <2>2, <1>0
  <2>4. ASSUME NEW i \in 1 .. n PROVE p[i] = ms[i]
    <3>1. i \in 1 .. n - 1 + 1 /\ 1 + i - 1 = i
      BY <1>0
    <3>2. QED BY <3>1, <2>2
  <2>5. QED BY <2>2, <2>3, <2>4
<1>2. DOMAIN p = 1 .. n
  BY <1>1, LenProperties
<1> HIDE DEF p
<1>3. ASSUME Placed(ms) PROVE Placed(p)
  <2> SUFFICES ASSUME NEW i \in 1 .. n, p[i].k = "results"
               PROVE  i - 1 \in 1 .. n /\ p[i - 1].k = "calls" /\ p[i - 1].id = p[i].of
    BY <1>2 DEF Placed
  <2>1. i \in 1 .. Len(ms) /\ p[i] = ms[i]
    BY <1>0, <1>1
  <2>2. i - 1 \in 1 .. Len(ms) /\ ms[i - 1].k = "calls" /\ ms[i - 1].id = ms[i].of
    BY <2>1, <1>0, <1>3 DEF Placed
  <2>3. i - 1 \in 1 .. n /\ p[i - 1] = ms[i - 1]
    BY <2>2, <1>0, <1>1
  <2>4. QED BY <2>1, <2>2, <2>3
<1>4. ASSUME Answered(ms), p # <<>> => p[Len(p)].k # "calls" PROVE Answered(p)
  <2> SUFFICES ASSUME NEW i \in 1 .. n, p[i].k = "calls"
               PROVE  i + 1 \in 1 .. n /\ p[i + 1].k = "results" /\ p[i + 1].of = p[i].id
    BY <1>2 DEF Answered
  <2>1. i \in 1 .. Len(ms) /\ p[i] = ms[i]
    BY <1>0, <1>1
  <2>2. i + 1 \in 1 .. Len(ms) /\ ms[i + 1].k = "results" /\ ms[i + 1].of = ms[i].id
    BY <2>1, <1>0, <1>4 DEF Answered
  <2>3. i # n
    <3>1. p # <<>>
      BY <1>1, <1>0, Len(p) # 0, EmptySeq
    <3>2. QED BY <3>1, <1>4, <1>1
  <2>4. i + 1 \in 1 .. n /\ p[i + 1] = ms[i + 1]
    BY <2>2, <2>3, <1>0, <1>1
  <2>5. QED BY <2>1, <2>2, <2>4
<1>5. QED BY <1>1, <1>3, <1>4 DEF p

\* A message that is neither a call nor a result is paired by itself.
LEMMA AloneIsPaired ==
    ASSUME NEW m, m.k \notin {"calls", "results"}
    PROVE  Answered(<<m>>) /\ Placed(<<m>>)
  BY DEF Answered, Placed

LEMMA NothingIsPaired == Answered(<<>>) /\ Placed(<<>>)
  BY DEF Answered, Placed

\* What goes into a log as records comes back as it was.
LEMMA RecordsKeep ==
    ASSUME NEW ms \in Conversations
    PROVE  /\ Records(ms) \in Seq(MessageRecords) /\ Records(ms) \in Logs
           /\ Len(Records(ms)) = Len(ms)
           /\ PlainMessages(Records(ms)) = ms
           /\ Answered(ms) => Answered(Records(ms))
           /\ Placed(ms) => Placed(Records(ms))
           /\ \A i \in DOMAIN Records(ms) : Records(ms)[i].k # "boundary"
<1> DEFINE rs == Records(ms)
<1>0. Len(ms) \in Nat /\ DOMAIN ms = 1 .. Len(ms) /\ \A i \in 1 .. Len(ms) : ms[i] \in Messages
  BY LenProperties, ElementOfSeq DEF Conversations
<1>1. rs = [i \in 1 .. Len(ms) |-> Record(ms[i])]
  BY <1>0 DEF Records
<1>2. \A i \in 1 .. Len(ms) : /\ Record(ms[i]) \in MessageRecords
                              /\ Record(ms[i]).k = ms[i].k /\ Record(ms[i]).id = ms[i].id
                              /\ Record(ms[i]).of = ms[i].of
  BY <1>0 DEF Messages, Record, MessageRecords
<1>3. rs \in Seq(MessageRecords) /\ DOMAIN rs = 1 .. Len(ms) /\ Len(rs) = Len(ms)
  <2>1. rs \in [1 .. Len(ms) -> MessageRecords]
    BY <1>1, <1>2
  <2>2. QED BY <2>1, <1>0, LenProperties
<1>4. \A i \in 1 .. Len(ms) : rs[i] = Record(ms[i])
  BY <1>1
<1>5. rs \in Logs
  BY <1>3, SeqMonotonic DEF Logs, LogRecords
<1> HIDE DEF rs
<1>6. PlainMessages(rs) = ms
  <2>1. PlainMessages(rs) = [i \in 1 .. Len(ms) |-> Msg(rs[i].k, rs[i].id, rs[i].of)]
    BY <1>3 DEF PlainMessages
  <2>2. \A i \in 1 .. Len(ms) : Msg(rs[i].k, rs[i].id, rs[i].of) = ms[i]
    BY <1>0, <1>2, <1>4 DEF Msg, Messages
  <2>3. ms = [i \in 1 .. Len(ms) |-> ms[i]]
    BY <1>0, LenProperties DEF Conversations
  <2>4. QED BY <2>1, <2>2, <2>3
<1>7. Answered(ms) => Answered(rs)
  BY <1>0, <1>2, <1>3, <1>4 DEF Answered
<1>8. Placed(ms) => Placed(rs)
  BY <1>0, <1>2, <1>3, <1>4 DEF Placed
<1>9. \A i \in DOMAIN rs : rs[i].k # "boundary"
  <2>1. \A i \in 1 .. Len(ms) : ms[i].k # "boundary"
    BY <1>0 DEF Messages, MessageKinds
  <2>2. QED BY <2>1, <1>2, <1>3, <1>4
<1>10. QED BY <1>3, <1>5, <1>6, <1>7, <1>8, <1>9 DEF rs

\* Records without a boundary, read back.
LEMMA PlainKeeps ==
    ASSUME NEW rs \in Logs, \A i \in DOMAIN rs : rs[i].k # "boundary"
    PROVE  /\ PlainMessages(rs) \in Conversations /\ Len(PlainMessages(rs)) = Len(rs)
           /\ Answered(rs) => Answered(PlainMessages(rs))
           /\ Placed(rs) => Placed(PlainMessages(rs))
<1> DEFINE ms == PlainMessages(rs)
<1>0. Len(rs) \in Nat /\ DOMAIN rs = 1 .. Len(rs) /\ \A i \in 1 .. Len(rs) : rs[i] \in LogRecords
  BY LenProperties, ElementOfSeq DEF Logs
<1>1. ms = [i \in 1 .. Len(rs) |-> Msg(rs[i].k, rs[i].id, rs[i].of)]
  BY <1>0 DEF PlainMessages
<1>2. \A i \in 1 .. Len(rs) : Msg(rs[i].k, rs[i].id, rs[i].of) \in Messages
  <2> SUFFICES ASSUME NEW i \in 1 .. Len(rs) PROVE Msg(rs[i].k, rs[i].id, rs[i].of) \in Messages
    OBVIOUS
  <2>1. rs[i] \in MessageRecords
    BY <1>0 DEF LogRecords, BoundaryRecords
  <2>2. QED BY <2>1 DEF MessageRecords, Msg, Messages
<1>3. ms \in Seq(Messages) /\ DOMAIN ms = 1 .. Len(rs) /\ Len(ms) = Len(rs)
  <2>1. ms \in [1 .. Len(rs) -> Messages]
    BY <1>1, <1>2
  <2>2. QED BY <2>1, <1>0, LenProperties
<1>4. \A i \in 1 .. Len(rs) : ms[i].k = rs[i].k /\ ms[i].id = rs[i].id /\ ms[i].of = rs[i].of
  BY <1>1 DEF Msg
<1> HIDE DEF ms
<1>5. Answered(rs) => Answered(ms)
  BY <1>0, <1>3, <1>4 DEF Answered
<1>6. Placed(rs) => Placed(ms)
  BY <1>0, <1>3, <1>4 DEF Placed
<1>7. QED BY <1>3, <1>5, <1>6 DEF ms, Conversations

\* The summary at the head of what was compacted.
LEMMA CompactedPaired ==
    ASSUME NEW keep \in Conversations
    PROVE  /\ <<Summary>> \o keep \in Conversations
           /\ Answered(keep) => Answered(<<Summary>> \o keep)
           /\ Placed(keep) => Placed(<<Summary>> \o keep)
<1>1. <<Summary>> \in Conversations /\ Summary.k = "summary"
  BY DEF Summary, Msg, Conversations, Messages, MessageKinds
<1>2. Answered(<<Summary>>) /\ Placed(<<Summary>>)
  BY <1>1, AloneIsPaired
<1>3. QED BY <1>1, <1>2, ConcatProperties, JoinedPaired DEF Conversations

\* The records resume starts from.
FromBoundary(log) == SubSeq(log, LastBoundary(log), Len(log))
Later(log, n) == \A i \in DOMAIN log : i > n => log[i].k # "boundary"

LEMMA LastBoundaryIs ==
    ASSUME NEW log \in Logs
    PROVE  /\ LastBoundary(log) \in 1 .. Len(log) + 1
           /\ \/ LastBoundary(log) = 1
              \/ LastBoundary(log) <= Len(log) /\ log[LastBoundary(log)].k = "boundary"
           /\ Later(log, LastBoundary(log))
<1> DEFINE Firsts == {1} \cup {i \in DOMAIN log : log[i].k = "boundary"}
<1>0. Len(log) \in Nat /\ DOMAIN log = 1 .. Len(log)
  BY LenProperties DEF Logs
<1>1. \E n \in Firsts : \A m \in Firsts : m <= n
  <2> DEFINE Away == {d \in Nat : Len(log) + 1 - d \in Firsts}
  <2>1. Firsts \subseteq 1 .. Len(log) + 1 /\ 1 \in Firsts
    BY <1>0
  <2> HIDE DEF Firsts
  <2>2. Len(log) \in Away
    BY <2>1, <1>0
  <2>3. PICK d \in Away : \A e \in Away : d <= e
    <3>1. Away \subseteq Nat /\ Away # {}
      BY <2>2
    <3> HIDE DEF Away
    <3>2. QED BY <3>1, LeastNumber
  <2>4. Len(log) + 1 - d \in Firsts /\ d \in Nat
    OBVIOUS
  <2>5. ASSUME NEW m \in Firsts PROVE m <= Len(log) + 1 - d
    <3>1. m \in 1 .. Len(log) + 1
      BY <2>1
    <3>2. Len(log) + 1 - m \in Nat /\ Len(log) + 1 - (Len(log) + 1 - m) = m
      BY <3>1, <1>0
    <3>3. Len(log) + 1 - m \in Away
      BY <3>2
    <3>4. d <= Len(log) + 1 - m
      BY <3>3, <2>3
    <3>5. QED BY <3>1, <3>4, <2>4, <1>0
  <2>6. QED BY <2>4, <2>5
<1>2. LastBoundary(log) = CHOOSE n \in Firsts : \A m \in Firsts : m <= n
  BY DEF LastBoundary
<1>3. LastBoundary(log) \in Firsts /\ \A m \in Firsts : m <= LastBoundary(log)
  <2> HIDE DEF Firsts
  <2>1. QED BY <1>1, <1>2
<1>4. ASSUME NEW i \in DOMAIN log, i > LastBoundary(log) PROVE log[i].k # "boundary"
  <2>1. LastBoundary(log) \in Nat /\ i \in Nat
    BY <1>0, <1>3
  <2>2. i \notin Firsts
    <3> HIDE DEF Firsts
    <3>1. QED BY <2>1, <1>3, <1>4
  <2>3. QED BY <2>2
<1>5. QED BY <1>0, <1>3, <1>4 DEF Later

LEMMA LastBoundaryOnly ==
    ASSUME NEW log \in Logs, NEW n \in 1 .. Len(log) + 1, Later(log, n),
           n = 1 \/ (n <= Len(log) /\ log[n].k = "boundary")
    PROVE  LastBoundary(log) = n
<1>0. Len(log) \in Nat /\ DOMAIN log = 1 .. Len(log)
  BY LenProperties DEF Logs
<1>1. /\ LastBoundary(log) \in 1 .. Len(log) + 1 /\ Later(log, LastBoundary(log))
      /\ \/ LastBoundary(log) = 1
         \/ LastBoundary(log) <= Len(log) /\ log[LastBoundary(log)].k = "boundary"
  BY LastBoundaryIs
<1>2. QED BY <1>0, <1>1 DEF Later

\* What resume starts from: messages, after one boundary at most.
LEMMA FromBoundaryIs ==
    ASSUME NEW log \in Logs
    PROVE  /\ FromBoundary(log) \in Logs /\ Later(FromBoundary(log), 1)
           /\ Answered(log) => Answered(FromBoundary(log))
           /\ Placed(log) => Placed(FromBoundary(log))
<1> DEFINE n == LastBoundary(log)
           t == FromBoundary(log)
<1>0. Len(log) \in Nat /\ DOMAIN log = 1 .. Len(log)
  BY LenProperties DEF Logs
<1>1. /\ n \in 1 .. Len(log) + 1 /\ Later(log, n)
      /\ n = 1 \/ (n <= Len(log) /\ log[n].k = "boundary")
  BY LastBoundaryIs
<1> HIDE DEF n
<1>2. /\ t \in Logs
      /\ Len(t) = IF n <= Len(log) THEN Len(log) - n + 1 ELSE 0
      /\ \A i \in 1 .. Len(t) : t[i] = log[n + i - 1]
      /\ Answered(log) => Answered(t)
      /\ Placed(log) /\ (t # <<>> => t[1].k # "results") => Placed(t)
  <2>1. n \in Nat \ {0} /\ t = SubSeq(log, n, Len(log))
    BY <1>0, <1>1 DEF n, FromBoundary
  <2>2. QED BY <2>1, SuffixPaired DEF Logs
<1> HIDE DEF t
<1>3. Len(t) \in Nat /\ DOMAIN t = 1 .. Len(t)
  BY <1>2, LenProperties DEF Logs
<1>4. ASSUME NEW i \in DOMAIN t, i > 1 PROVE t[i].k # "boundary"
  <2>1. t[i] = log[n + i - 1] /\ n + i - 1 \in DOMAIN log /\ n + i - 1 > n
    BY <1>0, <1>1, <1>2, <1>3, <1>4
  <2>2. QED BY <2>1, <1>1 DEF Later
<1>5. ASSUME Placed(log) PROVE Placed(t)
  <2>1. CASE t = <<>>
    BY <2>1, <1>2, <1>5
  <2>2. CASE t # <<>>
    <3>1. 1 \in 1 .. Len(t) /\ t[1] = log[n]
      <4>1. 1 \in 1 .. Len(t)
        BY <2>2, <1>2, EmptySeq DEF Logs
      <4>2. n + 1 - 1 = n
        BY <1>0, <1>1
      <4>3. QED BY <4>1, <4>2, <1>2
    <3>2. n \in DOMAIN log /\ n \in Nat
      BY <1>0, <1>1, <1>2, <3>1
    <3>3. log[n].k # "results"
      <4>1. CASE n = 1
        <5>1. ~(n - 1 \in DOMAIN log)
          BY <4>1, <1>0
        <5>2. QED BY <5>1, <3>2, <1>5 DEF Placed
      <4>2. CASE log[n].k = "boundary"
        BY <4>2
      <4>3. QED BY <1>1, <4>1, <4>2
    <3>4. QED BY <3>1, <3>3, <1>2, <1>5
  <2>3. QED BY <2>1, <2>2
<1>6. QED BY <1>2, <1>4, <1>5 DEF t, Later

\* Appending messages leaves the boundary, and what stands behind it, alone.
LEMMA AppendedToLog ==
    ASSUME NEW log \in Logs, NEW rs \in Logs, \A i \in DOMAIN rs : rs[i].k # "boundary"
    PROVE  /\ log \o rs \in Logs
           /\ FromBoundary(log \o rs) = FromBoundary(log) \o rs
<1> DEFINE n == LastBoundary(log)
           c == log \o rs
<1>0. /\ Len(log) \in Nat /\ DOMAIN log = 1 .. Len(log)
      /\ Len(rs) \in Nat /\ DOMAIN rs = 1 .. Len(rs)
  BY LenProperties DEF Logs
<1>1. /\ n \in 1 .. Len(log) + 1 /\ Later(log, n)
      /\ n = 1 \/ (n <= Len(log) /\ log[n].k = "boundary")
  BY LastBoundaryIs
<1>2. /\ c \in Logs /\ Len(c) = Len(log) + Len(rs) /\ DOMAIN c = 1 .. Len(log) + Len(rs)
      /\ \A i \in 1 .. Len(log) + Len(rs) : c[i] = IF i <= Len(log) THEN log[i] ELSE rs[i - Len(log)]
  BY ConcatProperties, LenProperties DEF Logs
<1>3. FromBoundary(log) = SubSeq(log, n, Len(log)) /\ FromBoundary(c) = SubSeq(c, LastBoundary(c), Len(c))
  BY DEF FromBoundary
<1> HIDE DEF n, c
<1>4. LastBoundary(c) = n
  <2>1. Later(c, n)
    <3> SUFFICES ASSUME NEW i \in 1 .. Len(log) + Len(rs), i > n PROVE c[i].k # "boundary"
      BY <1>2 DEF Later
    <3>1. CASE i <= Len(log)
      <4>1. i \in DOMAIN log /\ c[i] = log[i]
        BY <3>1, <1>0, <1>2
      <4>2. QED BY <4>1, <1>1 DEF Later
    <3>2. CASE ~(i <= Len(log))
      <4>1. i - Len(log) \in DOMAIN rs /\ c[i] = rs[i - Len(log)]
        BY <3>2, <1>0, <1>2
      <4>2. QED BY <4>1
    <3>3. QED BY <3>1, <3>2
  <2>2. n \in 1 .. Len(c) + 1 /\ (n = 1 \/ (n <= Len(c) /\ c[n].k = "boundary"))
    BY <1>0, <1>1, <1>2
  <2>3. QED BY <2>1, <2>2, <1>2, LastBoundaryOnly
<1>5. n - 1 \in Nat /\ n - 1 <= Len(log) /\ n \in Nat \ {0}
  BY <1>0, <1>1
<1>6. /\ SubSeq(log, n, Len(log)) \in Logs
      /\ Len(SubSeq(log, n, Len(log))) = Len(log) - n + 1
      /\ \A i \in 1 .. Len(SubSeq(log, n, Len(log))) : SubSeq(log, n, Len(log))[i] = log[n + i - 1]
  BY <1>0, <1>5, SuffixPaired DEF Logs
<1>7. /\ SubSeq(c, n, Len(c)) \in Logs
      /\ Len(SubSeq(c, n, Len(c))) = Len(log) + Len(rs) - n + 1
      /\ \A i \in 1 .. Len(SubSeq(c, n, Len(c))) : SubSeq(c, n, Len(c))[i] = c[n + i - 1]
  <2>1. /\ Len(c) \in Nat
        /\ IF n <= Len(c) THEN Len(c) - n + 1 = Len(log) + Len(rs) - n + 1
                          ELSE 0 = Len(log) + Len(rs) - n + 1
    BY <1>0, <1>2, <1>5
  <2>2. QED BY <2>1, <1>2, <1>5, SuffixPaired DEF Logs
<1>8. SubSeq(c, n, Len(c)) = SubSeq(log, n, Len(log)) \o rs
  <2> DEFINE a == SubSeq(log, n, Len(log))
             b == SubSeq(c, n, Len(c))
  <2>1. /\ a \o rs \in Logs /\ Len(a \o rs) = Len(a) + Len(rs)
        /\ \A i \in 1 .. Len(a) + Len(rs) : (a \o rs)[i] = IF i <= Len(a) THEN a[i] ELSE rs[i - Len(a)]
    BY <1>6, ConcatProperties DEF Logs
  <2> HIDE DEF a, b
  <2>2. /\ Len(a) = Len(log) - n + 1 /\ Len(b) = Len(log) + Len(rs) - n + 1
        /\ \A i \in 1 .. Len(a) : a[i] = log[n + i - 1]
        /\ \A i \in 1 .. Len(b) : b[i] = c[n + i - 1]
    BY <1>6, <1>7 DEF a, b
  <2>3. ASSUME NEW i \in 1 .. Len(b) PROVE b[i] = (a \o rs)[i]
    <3>1. i \in 1 .. Len(a) + Len(rs) /\ n + i - 1 \in 1 .. Len(log) + Len(rs)
      BY <2>2, <1>0, <1>5
    <3>2. CASE i <= Len(a)
      <4>1. i \in 1 .. Len(a) /\ n + i - 1 <= Len(log)
        BY <3>1, <3>2, <2>2, <1>0, <1>5
      <4>2. b[i] = c[n + i - 1] /\ a[i] = log[n + i - 1] /\ (a \o rs)[i] = a[i]
        BY <3>1, <3>2, <4>1, <2>1, <2>2
      <4>3. PICK j \in 1 .. Len(log) + Len(rs) : j = n + i - 1
        BY <3>1
      <4>4. c[j] = log[j]
        BY <4>1, <4>3, <1>2
      <4> QED BY <4>2, <4>3, <4>4
    <3>3. CASE ~(i <= Len(a))
      <4>1. ~(n + i - 1 <= Len(log)) /\ n + i - 1 - Len(log) = i - Len(a)
        BY <3>1, <3>3, <2>2, <1>0, <1>5
      <4>2. c[n + i - 1] = rs[i - Len(a)]
        <5>1. PICK j \in 1 .. Len(log) + Len(rs) : j = n + i - 1
          BY <3>1
        <5>2. ~(j <= Len(log)) /\ j - Len(log) = i - Len(a)
          BY <5>1, <4>1, <1>0, <1>5, <2>2
        <5>3. c[j] = rs[j - Len(log)]
          BY <5>2, <1>2
        <5>4. QED BY <5>1, <5>2, <5>3
      <4>3. (a \o rs)[i] = rs[i - Len(a)]
        BY <3>1, <3>3, <2>1
      <4>4. QED BY <4>2, <4>3, <2>2
    <3>4. QED BY <3>2, <3>3
  <2>4. b \in Logs /\ Len(b) = Len(a \o rs)
    BY <1>7, <2>1, <2>2, <1>0, <1>5 DEF b
  <2>5. b = a \o rs
    BY <2>1, <2>3, <2>4, SeqEqual DEF Logs
  <2>6. QED BY <2>5 DEF a, b
<1>9. QED BY <1>2, <1>3, <1>4, <1>8 DEF c

LEMMA BoundaryWritten ==
    ASSUME NEW log \in Logs, NEW keep \in Conversations
    PROVE  /\ log \o <<Boundary(keep)>> \in Logs
           /\ FromBoundary(log \o <<Boundary(keep)>>) = <<Boundary(keep)>>
<1> DEFINE b == Boundary(keep)
           c == log \o <<b>>
<1>0. Len(log) \in Nat /\ DOMAIN log = 1 .. Len(log)
  BY LenProperties DEF Logs
<1>1. b \in LogRecords /\ b.k = "boundary"
  BY DEF Boundary, LogRecords, BoundaryRecords
<1> HIDE DEF b
<1>2. /\ c \in Logs /\ Len(c) = Len(log) + 1 /\ DOMAIN c = 1 .. Len(log) + 1
      /\ c[Len(log) + 1] = b
  <2>1. <<b>> \in Logs /\ Len(<<b>>) = 1 /\ <<b>>[1] = b
    BY <1>1 DEF Logs
  <2>2. /\ c \in Logs /\ Len(c) = Len(log) + 1
        /\ \A i \in 1 .. Len(log) + 1 : c[i] = IF i <= Len(log) THEN log[i] ELSE <<b>>[i - Len(log)]
    BY <2>1, ConcatProperties DEF Logs
  <2> HIDE DEF c
  <2>3. DOMAIN c = 1 .. Len(log) + 1
    BY <2>2, LenProperties DEF Logs
  <2>4. Len(log) + 1 \in 1 .. Len(log) + 1 /\ ~(Len(log) + 1 <= Len(log)) /\ Len(log) + 1 - Len(log) = 1
    BY <1>0
  <2>5. QED BY <2>1, <2>2, <2>3, <2>4
<1> HIDE DEF c
<1>3. LastBoundary(c) = Len(log) + 1
  <2>1. Later(c, Len(log) + 1)
    BY <1>0, <1>2 DEF Later
  <2>2. /\ Len(log) + 1 \in 1 .. Len(c) + 1
        /\ Len(log) + 1 <= Len(c) /\ c[Len(log) + 1].k = "boundary"
    BY <1>0, <1>1, <1>2
  <2>3. QED BY <2>1, <2>2, <1>2, LastBoundaryOnly
<1>4. FromBoundary(c) = <<b>>
  <2> DEFINE t == SubSeq(c, Len(log) + 1, Len(c))
  <2>1. /\ t \in Logs /\ Len(t) = 1 /\ t[1] = b
    <3>1. /\ Len(log) + 1 \in Nat \ {0} /\ Len(log) + 1 <= Len(c)
          /\ Len(c) - (Len(log) + 1) + 1 = 1 /\ (Len(log) + 1) + 1 - 1 = Len(log) + 1
          /\ 1 \in 1 .. 1
      BY <1>0, <1>2
    <3>2. /\ t \in Logs /\ Len(t) = 1
          /\ \A i \in 1 .. Len(t) : t[i] = c[(Len(log) + 1) + i - 1]
      BY <3>1, <1>2, SuffixPaired DEF Logs
    <3> HIDE DEF t
    <3>3. QED BY <3>1, <3>2, <1>2
  <2>2. t = <<t[1]>>
    <3> HIDE DEF t
    <3>1. QED BY <2>1, SeqEqual DEF Logs
  <2>3. QED BY <2>1, <2>2, <1>3 DEF FromBoundary
<1>5. QED BY <1>2, <1>4 DEF b, c

\* The conversation a log gives back.
LEMMA ReadBack ==
    ASSUME NEW rs \in Logs, Later(rs, 1)
    PROVE  /\ MessagesOf(rs) \in Conversations
           /\ Answered(rs) /\ (\A i \in DOMAIN rs : Answered(rs[i].keep)) => Answered(MessagesOf(rs))
           /\ Placed(rs) /\ (\A i \in DOMAIN rs : Placed(rs[i].keep)) => Placed(MessagesOf(rs))
<1>0. Len(rs) \in Nat /\ DOMAIN rs = 1 .. Len(rs) /\ \A i \in 1 .. Len(rs) : rs[i] \in LogRecords
  BY LenProperties, ElementOfSeq DEF Logs
<1>1. CASE rs # <<>> /\ rs[1].k = "boundary"
  <2> DEFINE keep == rs[1].keep
             rest == Tail(rs)
  <2>1. 1 \in DOMAIN rs
    BY <1>0, <1>1, EmptySeq DEF Logs
  <2>2. keep \in Conversations
    <3>1. rs[1] \in BoundaryRecords
      BY <1>0, <1>1, <2>1 DEF LogRecords, MessageRecords, MessageKinds
    <3>2. QED BY <3>1 DEF BoundaryRecords
  <2>3. rest \in Logs /\ rest = SubSeq(rs, 2, Len(rs)) /\ \A i \in DOMAIN rest : rest[i].k # "boundary"
    <3>1. /\ rest \in Logs /\ Len(rest) = Len(rs) - 1 /\ rest = SubSeq(rs, 2, Len(rs))
          /\ \A i \in 1 .. Len(rest) : rest[i] = rs[i + 1]
      BY <1>1, HeadTailProperties, TailIsSubSeq DEF Logs
    <3> HIDE DEF rest
    <3>2. DOMAIN rest = 1 .. Len(rest)
      BY <3>1, LenProperties DEF Logs
    <3>3. ASSUME NEW i \in DOMAIN rest PROVE rest[i].k # "boundary"
      <4>1. i + 1 \in DOMAIN rs /\ i + 1 > 1 /\ rest[i] = rs[i + 1]
        BY <3>1, <3>2, <1>0, <2>1
      <4>2. QED BY <4>1 DEF Later
    <3>4. QED BY <3>1, <3>3
  <2>4. MessagesOf(rs) = (<<Summary>> \o keep) \o PlainMessages(rest)
    <3>1. <<Summary>> \in Conversations
      BY DEF Summary, Msg, Conversations, Messages, MessageKinds
    <3>2. PlainMessages(rest) \in Conversations
      <4> HIDE DEF rest
      <4>1. QED BY <2>3, PlainKeeps
    <3>3. MessagesOf(rs) = <<Summary>> \o keep \o PlainMessages(rest)
      BY <1>1 DEF MessagesOf
    <3>4. QED BY <3>3
  <2> HIDE DEF keep, rest
  <2>5. PlainMessages(rest) \in Conversations /\ <<Summary>> \o keep \in Conversations
    BY <2>2, <2>3, PlainKeeps, CompactedPaired
  <2>6. MessagesOf(rs) \in Conversations
    BY <2>4, <2>5, ConcatProperties DEF Conversations
  <2>7. ASSUME Answered(rs), \A i \in DOMAIN rs : Answered(rs[i].keep) PROVE Answered(MessagesOf(rs))
    <3>1. Answered(<<Summary>> \o keep)
      BY <2>1, <2>2, <2>7, CompactedPaired DEF keep
    <3>2. Answered(rest)
      BY <2>3, <2>7, SuffixPaired DEF Logs
    <3>3. Answered(PlainMessages(rest))
      BY <3>2, <2>3, PlainKeeps
    <3>4. QED BY <3>1, <3>3, <2>4, <2>5, JoinedPaired DEF Conversations
  <2>8. ASSUME Placed(rs), \A i \in DOMAIN rs : Placed(rs[i].keep) PROVE Placed(MessagesOf(rs))
    <3>1. Placed(<<Summary>> \o keep)
      BY <2>1, <2>2, <2>8, CompactedPaired DEF keep
    <3>2. Placed(rest)
      <4>1. rest # <<>> => rest[1].k # "results"
        <5> SUFFICES ASSUME rest # <<>>, rest[1].k = "results" PROVE FALSE
          OBVIOUS
        <5>1. 2 \in DOMAIN rs /\ rest[1] = rs[2]
          <6>1. Len(rest) = Len(rs) - 1 /\ \A i \in 1 .. Len(rest) : rest[i] = rs[i + 1]
            BY <1>1, HeadTailProperties DEF Logs, rest
          <6>2. 1 \in 1 .. Len(rest)
            BY <2>3, EmptySeq DEF Logs
          <6>3. QED BY <6>1, <6>2, <1>0
        <5>2. rs[2 - 1].k = "calls"
          BY <5>1, <2>8 DEF Placed
        <5>3. QED BY <5>2, <1>1
      <4>2. QED BY <4>1, <2>3, <2>8, SuffixPaired DEF Logs
    <3>3. Placed(PlainMessages(rest))
      BY <3>2, <2>3, PlainKeeps
    <3>4. QED BY <3>1, <3>3, <2>4, <2>5, JoinedPaired DEF Conversations
  <2>9. QED BY <2>6, <2>7, <2>8
<1>2. CASE ~(rs # <<>> /\ rs[1].k = "boundary")
  <2>1. \A i \in DOMAIN rs : rs[i].k # "boundary"
    <3> SUFFICES ASSUME NEW i \in DOMAIN rs, rs[i].k = "boundary" PROVE FALSE
      OBVIOUS
    <3>1. rs # <<>>
      BY <1>0, EmptySeq
    <3>2. i > 1
      BY <3>1, <1>0, <1>2
    <3>3. QED BY <3>2 DEF Later
  <2>2. MessagesOf(rs) = PlainMessages(rs)
    BY <1>2 DEF MessagesOf
  <2>3. QED BY <2>1, <2>2, PlainKeeps
<1>3. QED BY <1>1, <1>2

LEMMA PlainMore ==
    ASSUME NEW rs \in Logs, \A i \in DOMAIN rs : rs[i].k # "boundary", NEW ms \in Conversations
    PROVE  PlainMessages(rs \o Records(ms)) = PlainMessages(rs) \o ms
<1> DEFINE new == Records(ms)
           c == rs \o new
           P == PlainMessages(rs)
           Q == PlainMessages(c)
<1>0. /\ Len(rs) \in Nat /\ DOMAIN rs = 1 .. Len(rs)
      /\ new \in Logs /\ Len(new) = Len(ms) /\ PlainMessages(new) = ms
      /\ \A i \in DOMAIN new : new[i].k # "boundary"
  BY LenProperties, RecordsKeep DEF Logs
<1>1. Len(new) \in Nat /\ DOMAIN new = 1 .. Len(new)
  BY <1>0, LenProperties DEF Logs
<1> HIDE DEF new
<1>2. /\ c \in Logs /\ Len(c) = Len(rs) + Len(new) /\ DOMAIN c = 1 .. Len(rs) + Len(new)
      /\ \A i \in 1 .. Len(rs) + Len(new) : c[i] = IF i <= Len(rs) THEN rs[i] ELSE new[i - Len(rs)]
  <2>1. /\ c \in Logs /\ Len(c) = Len(rs) + Len(new)
        /\ \A i \in 1 .. Len(rs) + Len(new) : c[i] = IF i <= Len(rs) THEN rs[i] ELSE new[i - Len(rs)]
    BY <1>0, ConcatProperties DEF Logs
  <2> HIDE DEF c
  <2>2. DOMAIN c = 1 .. Len(c)
    BY <2>1, LenProperties DEF Logs
  <2>3. QED BY <2>1, <2>2
<1> HIDE DEF c
<1>3. ASSUME NEW i \in DOMAIN c PROVE c[i].k # "boundary"
  <2>1. CASE i <= Len(rs)
    BY <2>1, <1>0, <1>2
  <2>2. CASE ~(i <= Len(rs))
    <3>1. i - Len(rs) \in DOMAIN new
      BY <2>2, <1>0, <1>1, <1>2
    <3>2. QED BY <3>1, <2>2, <1>0, <1>2
  <2>3. QED BY <2>1, <2>2
<1>4. P \in Conversations /\ Len(P) = Len(rs)
  BY PlainKeeps
<1>5. Q \in Conversations /\ Len(Q) = Len(rs) + Len(ms)
  BY <1>0, <1>2, <1>3, PlainKeeps
<1>6. /\ P \o ms \in Conversations /\ Len(P \o ms) = Len(rs) + Len(ms)
      /\ \A i \in 1 .. Len(rs) + Len(ms) : (P \o ms)[i] = IF i <= Len(rs) THEN P[i] ELSE ms[i - Len(rs)]
  <2> HIDE DEF P
  <2>1. /\ P \o ms \in Conversations /\ Len(P \o ms) = Len(P) + Len(ms)
        /\ \A i \in 1 .. Len(P) + Len(ms) : (P \o ms)[i] = IF i <= Len(P) THEN P[i] ELSE ms[i - Len(P)]
    BY <1>4, ConcatProperties DEF Conversations
  <2>2. QED BY <2>1, <1>4
<1>7. ASSUME NEW i \in 1 .. Len(rs) + Len(ms) PROVE Q[i] = (P \o ms)[i]
  <2>1. Q[i] = Msg(c[i].k, c[i].id, c[i].of)
    BY <1>0, <1>2 DEF PlainMessages
  <2>2. CASE i <= Len(rs)
    <3>1. P[i] = Msg(rs[i].k, rs[i].id, rs[i].of)
      BY <2>2, <1>0 DEF PlainMessages
    <3>2. QED BY <3>1, <2>1, <2>2, <1>0, <1>2, <1>6
  <2>3. CASE ~(i <= Len(rs))
    <3>1. i - Len(rs) \in DOMAIN new
      BY <2>3, <1>0, <1>1
    <3>2. PlainMessages(new)[i - Len(rs)] = Msg(new[i - Len(rs)].k, new[i - Len(rs)].id, new[i - Len(rs)].of)
      BY <3>1 DEF PlainMessages
    <3>3. c[i] = new[i - Len(rs)]
      BY <2>3, <1>0, <1>2
    <3>4. (P \o ms)[i] = ms[i - Len(rs)]
      BY <2>3, <1>6
    <3>5. QED BY <3>2, <3>3, <3>4, <2>1, <1>0
  <2>4. QED BY <2>2, <2>3
<1> HIDE DEF P, Q
<1>8. Q = P \o ms
  BY <1>5, <1>6, <1>7, SeqEqual DEF Conversations
<1>9. QED BY <1>8 DEF P, Q, c, new

LEMMA TailMore ==
    ASSUME NEW S, NEW a \in Seq(S), a # <<>>, NEW b \in Seq(S)
    PROVE  /\ a \o b # <<>> /\ (a \o b)[1] = a[1]
           /\ Tail(a \o b) = Tail(a) \o b
<1> DEFINE c == a \o b
<1>0. Len(a) \in Nat /\ Len(a) # 0 /\ Len(b) \in Nat
  BY EmptySeq, LenProperties
<1>1. /\ c \in Seq(S) /\ Len(c) = Len(a) + Len(b)
      /\ \A i \in 1 .. Len(a) + Len(b) : c[i] = IF i <= Len(a) THEN a[i] ELSE b[i - Len(a)]
  BY ConcatProperties
<1> HIDE DEF c
<1>2. c # <<>> /\ c[1] = a[1]
  <2>1. Len(c) # 0 /\ 1 \in 1 .. Len(a) + Len(b) /\ 1 <= Len(a)
    BY <1>0, <1>1
  <2>2. QED BY <2>1, <1>1, EmptySeq
<1>3. Tail(a) \in Seq(S) /\ Len(Tail(a)) = Len(a) - 1 /\ \A i \in 1 .. Len(Tail(a)) : Tail(a)[i] = a[i + 1]
  BY HeadTailProperties
<1>4. Tail(c) \in Seq(S) /\ Len(Tail(c)) = Len(c) - 1 /\ \A i \in 1 .. Len(Tail(c)) : Tail(c)[i] = c[i + 1]
  BY <1>1, <1>2, HeadTailProperties
<1> DEFINE t == Tail(a)
           u == Tail(c)
           v == t \o b
<1>5. t \in Seq(S) /\ Len(t) = Len(a) - 1 /\ \A i \in 1 .. Len(a) - 1 : t[i] = a[i + 1]
  BY <1>3
<1>6. u \in Seq(S) /\ Len(u) = Len(a) + Len(b) - 1 /\ \A i \in 1 .. Len(a) + Len(b) - 1 : u[i] = c[i + 1]
  BY <1>1, <1>4
<1> HIDE DEF t, u
<1>7. /\ v \in Seq(S) /\ Len(v) = Len(t) + Len(b)
      /\ \A i \in 1 .. Len(t) + Len(b) : v[i] = IF i <= Len(t) THEN t[i] ELSE b[i - Len(t)]
  BY <1>5, ConcatProperties
<1> HIDE DEF v
<1>8. ASSUME NEW i \in 1 .. Len(u) PROVE u[i] = v[i]
  <2>1. i + 1 \in 1 .. Len(a) + Len(b) /\ i \in 1 .. Len(t) + Len(b) /\ u[i] = c[i + 1]
    BY <1>0, <1>5, <1>6
  <2>2. CASE i <= Len(t)
    <3>1. i \in 1 .. Len(a) - 1 /\ i + 1 <= Len(a)
      BY <2>1, <2>2, <1>0, <1>5
    <3>2. c[i + 1] = a[i + 1]
      BY <2>1, <3>1, <1>1
    <3>3. v[i] = t[i]
      BY <2>1, <2>2, <1>7
    <3>4. QED BY <2>1, <3>1, <3>2, <3>3, <1>5
  <2>3. CASE ~(i <= Len(t))
    <3>1. ~(i + 1 <= Len(a)) /\ i + 1 - Len(a) = i - Len(t)
      BY <2>1, <2>3, <1>0, <1>5
    <3>2. c[i + 1] = b[i - Len(t)]
      BY <2>1, <3>1, <1>1
    <3>3. v[i] = b[i - Len(t)]
      BY <2>1, <2>3, <1>7
    <3>4. QED BY <2>1, <3>2, <3>3
  <2>4. QED BY <2>2, <2>3
<1>9. u = v
  <2>1. Len(u) = Len(v)
    BY <1>0, <1>5, <1>6, <1>7
  <2>2. QED BY <2>1, <1>6, <1>7, <1>8, SeqEqual
<1>10. QED BY <1>2, <1>9 DEF c, t, u, v

LEMMA NoBoundary ==
    ASSUME NEW rs \in Logs, Later(rs, 1)
    PROVE  IF rs # <<>> /\ rs[1].k = "boundary"
           THEN /\ rs[1].keep \in Conversations
                /\ Tail(rs) \in Logs /\ \A i \in DOMAIN Tail(rs) : Tail(rs)[i].k # "boundary"
           ELSE \A i \in DOMAIN rs : rs[i].k # "boundary"
<1>0. Len(rs) \in Nat /\ DOMAIN rs = 1 .. Len(rs) /\ \A i \in 1 .. Len(rs) : rs[i] \in LogRecords
  BY LenProperties, ElementOfSeq DEF Logs
<1>1. CASE rs # <<>> /\ rs[1].k = "boundary"
  <2>1. 1 \in DOMAIN rs
    BY <1>0, <1>1, EmptySeq DEF Logs
  <2>2. rs[1] \in BoundaryRecords
    BY <1>0, <1>1, <2>1 DEF LogRecords, MessageRecords, MessageKinds
  <2> DEFINE rest == Tail(rs)
  <2>3. /\ rest \in Logs /\ Len(rest) = Len(rs) - 1
        /\ \A i \in 1 .. Len(rest) : rest[i] = rs[i + 1]
    BY <1>1, HeadTailProperties DEF Logs
  <2> HIDE DEF rest
  <2>4. DOMAIN rest = 1 .. Len(rest)
    BY <2>3, LenProperties DEF Logs
  <2>5. ASSUME NEW i \in DOMAIN rest PROVE rest[i].k # "boundary"
    <3>1. i + 1 \in DOMAIN rs /\ i + 1 > 1 /\ rest[i] = rs[i + 1]
      BY <2>3, <2>4, <1>0, <2>1
    <3>2. QED BY <3>1 DEF Later
  <2>6. QED BY <1>1, <2>2, <2>3, <2>5 DEF BoundaryRecords, rest
<1>2. CASE ~(rs # <<>> /\ rs[1].k = "boundary")
  <2> SUFFICES ASSUME NEW i \in DOMAIN rs, rs[i].k = "boundary" PROVE FALSE
    BY <1>2
  <2>1. rs # <<>>
    BY <1>0, EmptySeq
  <2>2. i > 1
    BY <2>1, <1>0, <1>2
  <2>3. QED BY <2>2 DEF Later
<1>3. QED BY <1>1, <1>2

\* What is appended to a log is appended to what it gives back.
LEMMA ReadBackMore ==
    ASSUME NEW rs \in Logs, Later(rs, 1), NEW ms \in Conversations
    PROVE  MessagesOf(rs \o Records(ms)) = MessagesOf(rs) \o ms
<1> DEFINE new == Records(ms)
<1>0. /\ new \in Logs /\ PlainMessages(new) = ms /\ \A i \in DOMAIN new : new[i].k # "boundary"
      /\ Len(new) = Len(ms)
  BY RecordsKeep
<1> HIDE DEF new
<1>1. CASE rs # <<>> /\ rs[1].k = "boundary"
  <2> DEFINE rest == Tail(rs)
             head == <<Summary>> \o rs[1].keep
  <2>1. /\ rs[1].keep \in Conversations /\ rest \in Logs
        /\ \A i \in DOMAIN rest : rest[i].k # "boundary"
    BY <1>1, NoBoundary
  <2>2. rs \o new # <<>> /\ (rs \o new)[1] = rs[1] /\ Tail(rs \o new) = rest \o new
    BY <1>0, <1>1, TailMore DEF Logs
  <2>3. MessagesOf(rs \o new) = head \o PlainMessages(Tail(rs \o new))
    BY <2>2, <1>1 DEF MessagesOf
  <2>4. MessagesOf(rs) = head \o PlainMessages(rest)
    BY <1>1 DEF MessagesOf
  <2>5. head \in Conversations
    BY <2>1, CompactedPaired
  <2> HIDE DEF rest, head
  <2>6. PlainMessages(rest \o new) = PlainMessages(rest) \o ms
    BY <2>1, PlainMore DEF new
  <2>7. PlainMessages(rest) \in Conversations
    BY <2>1, PlainKeeps
  <2>8. head \o (PlainMessages(rest) \o ms) = (head \o PlainMessages(rest)) \o ms
    BY <2>5, <2>7, ConcatAssociative DEF Conversations
  <2>9. QED BY <2>2, <2>3, <2>4, <2>6, <2>8 DEF new
<1>2. CASE ~(rs # <<>> /\ rs[1].k = "boundary")
  <2>1. \A i \in DOMAIN rs : rs[i].k # "boundary"
    BY <1>2, NoBoundary
  <2>2. MessagesOf(rs) = PlainMessages(rs)
    BY <1>2 DEF MessagesOf
  <2>3. MessagesOf(rs \o new) = PlainMessages(rs \o new)
    <3>1. CASE rs = <<>>
      <4>1. rs \o new = new
        BY <3>1, <1>0, ConcatEmptySeq DEF Logs
      <4>2. new # <<>> => new[1].k # "boundary"
        BY <1>0, LenProperties, EmptySeq DEF Logs
      <4>3. QED BY <4>1, <4>2 DEF MessagesOf
    <3>2. CASE rs # <<>>
      <4>1. (rs \o new)[1] = rs[1]
        BY <3>2, <1>0, TailMore DEF Logs
      <4>2. QED BY <4>1, <3>2, <1>2 DEF MessagesOf
    <3>3. QED BY <3>1, <3>2
  <2>4. PlainMessages(rs \o new) = PlainMessages(rs) \o ms
    BY <2>1, PlainMore DEF new
  <2>5. QED BY <2>2, <2>3, <2>4 DEF new
<1>3. QED BY <1>1, <1>2

LEMMA ReadBackBoundary ==
    ASSUME NEW keep \in Conversations
    PROVE  MessagesOf(<<Boundary(keep)>>) = <<Summary>> \o keep
<1>1. <<Boundary(keep)>> # <<>> /\ <<Boundary(keep)>>[1] = Boundary(keep) /\ Tail(<<Boundary(keep)>>) = <<>>
  OBVIOUS
<1>2. Boundary(keep).k = "boundary" /\ Boundary(keep).keep = keep
  BY DEF Boundary
<1>3. PlainMessages(<<>>) = <<>>
  BY DEF PlainMessages
<1>4. MessagesOf(<<Boundary(keep)>>) = <<Summary>> \o keep \o <<>>
  BY <1>1, <1>2, <1>3 DEF MessagesOf
<1>5. <<Summary>> \o keep \in Conversations
  BY CompactedPaired
<1>6. QED BY <1>4, <1>5, ConcatEmptySeq DEF Conversations

LEMMA ValidCountIs == ASSUME NEW log \in Logs PROVE ValidCount(log) \in 0 .. Len(log)
<1> DEFINE Pending(n) == {log[i].id : i \in {j \in 1 .. n : log[j].k = "calls"}}
                            \ {log[i].of : i \in {j \in 1 .. n : log[j].k = "results"}}
           Valid == {n \in 0 .. Len(log) : Pending(n) = {}}
           Away == {d \in Nat : Len(log) - d \in Valid}
<1>1. Len(log) \in Nat
  BY LenProperties DEF Logs
<1>2. 0 \in Valid /\ Valid \subseteq 0 .. Len(log)
  BY <1>1
<1>3. ValidCount(log) = CHOOSE n \in Valid : \A k \in Valid : k <= n
  BY DEF ValidCount
<1> HIDE DEF Valid
<1>4. Away \subseteq Nat /\ Away # {}
  <2>1. Len(log) \in Away
    BY <1>1, <1>2
  <2>2. QED BY <2>1
<1>5. PICK d \in Away : \A e \in Away : d <= e
  <2> HIDE DEF Away
  <2>1. QED BY <1>4, LeastNumber
<1>6. \E n \in Valid : \A k \in Valid : k <= n
  <2>1. Len(log) - d \in Valid /\ d \in Nat
    OBVIOUS
  <2>2. ASSUME NEW k \in Valid PROVE k <= Len(log) - d
    <3>1. k \in 0 .. Len(log)
      BY <1>2
    <3>2. Len(log) - k \in Nat /\ Len(log) - (Len(log) - k) = k
      BY <3>1, <1>1
    <3>3. Len(log) - k \in Away
      BY <3>2
    <3>4. d <= Len(log) - k
      BY <3>3, <1>5
    <3>5. QED BY <3>1, <3>4, <2>1, <1>1
  <2>3. QED BY <2>1, <2>2
<1>7. QED BY <1>2, <1>3, <1>6

\* A log whose calls are all answered from its last boundary on is given back
\* whole from there.
LEMMA ResumedWhole ==
    ASSUME NEW log \in Logs, Answered(FromBoundary(log))
    PROVE  ResumeOf(log) = MessagesOf(FromBoundary(log))
<1> DEFINE t == FromBoundary(log)
           Pending(n) == {t[i].id : i \in {j \in 1 .. n : t[j].k = "calls"}}
                            \ {t[i].of : i \in {j \in 1 .. n : t[j].k = "results"}}
           Valid == {n \in 0 .. Len(t) : Pending(n) = {}}
<1>1. t \in Logs /\ Answered(t)
  BY FromBoundaryIs
<1>2. Len(t) \in Nat /\ DOMAIN t = 1 .. Len(t)
  BY <1>1, LenProperties DEF Logs
<1>3. ValidCount(t) = CHOOSE n \in Valid : \A k \in Valid : k <= n
  BY DEF ValidCount
<1>4. ResumeOf(log) = MessagesOf(SubSeq(t, 1, ValidCount(t)))
  BY DEF ResumeOf, FromBoundary
<1> HIDE DEF t
<1>5. Pending(Len(t)) = {}
  BY <1>1, <1>2 DEF Answered
<1>6. Len(t) \in Valid /\ \A k \in Valid : k \in Nat /\ k <= Len(t)
  BY <1>2, <1>5, SMTT(30)
<1> HIDE DEF Valid
<1>7. ValidCount(t) = Len(t)
  <2>1. \E n \in Valid : \A k \in Valid : k <= n
    BY <1>6
  <2>2. ValidCount(t) \in Valid /\ \A k \in Valid : k <= ValidCount(t)
    BY <2>1, <1>3
  <2>3. QED BY <2>2, <1>6, <1>2
<1>8. SubSeq(t, 1, Len(t)) = t
  BY <1>1, SubSeqFull DEF Logs
<1>9. QED BY <1>4, <1>7, <1>8 DEF t

LEMMA NumbersOfParts ==
    ASSUME NEW a \in Conversations, NEW b \in Conversations
    PROVE  Numbers(a \o b) = Numbers(a) \cup Numbers(b)
<1>0. /\ Len(a) \in Nat /\ DOMAIN a = 1 .. Len(a)
      /\ Len(b) \in Nat /\ DOMAIN b = 1 .. Len(b)
  BY LenProperties DEF Conversations
<1> DEFINE c == a \o b
<1>1. /\ DOMAIN c = 1 .. Len(a) + Len(b)
      /\ \A i \in 1 .. Len(a) + Len(b) : c[i] = IF i <= Len(a) THEN a[i] ELSE b[i - Len(a)]
  BY ConcatProperties, LenProperties DEF Conversations
<1> HIDE DEF c
<1>2. \A i \in DOMAIN a : i \in DOMAIN c /\ c[i] = a[i]
  BY <1>0, <1>1
<1>3. ASSUME NEW i \in DOMAIN b PROVE \E j \in DOMAIN c : c[j] = b[i]
  <2>1. /\ i + Len(a) \in 1 .. Len(a) + Len(b) /\ ~(i + Len(a) <= Len(a))
        /\ (i + Len(a)) - Len(a) = i
    BY <1>0
  <2>2. c[i + Len(a)] = b[i]
    BY <2>1, <1>1
  <2>3. QED BY <2>1, <2>2, <1>1
<1>4. ASSUME NEW j \in DOMAIN c
      PROVE  (\E i \in DOMAIN a : c[j] = a[i]) \/ (\E i \in DOMAIN b : c[j] = b[i])
  <2>1. CASE j <= Len(a)
    BY <2>1, <1>0, <1>1
  <2>2. CASE ~(j <= Len(a))
    <3>1. j - Len(a) \in DOMAIN b
      BY <2>2, <1>0, <1>1
    <3>2. QED BY <3>1, <2>2, <1>1
  <2>3. QED BY <2>1, <2>2
<1>5. {c[i].id : i \in DOMAIN c} = {a[i].id : i \in DOMAIN a} \cup {b[i].id : i \in DOMAIN b}
  BY <1>2, <1>3, <1>4
<1>6. QED BY <1>5 DEF Numbers, c

LEMMA SummaryHasNoNumber ==
    ASSUME NEW keep \in Conversations
    PROVE  Numbers(<<Summary>> \o keep) = Numbers(keep)
<1>1. <<Summary>> \in Conversations
  BY DEF Summary, Msg, Conversations, Messages, MessageKinds
<1>2. Numbers(<<Summary>>) = {}
  BY DEF Numbers, Summary, Msg
<1>3. Numbers(<<Summary>> \o keep) = Numbers(<<Summary>>) \cup Numbers(keep)
  BY <1>1, NumbersOfParts
<1>4. QED BY <1>2, <1>3

-----------------------------------------------------------------------------
(* Every step of the user interface keeps the pairing. *)

PlacedLog(log) == Placed(log) /\ \A i \in DOMAIN log : Placed(log[i].keep)
KeepsAnswered(log) == \A i \in DOMAIN log : Answered(log[i].keep)
AnsweredLog(log) == Answered(FromBoundary(log)) /\ KeepsAnswered(log)
Retained(log) == Numbers(MessagesOf(FromBoundary(log)))

\* A log that was to keep the messages `kept`: all its calls are answered from
\* the last boundary on, or one is not and resume stops before it.
OpenLog(log, call, kept) ==
    \E a \in Logs, r \in MessageRecords, b \in Seq(MessageRecords) :
        /\ log = a \o (<<r>> \o b) /\ r.k = "calls" /\ r.id = call
        /\ AnsweredLog(a)
        /\ kept \subseteq Retained(a) \cup {b[i].id : i \in DOMAIN b}
SoundLog(log, call, kept) ==
    IF call = 0 THEN AnsweredLog(log) /\ kept \subseteq Retained(log)
                ELSE OpenLog(log, call, kept)

\* Every result is one of G: in a conversation and in a log.
Only(ms, G) == \A i \in DOMAIN ms : ms[i].k = "results" => ms[i].of \in G
OnlyLog(log, G) == Only(log, G) /\ \A i \in DOMAIN log : Only(log[i].keep, G)

LEMMA PartsOfJoined ==
    ASSUME NEW S, NEW a \in Seq(S), NEW b \in Seq(S)
    PROVE  /\ a \o b \in Seq(S) /\ Len(a \o b) = Len(a) + Len(b)
           /\ \A i \in DOMAIN a : i \in DOMAIN (a \o b) /\ (a \o b)[i] = a[i]
           /\ \A i \in DOMAIN b : Len(a) + i \in DOMAIN (a \o b) /\ (a \o b)[Len(a) + i] = b[i]
           /\ \A i \in DOMAIN (a \o b) :
                 \/ i \in DOMAIN a /\ (a \o b)[i] = a[i]
                 \/ i - Len(a) \in DOMAIN b /\ (a \o b)[i] = b[i - Len(a)]
<1>0. /\ Len(a) \in Nat /\ DOMAIN a = 1 .. Len(a)
      /\ Len(b) \in Nat /\ DOMAIN b = 1 .. Len(b)
  BY LenProperties
<1> DEFINE c == a \o b
<1>1. /\ c \in Seq(S) /\ Len(c) = Len(a) + Len(b) /\ DOMAIN c = 1 .. Len(a) + Len(b)
      /\ \A i \in 1 .. Len(a) + Len(b) : c[i] = IF i <= Len(a) THEN a[i] ELSE b[i - Len(a)]
  BY ConcatProperties, LenProperties
<1> HIDE DEF c
<1>2. \A i \in DOMAIN a : i \in DOMAIN c /\ c[i] = a[i]
  BY <1>0, <1>1
<1>3. ASSUME NEW i \in DOMAIN b PROVE Len(a) + i \in DOMAIN c /\ c[Len(a) + i] = b[i]
  <2>1. /\ Len(a) + i \in 1 .. Len(a) + Len(b) /\ ~(Len(a) + i <= Len(a))
        /\ (Len(a) + i) - Len(a) = i
    BY <1>0
  <2>2. QED BY <2>1, <1>1
<1>4. ASSUME NEW i \in DOMAIN c
      PROVE  (i \in DOMAIN a /\ c[i] = a[i]) \/ (i - Len(a) \in DOMAIN b /\ c[i] = b[i - Len(a)])
  BY <1>0, <1>1
<1>5. QED BY <1>1, <1>2, <1>3, <1>4 DEF c

LEMMA OnlyInJoined ==
    ASSUME NEW S, NEW a \in Seq(S), NEW b \in Seq(S), NEW G, Only(a, G), Only(b, G)
    PROVE  Only(a \o b, G)
<1> DEFINE c == a \o b
<1>1. \A i \in DOMAIN c : (i \in DOMAIN a /\ c[i] = a[i]) \/ (i - Len(a) \in DOMAIN b /\ c[i] = b[i - Len(a)])
  BY PartsOfJoined
<1> HIDE DEF c
<1>2. Only(c, G)
  BY <1>1 DEF Only
<1>3. QED BY <1>2 DEF c

LEMMA OnlyAmongMore ==
    ASSUME NEW ms, NEW G, NEW H, Only(ms, G), G \subseteq H
    PROVE  Only(ms, H)
  BY DEF Only

LEMMA OnlyInPart ==
    ASSUME NEW S, NEW ms \in Seq(S), NEW m \in Nat \ {0}, NEW n \in 0 .. Len(ms), NEW G, Only(ms, G)
    PROVE  Only(SubSeq(ms, 1, n), G) /\ Only(SubSeq(ms, m, Len(ms)), G)
<1>0. Len(ms) \in Nat /\ DOMAIN ms = 1 .. Len(ms)
  BY LenProperties
<1>1. Only(SubSeq(ms, 1, n), G)
  <2> DEFINE p == SubSeq(ms, 1, n)
  <2>1. p \in Seq(S) /\ Len(p) = n /\ \A i \in 1 .. n : p[i] = ms[i]
    BY PrefixPaired
  <2> HIDE DEF p
  <2>2. DOMAIN p = 1 .. n
    BY <2>1, LenProperties
  <2>3. Only(p, G)
    BY <2>1, <2>2, <1>0 DEF Only
  <2>4. QED BY <2>3 DEF p
<1>2. Only(SubSeq(ms, m, Len(ms)), G)
  <2> DEFINE t == SubSeq(ms, m, Len(ms))
  <2>1. /\ t \in Seq(S) /\ Len(t) = IF m <= Len(ms) THEN Len(ms) - m + 1 ELSE 0
        /\ \A i \in 1 .. Len(t) : t[i] = ms[m + i - 1]
    BY SuffixPaired
  <2> HIDE DEF t
  <2>2. DOMAIN t = 1 .. Len(t) /\ Len(t) \in Nat
    BY <2>1, LenProperties
  <2>3. ASSUME NEW i \in 1 .. Len(t) PROVE m + i - 1 \in DOMAIN ms /\ t[i] = ms[m + i - 1]
    <3>1. i \in Nat /\ i >= 1 /\ i <= Len(t) /\ m <= Len(ms) /\ Len(t) = Len(ms) - m + 1
      BY <2>1, <2>2, <1>0
    <3>2. QED BY <3>1, <2>1, <1>0
  <2>4. Only(t, G)
    BY <2>2, <2>3 DEF Only
  <2>5. QED BY <2>4 DEF t
<1>3. QED BY <1>1, <1>2

\* What a log gives back answers what the log answers.
LEMMA OnlyReadBack ==
    ASSUME NEW rs \in Logs, Later(rs, 1), NEW G, OnlyLog(rs, G)
    PROVE  Only(MessagesOf(rs), G)
<1>1. ASSUME NEW ts \in Logs, Only(ts, G) PROVE Only(PlainMessages(ts), G)
  <2> DEFINE ms == PlainMessages(ts)
  <2>1. DOMAIN ms = DOMAIN ts /\ \A i \in DOMAIN ts : ms[i].k = ts[i].k /\ ms[i].of = ts[i].of
    BY DEF PlainMessages, Msg
  <2> HIDE DEF ms
  <2>2. Only(ms, G)
    BY <2>1, <1>1 DEF Only
  <2>3. QED BY <2>2 DEF ms
<1>2. CASE rs # <<>> /\ rs[1].k = "boundary"
  <2> DEFINE rest == Tail(rs)
             keep == rs[1].keep
  <2>1. keep \in Conversations /\ rest \in Logs /\ \A i \in DOMAIN rest : rest[i].k # "boundary"
    BY <1>2, NoBoundary
  <2>2. 1 \in DOMAIN rs /\ rest = SubSeq(rs, 2, Len(rs)) /\ 2 \in Nat \ {0} /\ 0 \in 0 .. Len(rs)
    BY <1>2, LenProperties, EmptySeq, TailIsSubSeq DEF Logs
  <2>3. Only(keep, G)
    BY <2>2 DEF OnlyLog
  <2>4. Only(rest, G)
    BY <2>2, OnlyInPart DEF OnlyLog, Logs
  <2>5. MessagesOf(rs) = (<<Summary>> \o keep) \o PlainMessages(rest)
    <3>1. MessagesOf(rs) = <<Summary>> \o keep \o PlainMessages(rest)
      BY <1>2 DEF MessagesOf
    <3>2. QED BY <3>1
  <2> HIDE DEF rest, keep
  <2>6. <<Summary>> \in Conversations /\ Only(<<Summary>>, G)
    BY DEF Summary, Msg, Conversations, Messages, MessageKinds, Only
  <2>7. Only(<<Summary>> \o keep, G) /\ <<Summary>> \o keep \in Conversations
    BY <2>1, <2>3, <2>6, OnlyInJoined, CompactedPaired DEF Conversations
  <2>8. Only(PlainMessages(rest), G) /\ PlainMessages(rest) \in Conversations
    BY <2>1, <2>4, <1>1, PlainKeeps
  <2>9. QED BY <2>5, <2>7, <2>8, OnlyInJoined DEF Conversations
<1>3. CASE ~(rs # <<>> /\ rs[1].k = "boundary")
  <2>1. MessagesOf(rs) = PlainMessages(rs)
    BY <1>3 DEF MessagesOf
  <2>2. QED BY <2>1, <1>1 DEF OnlyLog
<1>4. QED BY <1>2, <1>3

\* The records from the last boundary on, and the first of them, are the log's.
LEMMA PartOfLog ==
    ASSUME NEW log \in Logs, NEW n \in 0 .. Len(FromBoundary(log))
    PROVE  LET p == SubSeq(FromBoundary(log), 1, n)
           IN /\ p \in Logs /\ Later(p, 1) /\ (Placed(log) => Placed(p))
              /\ \A i \in DOMAIN p : \E j \in DOMAIN log : p[i] = log[j]
<1> DEFINE t == FromBoundary(log)
           p == SubSeq(t, 1, n)
<1>1. t \in Logs /\ Later(t, 1) /\ (Placed(log) => Placed(t))
  BY FromBoundaryIs
<1>2. \A i \in 1 .. Len(t) : \E j \in DOMAIN log : t[i] = log[j]
  <2>1. Len(log) \in Nat /\ DOMAIN log = 1 .. Len(log) /\ Len(t) \in Nat
    BY <1>1, LenProperties DEF Logs
  <2>2. LastBoundary(log) \in 1 .. Len(log) + 1
    BY LastBoundaryIs
  <2>3. LastBoundary(log) \in Nat \ {0}
    BY <2>1, <2>2
  <2>4. /\ Len(t) = IF LastBoundary(log) <= Len(log) THEN Len(log) - LastBoundary(log) + 1 ELSE 0
        /\ \A i \in 1 .. Len(t) : t[i] = log[LastBoundary(log) + i - 1]
    BY <2>3, SuffixPaired DEF Logs, FromBoundary
  <2> HIDE DEF t
  <2>5. ASSUME NEW i \in 1 .. Len(t) PROVE \E j \in DOMAIN log : t[i] = log[j]
    <3>1. LastBoundary(log) + i - 1 \in 1 .. Len(log)
      BY <2>1, <2>3, <2>4
    <3>2. QED BY <3>1, <2>1, <2>4
  <2>6. QED BY <2>5
<1> HIDE DEF t
<1>3. n \in 0 .. Len(t) /\ Len(t) \in Nat /\ DOMAIN t = 1 .. Len(t)
  BY <1>1, LenProperties DEF t, Logs
<1>4. p \in Logs /\ Len(p) = n /\ (\A i \in 1 .. n : p[i] = t[i]) /\ (Placed(t) => Placed(p))
  BY <1>1, <1>3, PrefixPaired DEF Logs
<1> HIDE DEF p
<1>5. DOMAIN p = 1 .. n
  BY <1>4, LenProperties DEF Logs
<1>6. Later(p, 1)
  BY <1>1, <1>3, <1>4, <1>5 DEF Later
<1>7. \A i \in DOMAIN p : \E j \in DOMAIN log : p[i] = log[j]
  <2> SUFFICES ASSUME NEW i \in DOMAIN p PROVE \E j \in DOMAIN log : p[i] = log[j]
    OBVIOUS
  <2>1. i \in 1 .. n /\ i \in 1 .. Len(t) /\ p[i] = t[i]
    BY <1>3, <1>4, <1>5
  <2>2. QED BY <2>1, <1>2
<1>8. QED BY <1>1, <1>4, <1>6, <1>7 DEF p, t

\* What resume gives back, whatever was cut.
LEMMA ResumedTyped ==
    ASSUME NEW log \in Logs
    PROVE  /\ ResumeOf(log) \in Conversations
           /\ PlacedLog(log) => Placed(ResumeOf(log))
           /\ \A G : OnlyLog(log, G) => Only(ResumeOf(log), G)
<1> DEFINE p == SubSeq(FromBoundary(log), 1, ValidCount(FromBoundary(log)))
<1>1. ValidCount(FromBoundary(log)) \in 0 .. Len(FromBoundary(log))
  BY FromBoundaryIs, ValidCountIs
<1>2. ResumeOf(log) = MessagesOf(p)
  BY DEF ResumeOf, FromBoundary
<1>3. /\ p \in Logs /\ Later(p, 1) /\ (Placed(log) => Placed(p))
      /\ \A i \in DOMAIN p : \E j \in DOMAIN log : p[i] = log[j]
  BY <1>1, PartOfLog
<1> HIDE DEF p
<1>4. PlacedLog(log) => Placed(p) /\ \A i \in DOMAIN p : Placed(p[i].keep)
  BY <1>3 DEF PlacedLog
<1>5. ASSUME NEW G, OnlyLog(log, G) PROVE OnlyLog(p, G)
  BY <1>3, <1>5 DEF OnlyLog, Only
<1>6. QED BY <1>2, <1>3, <1>4, <1>5, ReadBack, OnlyReadBack

LEMMA OneRecord ==
    ASSUME NEW m \in Messages
    PROVE  <<m>> \in Conversations /\ <<Record(m)>> = Records(<<m>>)
  BY DEF Records, Conversations

LEMMA KeepsOfJoined ==
    ASSUME NEW a \in Logs, NEW b \in Logs
    PROVE  /\ KeepsAnswered(a) /\ KeepsAnswered(b) <=> KeepsAnswered(a \o b)
           /\ PlacedLog(a) /\ PlacedLog(b) => PlacedLog(a \o b)
           /\ \A G : OnlyLog(a, G) /\ OnlyLog(b, G) <=> OnlyLog(a \o b, G)
<1> DEFINE c == a \o b
<1>1. /\ \A i \in DOMAIN a : i \in DOMAIN c /\ c[i] = a[i]
      /\ \A i \in DOMAIN b : Len(a) + i \in DOMAIN c /\ c[Len(a) + i] = b[i]
      /\ \A i \in DOMAIN c :
            \/ i \in DOMAIN a /\ c[i] = a[i]
            \/ i - Len(a) \in DOMAIN b /\ c[i] = b[i - Len(a)]
  BY PartsOfJoined DEF Logs
<1>2. Placed(a) /\ Placed(b) => Placed(c)
  BY JoinedPaired DEF Logs
<1> HIDE DEF c
<1>3. KeepsAnswered(a) /\ KeepsAnswered(b) <=> KeepsAnswered(c)
  <2>1. ASSUME KeepsAnswered(a), KeepsAnswered(b) PROVE KeepsAnswered(c)
    BY <2>1, <1>1 DEF KeepsAnswered
  <2>2. ASSUME KeepsAnswered(c) PROVE KeepsAnswered(a)
    BY <2>2, <1>1 DEF KeepsAnswered
  <2>3. ASSUME KeepsAnswered(c) PROVE KeepsAnswered(b)
    BY <2>3, <1>1 DEF KeepsAnswered
  <2>4. QED BY <2>1, <2>2, <2>3
<1>4. PlacedLog(a) /\ PlacedLog(b) => PlacedLog(c)
  BY <1>1, <1>2 DEF PlacedLog
<1>5. ASSUME NEW G PROVE OnlyLog(a, G) /\ OnlyLog(b, G) <=> OnlyLog(c, G)
  <2>1. ASSUME OnlyLog(a, G), OnlyLog(b, G) PROVE OnlyLog(c, G)
    BY <2>1, <1>1 DEF OnlyLog, Only
  <2>2. ASSUME OnlyLog(c, G) PROVE OnlyLog(a, G)
    BY <2>2, <1>1 DEF OnlyLog, Only
  <2>3. ASSUME OnlyLog(c, G) PROVE OnlyLog(b, G)
    BY <2>3, <1>1 DEF OnlyLog, Only
  <2>4. QED BY <2>1, <2>2, <2>3
<1>6. QED BY <1>3, <1>4, <1>5 DEF c

\* The records of messages keep nothing inside.
LEMMA PlainRecords ==
    ASSUME NEW rs \in Seq(MessageRecords)
    PROVE  /\ rs \in Logs /\ KeepsAnswered(rs)
           /\ \A i \in DOMAIN rs : rs[i].k # "boundary" /\ rs[i].keep = <<>>
           /\ Placed(rs) => PlacedLog(rs)
           /\ \A G : Only(rs, G) => OnlyLog(rs, G)
<1>1. rs \in Logs
  BY SeqMonotonic DEF Logs, LogRecords
<1>2. \A i \in DOMAIN rs : rs[i] \in MessageRecords
  BY LenProperties, ElementOfSeq
<1>3. \A i \in DOMAIN rs : rs[i].k # "boundary" /\ rs[i].keep = <<>>
  BY <1>2 DEF MessageRecords, MessageKinds
<1>4. \A G : Only(<<>>, G)
  BY DEF Only
<1>5. QED BY <1>1, <1>3, <1>4, NothingIsPaired DEF KeepsAnswered, PlacedLog, OnlyLog

LEMMA MessagesLogged ==
    ASSUME NEW log \in Logs, NEW ms \in Conversations
    PROVE  LET new == log \o Records(ms)
           IN /\ new \in Logs
              /\ AnsweredLog(log) /\ Answered(ms) => AnsweredLog(new)
              /\ PlacedLog(log) /\ Placed(ms) => PlacedLog(new)
              /\ \A G : OnlyLog(log, G) /\ Only(ms, G) => OnlyLog(new, G)
              /\ Retained(new) = Retained(log) \cup Numbers(ms)
<1> DEFINE rs == Records(ms)
           new == log \o rs
<1>1. /\ rs \in Logs /\ rs \in Seq(MessageRecords) /\ Len(rs) = Len(ms)
      /\ Answered(ms) => Answered(rs)
      /\ Placed(ms) => Placed(rs)
      /\ \A i \in DOMAIN rs : rs[i].k # "boundary"
  BY RecordsKeep
<1>2. \A G : Only(ms, G) => Only(rs, G)
  BY DEF Only, Records, Record
<1> HIDE DEF rs
<1>3. KeepsAnswered(rs) /\ (Placed(rs) => PlacedLog(rs)) /\ \A G : Only(rs, G) => OnlyLog(rs, G)
  BY <1>1, PlainRecords
<1>4. new \in Logs /\ FromBoundary(new) = FromBoundary(log) \o rs
  BY <1>1, AppendedToLog
<1>5. /\ KeepsAnswered(log) => KeepsAnswered(new)
      /\ PlacedLog(log) /\ PlacedLog(rs) => PlacedLog(new)
      /\ \A G : OnlyLog(log, G) /\ OnlyLog(rs, G) => OnlyLog(new, G)
  BY <1>1, <1>3, KeepsOfJoined
<1> HIDE DEF new
<1>6. FromBoundary(log) \in Logs /\ Later(FromBoundary(log), 1)
  BY FromBoundaryIs
<1>7. Answered(FromBoundary(log)) /\ Answered(rs) => Answered(FromBoundary(new))
  BY <1>1, <1>4, <1>6, JoinedPaired DEF Logs
<1>8. Retained(new) = Retained(log) \cup Numbers(ms)
  <2>1. MessagesOf(FromBoundary(new)) = MessagesOf(FromBoundary(log)) \o ms
    BY <1>4, <1>6, ReadBackMore DEF rs
  <2>2. MessagesOf(FromBoundary(log)) \in Conversations
    BY <1>6, ReadBack
  <2>3. QED BY <2>1, <2>2, NumbersOfParts DEF Retained
<1>9. AnsweredLog(log) /\ Answered(ms) => AnsweredLog(new)
  BY <1>1, <1>5, <1>7 DEF AnsweredLog
<1>10. PlacedLog(log) /\ Placed(ms) => PlacedLog(new)
  BY <1>1, <1>3, <1>5
<1>11. \A G : OnlyLog(log, G) /\ Only(ms, G) => OnlyLog(new, G)
  BY <1>2, <1>3, <1>5
<1>12. QED BY <1>4, <1>8, <1>9, <1>10, <1>11 DEF new, rs

LEMMA SoundKeeps ==
    ASSUME NEW log \in Logs, NEW call, NEW kept, SoundLog(log, call, kept)
    PROVE  KeepsAnswered(log)
<1>1. CASE call = 0
  BY <1>1 DEF SoundLog, AnsweredLog
<1>2. CASE call # 0
  <2>1. PICK a \in Logs, r \in MessageRecords, b \in Seq(MessageRecords) :
          log = a \o (<<r>> \o b) /\ AnsweredLog(a)
    BY <1>2 DEF SoundLog, OpenLog
  <2>2. <<r>> \o b \in Seq(MessageRecords)
    BY ConcatProperties
  <2>3. <<r>> \o b \in Logs /\ KeepsAnswered(<<r>> \o b)
    BY <2>2, PlainRecords
  <2>4. QED BY <2>1, <2>3, KeepsOfJoined DEF AnsweredLog
<1>3. QED BY <1>1, <1>2

LEMMA SoundLess ==
    ASSUME NEW log, NEW call, NEW kept, NEW less, SoundLog(log, call, kept), less \subseteq kept
    PROVE  SoundLog(log, call, less)
  BY DEF SoundLog, OpenLog

\* Messages appended to a log: it keeps them too, in its conversation or behind
\* the call that is not answered.
LEMMA SoundMore ==
    ASSUME NEW log \in Logs, NEW ms \in Conversations, NEW call, NEW kept,
           SoundLog(log, call, kept), Answered(ms) \/ call # 0
    PROVE  SoundLog(log \o Records(ms), call, kept \cup Numbers(ms))
<1>1. CASE call = 0
  <2>1. AnsweredLog(log) /\ Answered(ms) /\ kept \subseteq Retained(log)
    BY <1>1 DEF SoundLog
  <2>2. AnsweredLog(log \o Records(ms)) /\ Retained(log \o Records(ms)) = Retained(log) \cup Numbers(ms)
    BY <2>1, MessagesLogged
  <2>3. QED BY <1>1, <2>1, <2>2 DEF SoundLog
<1>2. CASE call # 0
  <2> DEFINE rs == Records(ms)
  <2>1. PICK a \in Logs, r \in MessageRecords, b \in Seq(MessageRecords) :
          /\ log = a \o (<<r>> \o b) /\ r.k = "calls" /\ r.id = call
          /\ AnsweredLog(a)
          /\ kept \subseteq Retained(a) \cup {b[i].id : i \in DOMAIN b}
    BY <1>2 DEF SoundLog, OpenLog
  <2>2. rs \in Seq(MessageRecords) /\ rs \in Logs
    BY RecordsKeep
  <2>3. Numbers(ms) \subseteq {rs[i].id : i \in DOMAIN rs}
    <3>1. DOMAIN rs = DOMAIN ms /\ \A i \in DOMAIN ms : rs[i].id = ms[i].id
      BY DEF Records, Record
    <3> HIDE DEF rs
    <3>2. QED BY <3>1 DEF Numbers
  <2> HIDE DEF rs
  <2>4. <<r>> \in Seq(MessageRecords) /\ b \o rs \in Seq(MessageRecords) /\ <<r>> \o b \in Seq(MessageRecords)
    BY <2>2, ConcatProperties
  <2>5. log \o rs = a \o (<<r>> \o (b \o rs))
    <3>1. <<r>> \in Logs /\ b \in Logs /\ rs \in Logs /\ <<r>> \o b \in Logs
      BY <2>2, <2>4, PlainRecords
    <3>2. (a \o (<<r>> \o b)) \o rs = a \o ((<<r>> \o b) \o rs)
      BY <3>1, ConcatAssociative DEF Logs
    <3>3. (<<r>> \o b) \o rs = <<r>> \o (b \o rs)
      BY <3>1, ConcatAssociative DEF Logs
    <3>4. QED BY <2>1, <3>2, <3>3
  <2>6. {b[i].id : i \in DOMAIN b} \cup {rs[i].id : i \in DOMAIN rs} \subseteq
          {(b \o rs)[i].id : i \in DOMAIN (b \o rs)}
    <3> DEFINE c == b \o rs
    <3>1. /\ \A i \in DOMAIN b : i \in DOMAIN c /\ c[i] = b[i]
          /\ \A i \in DOMAIN rs : Len(b) + i \in DOMAIN c /\ c[Len(b) + i] = rs[i]
      BY <2>2, PartsOfJoined
    <3> HIDE DEF c
    <3>2. {b[i].id : i \in DOMAIN b} \subseteq {c[i].id : i \in DOMAIN c}
      BY <3>1
    <3>3. {rs[i].id : i \in DOMAIN rs} \subseteq {c[i].id : i \in DOMAIN c}
      BY <3>1
    <3>4. QED BY <3>2, <3>3 DEF c
  <2>7. kept \cup Numbers(ms) \subseteq Retained(a) \cup {(b \o rs)[i].id : i \in DOMAIN (b \o rs)}
    BY <2>1, <2>3, <2>6
  <2> DEFINE d == b \o rs
  <2>8. d \in Seq(MessageRecords) /\ log \o rs = a \o (<<r>> \o d)
        /\ kept \cup Numbers(ms) \subseteq Retained(a) \cup {d[i].id : i \in DOMAIN d}
    BY <2>4, <2>5, <2>7
  <2> DEFINE new == log \o rs
             more == kept \cup Numbers(ms)
  <2> HIDE DEF d, new, more
  <2>9. OpenLog(new, call, more)
    <3>1. new = a \o (<<r>> \o d) /\ more \subseteq Retained(a) \cup {d[i].id : i \in DOMAIN d}
      BY <2>8 DEF new, more
    <3>2. QED BY <3>1, <2>1, <2>8 DEF OpenLog
  <2>10. SoundLog(new, call, more)
    BY <1>2, <2>9 DEF SoundLog
  <2>11. QED BY <2>10 DEF new, more, rs
<1>3. QED BY <1>1, <1>2

LEMMA LastOrBefore ==
    ASSUME NEW n \in Nat \ {0}, NEW i \in 1 .. n, ~(i <= n - 1)
    PROVE  i = n /\ i - (n - 1) = 1
  OBVIOUS

\* A crash behind a call: the messages before it are kept.
LEMMA SoundTorn ==
    ASSUME NEW log \in Logs, NEW ms \in Conversations, NEW kept, SoundLog(log, 0, kept),
           ms # <<>>, ms[Len(ms)].k = "calls", ms[Len(ms)].id # 0,
           Answered(SubSeq(ms, 1, Len(ms) - 1))
    PROVE  SoundLog(log \o Records(ms), ms[Len(ms)].id, kept \cup (Numbers(ms) \ {ms[Len(ms)].id}))
<1> DEFINE p == SubSeq(ms, 1, Len(ms) - 1)
           m == ms[Len(ms)]
           r == Record(m)
           a == log \o Records(p)
<1>0. Len(ms) \in Nat \ {0} /\ DOMAIN ms = 1 .. Len(ms) /\ Len(ms) - 1 \in 0 .. Len(ms)
  BY LenProperties, EmptySeq DEF Conversations
<1>1. m \in Messages
  BY <1>0, ElementOfSeq DEF Conversations
<1>2. p \in Conversations /\ Len(p) = Len(ms) - 1 /\ \A i \in 1 .. Len(ms) - 1 : p[i] = ms[i]
  BY <1>0, PrefixPaired DEF Conversations
<1>3. r \in MessageRecords /\ r.k = "calls" /\ r.id = m.id
  BY <1>1 DEF Messages, Record, MessageRecords
<1>4. ms = p \o <<m>> /\ <<m>> \in Conversations
  <2> DEFINE q == p \o <<m>>
  <2>1. <<m>> \in Conversations
    BY <1>1, OneRecord
  <2>2. q \in Conversations /\ Len(q) = Len(ms) /\ \A i \in 1 .. Len(ms) : q[i] = IF i <= Len(ms) - 1 THEN p[i] ELSE <<m>>[i - (Len(ms) - 1)]
    <3> HIDE DEF p, m
    <3>1. Len(<<m>>) = 1
      OBVIOUS
    <3>2. q \in Conversations /\ Len(q) = Len(p) + 1 /\ \A i \in 1 .. Len(p) + 1 : q[i] = IF i <= Len(p) THEN p[i] ELSE <<m>>[i - Len(p)]
      BY <1>2, <2>1, <3>1, ConcatProperties DEF Conversations
    <3> HIDE DEF q
    <3>3. Len(p) = Len(ms) - 1 /\ Len(p) + 1 = Len(ms)
      BY <1>0, <1>2
    <3>4. QED BY <3>2, <3>3
  <2> HIDE DEF q, p
  <2>3. \A i \in 1 .. Len(ms) : q[i] = ms[i]
    <3> SUFFICES ASSUME NEW i \in 1 .. Len(ms) PROVE q[i] = ms[i]
      OBVIOUS
    <3>1. CASE i <= Len(ms) - 1
      <4>1. i \in 1 .. Len(ms) - 1
        BY <3>1, <1>0
      <4>2. QED BY <4>1, <3>1, <2>2, <1>2
    <3>2. CASE ~(i <= Len(ms) - 1)
      <4>1. i = Len(ms) /\ i - (Len(ms) - 1) = 1
        BY <3>2, <1>0, LastOrBefore
      <4>2. q[i] = <<m>>[1]
        BY <4>1, <3>2, <2>2
      <4>3. QED BY <4>1, <4>2
    <3>3. QED BY <3>1, <3>2
  <2>4. q = ms
    BY <2>2, <2>3, SeqEqual DEF Conversations
  <2>5. QED BY <2>1, <2>4 DEF q
<1> HIDE DEF p, m
<1>5. a \in Logs /\ AnsweredLog(a) /\ Retained(a) = Retained(log) \cup Numbers(p) /\ kept \subseteq Retained(log)
  BY <1>2, MessagesLogged DEF SoundLog, p
<1>6. log \o Records(ms) = a \o (<<r>> \o <<>>)
  <2>1. Records(ms) = Records(p) \o <<r>>
    <3> DEFINE c == Records(p) \o <<r>>
    <3>1. Records(p) \in Logs /\ Len(Records(p)) = Len(p) /\ Records(ms) \in Logs /\ Len(Records(ms)) = Len(ms)
      BY <1>2, RecordsKeep
    <3>2. <<r>> \in Logs /\ Len(<<r>>) = 1
      BY <1>3 DEF Logs, LogRecords
    <3>3. /\ c \in Logs /\ Len(c) = Len(ms)
          /\ \A i \in 1 .. Len(ms) : c[i] = IF i <= Len(ms) - 1 THEN Records(p)[i] ELSE <<r>>[i - (Len(ms) - 1)]
      <4> DEFINE x == Records(p)
                 y == <<r>>
      <4>1. x \in Logs /\ y \in Logs /\ Len(x) = Len(ms) - 1 /\ Len(y) = 1
        BY <3>1, <3>2, <1>2
      <4> HIDE DEF x, y
      <4>2. /\ x \o y \in Logs /\ Len(x \o y) = Len(x) + Len(y)
            /\ \A i \in 1 .. Len(x) + Len(y) : (x \o y)[i] = IF i <= Len(x) THEN x[i] ELSE y[i - Len(x)]
        BY <4>1, ConcatProperties DEF Logs
      <4>3. Len(x) + Len(y) = Len(ms)
        BY <4>1, <1>0
      <4>4. QED BY <4>1, <4>2, <4>3 DEF x, y
    <3> HIDE DEF c
    <3>4. ASSUME NEW i \in 1 .. Len(ms) PROVE c[i] = Records(ms)[i]
      <4>0. Records(ms)[i] = Record(ms[i])
        BY <1>0 DEF Records
      <4>1. CASE i <= Len(ms) - 1
        <5>1. i \in 1 .. Len(ms) - 1 /\ i \in DOMAIN p
          BY <4>1, <1>0, <1>2, LenProperties DEF Conversations
        <5>2. Records(p)[i] = Record(p[i])
          BY <5>1 DEF Records
        <5>3. QED BY <5>1, <5>2, <4>0, <4>1, <3>3, <1>2
      <4>2. CASE ~(i <= Len(ms) - 1)
        <5>1. i = Len(ms) /\ i - (Len(ms) - 1) = 1
          BY <4>2, <1>0, LastOrBefore
        <5>2. c[i] = <<r>>[1]
          BY <5>1, <4>2, <3>3
        <5>3. QED BY <5>1, <5>2, <4>0 DEF m
      <4>3. QED BY <4>1, <4>2
    <3>5. c = Records(ms)
      BY <3>1, <3>3, <3>4, SeqEqual DEF Logs
    <3>6. QED BY <3>5 DEF c
  <2>2. Records(p) \in Logs /\ <<r>> \in Logs
    BY <1>2, <1>3, RecordsKeep DEF Logs, LogRecords
  <2>3. log \o (Records(p) \o <<r>>) = (log \o Records(p)) \o <<r>>
    BY <2>2, ConcatAssociative DEF Logs
  <2>4. <<r>> \o <<>> = <<r>>
    OBVIOUS
  <2>5. QED BY <2>1, <2>3, <2>4
<1>7. Numbers(ms) \ {m.id} \subseteq Numbers(p)
  <2>1. Numbers(ms) = Numbers(p) \cup Numbers(<<m>>)
    BY <1>2, <1>4, NumbersOfParts
  <2>2. Numbers(<<m>>) \subseteq {m.id}
    BY DEF Numbers
  <2>3. QED BY <2>1, <2>2
<1>8. kept \cup (Numbers(ms) \ {m.id}) \subseteq Retained(a)
  BY <1>5, <1>7
<1>9. <<>> \in Seq(MessageRecords)
  BY EmptySeq
<1> DEFINE new == log \o Records(ms)
           more == kept \cup (Numbers(ms) \ {m.id})
<1>10. new = a \o (<<r>> \o <<>>) /\ more \subseteq Retained(a)
  BY <1>6, <1>8
<1> HIDE DEF a, r, new, more
<1>11. OpenLog(new, m.id, more)
  <2>1. more \subseteq Retained(a) \cup {<<>>[i].id : i \in DOMAIN <<>>}
    BY <1>10
  <2>2. QED BY <2>1, <1>3, <1>5, <1>9, <1>10 DEF OpenLog
<1>12. m.id # 0
  BY DEF m
<1>13. SoundLog(new, m.id, more)
  BY <1>11, <1>12 DEF SoundLog
<1>14. QED BY <1>13 DEF new, more, m

LEMMA AnsweredReadBack ==
    ASSUME NEW log \in Logs, AnsweredLog(log)
    PROVE  Answered(MessagesOf(FromBoundary(log)))
<1> DEFINE t == FromBoundary(log)
<1>1. t \in Logs /\ Later(t, 1) /\ Answered(t)
  BY FromBoundaryIs DEF AnsweredLog
<1>2. \A i \in DOMAIN t : \E j \in DOMAIN log : t[i] = log[j]
  <2>1. Len(t) \in 0 .. Len(t) /\ SubSeq(t, 1, Len(t)) = t
    BY <1>1, LenProperties, SubSeqFull DEF Logs
  <2>2. \A i \in DOMAIN SubSeq(t, 1, Len(t)) : \E j \in DOMAIN log : SubSeq(t, 1, Len(t))[i] = log[j]
    BY <2>1, PartOfLog
  <2> HIDE DEF t
  <2>3. QED BY <2>1, <2>2
<1> HIDE DEF t
<1>3. \A i \in DOMAIN t : Answered(t[i].keep)
  BY <1>2 DEF AnsweredLog, KeepsAnswered
<1>4. QED BY <1>1, <1>3, ReadBack DEF t

\* Resume stops before the call that is not answered, whatever stands behind it.
LEMMA ResumedOpen ==
    ASSUME NEW log \in Logs, NEW a \in Logs, NEW r \in MessageRecords, NEW b \in Seq(MessageRecords),
           log = a \o (<<r>> \o b), r.k = "calls", Answered(FromBoundary(a)),
           NEW G, r.id \notin G, OnlyLog(log, G)
    PROVE  ResumeOf(log) = MessagesOf(FromBoundary(a))
<1> DEFINE ta == FromBoundary(a)
           t == FromBoundary(log)
           rs == <<r>> \o b
           n == Len(ta)
           Pending(k) == {t[i].id : i \in {j \in 1 .. k : t[j].k = "calls"}}
                            \ {t[i].of : i \in {j \in 1 .. k : t[j].k = "results"}}
           Valid == {k \in 0 .. Len(t) : Pending(k) = {}}
<1>1. /\ rs \in Logs /\ (\A i \in DOMAIN rs : rs[i].k # "boundary")
      /\ 1 \in DOMAIN rs /\ rs[1] = r
  <2>1. <<r>> \in Seq(MessageRecords) /\ DOMAIN <<r>> = {1} /\ <<r>>[1] = r
    OBVIOUS
  <2>2. rs \in Seq(MessageRecords)
    BY <2>1, ConcatProperties
  <2>3. 1 \in DOMAIN rs /\ rs[1] = <<r>>[1]
    <3>1. 1 \in DOMAIN <<r>>
      BY <2>1
    <3>2. QED BY ONLY <2>1, <3>1, PartsOfJoined, b \in Seq(MessageRecords)
  <2> HIDE DEF rs
  <2>4. QED BY <2>1, <2>2, <2>3, PlainRecords
<1>2. t = ta \o rs
  BY <1>1, AppendedToLog
<1>3. ta \in Logs /\ t \in Logs /\ Len(ta) \in Nat /\ DOMAIN ta = 1 .. n
      /\ Len(t) \in Nat /\ DOMAIN t = 1 .. Len(t)
  BY FromBoundaryIs, LenProperties DEF Logs
<1>4. Only(t, G)
  <2>1. Len(t) \in 0 .. Len(t)
    BY <1>3
  <2>2. \A i \in DOMAIN SubSeq(t, 1, Len(t)) : \E j \in DOMAIN log : SubSeq(t, 1, Len(t))[i] = log[j]
    BY <2>1, PartOfLog
  <2>3. SubSeq(t, 1, Len(t)) = t
    BY <1>3, SubSeqFull DEF Logs
  <2> HIDE DEF t
  <2>4. \A i \in DOMAIN t : \E j \in DOMAIN log : t[i] = log[j]
    BY <2>2, <2>3
  <2>5. QED BY <2>4 DEF OnlyLog, Only
<1>5. ValidCount(t) = CHOOSE k \in Valid : \A j \in Valid : j <= k
  BY DEF ValidCount
<1>6. ResumeOf(log) = MessagesOf(SubSeq(t, 1, ValidCount(t)))
  BY DEF ResumeOf, FromBoundary
<1> HIDE DEF ta, t, rs
<1>7. /\ n \in Nat /\ n + 1 \in 1 .. Len(t) /\ t[n + 1] = r
      /\ \A i \in 1 .. n : i \in 1 .. Len(t) /\ t[i] = ta[i]
  <2>1. /\ \A i \in DOMAIN ta : i \in DOMAIN t /\ t[i] = ta[i]
        /\ \A i \in DOMAIN rs : Len(ta) + i \in DOMAIN t /\ t[Len(ta) + i] = rs[i]
    BY <1>1, <1>2, <1>3, PartsOfJoined DEF Logs
  <2>2. QED BY <2>1, <1>1, <1>3
<1>8. Pending(n) = {}
  <2> SUFFICES ASSUME NEW i \in 1 .. n, t[i].k = "calls"
               PROVE  \E j \in 1 .. n : t[j].k = "results" /\ t[j].of = t[i].id
    OBVIOUS
  <2>1. ta[i].k = "calls" /\ t[i] = ta[i] /\ i \in DOMAIN ta
    BY <1>3, <1>7
  <2>2. i + 1 \in 1 .. n /\ ta[i + 1].k = "results" /\ ta[i + 1].of = ta[i].id
    BY <2>1, <1>3 DEF Answered, ta
  <2>3. QED BY <2>1, <2>2, <1>7
<1>9. ASSUME NEW k \in Valid PROVE k \in Nat /\ k <= n
  <2>1. k \in 0 .. Len(t) /\ Pending(k) = {}
    OBVIOUS
  <2> SUFFICES ASSUME k > n PROVE FALSE
    BY <2>1, <1>3
  <2>2. n + 1 \in 1 .. k /\ t[n + 1].k = "calls" /\ t[n + 1].id = r.id
    BY <2>1, <1>3, <1>7
  <2>3. r.id \in {t[i].of : i \in {j \in 1 .. k : t[j].k = "results"}}
    <3>1. r.id \in {t[i].id : i \in {j \in 1 .. k : t[j].k = "calls"}}
      BY <2>2
    <3>2. QED BY <2>1, <3>1
  <2>4. PICK j \in 1 .. k : t[j].k = "results" /\ t[j].of = r.id
    BY <2>3
  <2>5. j \in DOMAIN t
    BY <2>1, <1>3
  <2>6. QED BY <2>4, <2>5, <1>4 DEF Only
<1>10. n \in Valid
  <2>1. n \in 0 .. Len(t)
    BY <1>3, <1>7
  <2>2. QED BY <2>1, <1>8
<1> HIDE DEF Valid
<1>11. ValidCount(t) = n
  <2>1. \E k \in Valid : \A j \in Valid : j <= k
    BY <1>9, <1>10
  <2>2. ValidCount(t) \in Valid /\ \A j \in Valid : j <= ValidCount(t)
    BY <2>1, <1>5
  <2>3. n <= ValidCount(t) /\ ValidCount(t) <= n /\ ValidCount(t) \in Nat
    BY <2>2, <1>9, <1>10
  <2>4. QED BY <2>3, <1>7
<1>12. SubSeq(t, 1, n) = ta
  <2>0. n \in 0 .. Len(t)
    BY <1>3, <1>7
  <2> DEFINE p == SubSeq(t, 1, n)
  <2>1. p \in Logs /\ Len(p) = n /\ \A i \in 1 .. n : p[i] = t[i]
    BY <2>0, <1>3, PrefixPaired DEF Logs
  <2> HIDE DEF p
  <2>2. p = ta
    BY <2>1, <1>3, <1>7, SeqEqual DEF Logs
  <2>3. QED BY <2>2 DEF p
<1>13. QED BY <1>6, <1>11, <1>12 DEF ta

LEMMA ResumedSound ==
    ASSUME NEW log \in Logs, NEW call, NEW kept, SoundLog(log, call, kept),
           NEW G, OnlyLog(log, G), call # 0 => call \notin G
    PROVE  /\ Answered(ResumeOf(log))
           /\ SoundLog(log, call, Numbers(ResumeOf(log)))
           /\ kept \subseteq Numbers(ResumeOf(log)) \cup Behind(log, call)
<1>1. CASE call = 0
  <2>1. AnsweredLog(log) /\ kept \subseteq Retained(log)
    BY <1>1 DEF SoundLog
  <2>2. ResumeOf(log) = MessagesOf(FromBoundary(log))
    BY <2>1, ResumedWhole DEF AnsweredLog
  <2>3. Answered(ResumeOf(log))
    BY <2>1, <2>2, AnsweredReadBack
  <2>4. SoundLog(log, call, Numbers(ResumeOf(log)))
    BY <1>1, <2>1, <2>2 DEF SoundLog, Retained
  <2>5. QED BY <2>1, <2>2, <2>3, <2>4 DEF Retained
<1>2. CASE call # 0
  <2>1. PICK a \in Logs, r \in MessageRecords, b \in Seq(MessageRecords) :
          /\ log = a \o (<<r>> \o b) /\ r.k = "calls" /\ r.id = call
          /\ AnsweredLog(a)
          /\ kept \subseteq Retained(a) \cup {b[i].id : i \in DOMAIN b}
    BY <1>2 DEF SoundLog, OpenLog
  <2>2. ResumeOf(log) = MessagesOf(FromBoundary(a))
    BY <2>1, <1>2, ResumedOpen DEF AnsweredLog
  <2>3. Answered(ResumeOf(log))
    BY <2>1, <2>2, AnsweredReadBack
  <2>4. SoundLog(log, call, Numbers(ResumeOf(log)))
    BY <1>2, <2>1, <2>2 DEF SoundLog, OpenLog, Retained
  <2>5. {b[i].id : i \in DOMAIN b} \subseteq Behind(log, call)
    <3> DEFINE rs == <<r>> \o b
    <3>1. <<r>> \in Seq(MessageRecords) /\ Len(<<r>>) = 1 /\ 1 \in DOMAIN <<r>> /\ <<r>>[1] = r
      OBVIOUS
    <3>2. /\ rs \in Seq(MessageRecords)
          /\ 1 \in DOMAIN rs /\ rs[1] = r
          /\ \A i \in DOMAIN b : 1 + i \in DOMAIN rs /\ rs[1 + i] = b[i]
      <4> DEFINE x == <<r>>
      <4>1. x \in Seq(MessageRecords) /\ Len(x) = 1 /\ 1 \in DOMAIN x /\ x[1] = r
        BY <3>1
      <4> HIDE DEF x
      <4>2. /\ x \o b \in Seq(MessageRecords)
            /\ \A i \in DOMAIN x : i \in DOMAIN (x \o b) /\ (x \o b)[i] = x[i]
            /\ \A i \in DOMAIN b : Len(x) + i \in DOMAIN (x \o b) /\ (x \o b)[Len(x) + i] = b[i]
        BY <4>1, PartsOfJoined
      <4>3. QED BY <4>1, <4>2 DEF x
    <3> HIDE DEF rs
    <3>3. \A i \in DOMAIN rs : Len(a) + i \in DOMAIN log /\ log[Len(a) + i] = rs[i]
      <4>1. rs \in Logs
        BY <3>2, PlainRecords
      <4>2. QED BY <4>1, <2>1, PartsOfJoined DEF Logs, rs
    <3>4. Len(a) \in Nat /\ DOMAIN log = 1 .. Len(log) /\ Len(log) \in Nat /\ DOMAIN b \subseteq Nat \ {0}
      BY LenProperties DEF Logs
    <3>5. ASSUME NEW i \in DOMAIN b PROVE b[i].id \in Behind(log, call)
      <4> DEFINE m == Len(a) + 1
                 j == Len(a) + (1 + i)
      <4>1. m \in DOMAIN log /\ log[m] = r /\ j \in DOMAIN log /\ log[j] = b[i]
        BY <3>2, <3>3
      <4>2. m \in 1 .. j - 1
        BY <3>4
      <4> HIDE DEF m, j
      <4>3. QED BY <4>1, <4>2, <2>1 DEF Behind
    <3>6. QED BY <3>5
  <2>6. QED BY <2>1, <2>2, <2>3, <2>4, <2>5 DEF Retained
<1>3. QED BY <1>1, <1>2

SessionTyped ==
    /\ history \in Conversations /\ keeping \in Conversations
    /\ logs \in [1 .. MaxSessions -> Logs]
    /\ session \in 1 .. MaxSessions /\ opened \in 1 .. MaxSessions
    /\ unanswered \in [1 .. MaxSessions -> Nat]
    /\ cursor \in Nat /\ nextId \in Nat \ {0} /\ snapshots \in Seq(Nat)
    /\ phase \in {"sent", "top", "called"} => nextId > 1

\* While the model's call waits for its results it is the last message.
CallIsLast ==
    /\ history # <<>> /\ history[Len(history)].k = "calls"
    /\ history[Len(history)].id = nextId - 1
    /\ Answered(SubSeq(history, 1, Len(history) - 1))

KeptIn(s) == IF s = session THEN saved ELSE {}
Sound == \A s \in 1 .. MaxSessions : SoundLog(logs[s], unanswered[s], KeptIn(s))

\* As long as nothing was cut: calls are answered wherever a message is kept,
\* but for the one a crash left in a log, and the log holds what it was given.
CallsAnswered ==
    /\ IF phase = "called" THEN CallIsLast ELSE Answered(history)
    /\ Answered(keeping)
    /\ keeping # <<>> => phase = "idle"
    /\ Sound

\* As long as no results were written again without their calls.
ResultsPlaced ==
    /\ Placed(history) /\ Placed(keeping)
    /\ \A s \in 1 .. MaxSessions : PlacedLog(logs[s])

SessionIInv ==
    /\ SessionTyped
    /\ ~mishap => CallsAnswered
    /\ ~mishap /\ ~halved => ResultsPlaced

\* No results answer the call a crash left, nor the one the model made last.
Answerable ==
    {o \in Nat : o + 1 < nextId /\ \A s \in 1 .. MaxSessions : unanswered[s] \in {0} \/ unanswered[s] # o}
NeverAnswered ==
    /\ \A s \in 1 .. MaxSessions : unanswered[s] = 0 \/ unanswered[s] + 1 < nextId
    /\ Only(history, Answerable) /\ Only(keeping, Answerable)
    /\ \A s \in 1 .. MaxSessions : OnlyLog(logs[s], Answerable)

LEMMA BoundaryLogged ==
    ASSUME NEW log \in Logs, NEW keep \in Conversations
    PROVE  LET new == log \o <<Boundary(keep)>>
           IN /\ new \in Logs
              /\ KeepsAnswered(log) /\ Answered(keep) => SoundLog(new, 0, Numbers(keep))
              /\ PlacedLog(log) /\ Placed(keep) => PlacedLog(new)
              /\ \A G : OnlyLog(log, G) /\ Only(keep, G) => OnlyLog(new, G)
<1> DEFINE b == Boundary(keep)
           new == log \o <<b>>
<1>1. new \in Logs /\ FromBoundary(new) = <<b>>
  BY BoundaryWritten
<1>2. b \in LogRecords /\ b.k = "boundary" /\ b.keep = keep
  BY DEF Boundary, LogRecords, BoundaryRecords
<1> HIDE DEF b
<1>3. <<b>> \in Logs /\ Answered(<<b>>) /\ Placed(<<b>>)
  BY <1>2, AloneIsPaired DEF Logs
<1>4. DOMAIN <<b>> = {1} /\ <<b>>[1] = b
  OBVIOUS
<1> DEFINE bs == <<b>>
<1>5. /\ Answered(keep) => KeepsAnswered(bs)
      /\ Placed(keep) => PlacedLog(bs)
      /\ \A G : Only(keep, G) => OnlyLog(bs, G)
  <2> HIDE DEF bs
  <2>1. \A i \in DOMAIN bs : bs[i].keep = keep /\ bs[i].k = "boundary"
    BY <1>2, <1>4 DEF bs
  <2>2. QED BY <1>3, <2>1 DEF bs, KeepsAnswered, PlacedLog, OnlyLog, Only
<1>6. /\ KeepsAnswered(log) /\ KeepsAnswered(bs) => KeepsAnswered(new)
      /\ PlacedLog(log) /\ PlacedLog(bs) => PlacedLog(new)
      /\ \A G : OnlyLog(log, G) /\ OnlyLog(bs, G) => OnlyLog(new, G)
  <2> HIDE DEF bs
  <2>1. bs \in Logs
    BY <1>3 DEF bs
  <2>2. QED BY <2>1, KeepsOfJoined DEF bs
<1> HIDE DEF new
<1>7. Retained(new) = Numbers(keep)
  BY <1>1, ReadBackBoundary, SummaryHasNoNumber DEF Retained, b
<1>8. KeepsAnswered(log) /\ Answered(keep) => SoundLog(new, 0, Numbers(keep))
  BY <1>1, <1>3, <1>5, <1>6, <1>7 DEF SoundLog, AnsweredLog
<1>9. QED BY <1>1, <1>5, <1>6, <1>8 DEF new, b

\* What a compaction keeps: Align has gone back to the call.
LEMMA KeptTail ==
    ASSUME NEW ms \in Conversations, NEW s \in KeepStarts(ms)
    PROVE  /\ Tail_(ms, s) \in Conversations
           /\ Answered(ms) => Answered(Tail_(ms, s))
           /\ Placed(ms) => Placed(Tail_(ms, s))
<1>0. Len(ms) \in Nat /\ DOMAIN ms = 1 .. Len(ms)
  BY LenProperties DEF Conversations
<1>1. PICK i \in 1 .. Len(ms) : s = Align(ms, i)
  BY DEF KeepStarts
<1>2. s > 1 /\ (s = i \/ (s = i - 1 /\ i > 1 /\ ms[i - 1].k = "calls"))
  BY <1>1 DEF KeepStarts, Align
<1>3. s \in 1 .. Len(ms)
  BY <1>0, <1>1, <1>2
<1> DEFINE t == Tail_(ms, s)
<1>4. /\ t \in Conversations
      /\ Len(t) = IF s <= Len(ms) THEN Len(ms) - s + 1 ELSE 0
      /\ \A j \in 1 .. Len(t) : t[j] = ms[s + j - 1]
      /\ Answered(ms) => Answered(t)
      /\ Placed(ms) /\ (t # <<>> => t[1].k # "results") => Placed(t)
  BY <1>0, <1>3, SuffixPaired, SMTT(30) DEF Conversations, Tail_
<1> HIDE DEF t
<1>5. ASSUME Placed(ms) PROVE t[1].k # "results"
  <2>1. Len(t) = Len(ms) - s + 1 /\ 1 \in 1 .. Len(t) /\ s + 1 - 1 = s
    BY <1>0, <1>3, <1>4
  <2>2. t[1] = ms[s]
    BY <2>1, <1>4
  <2>3. CASE s = i
    <3> SUFFICES ASSUME ms[s].k = "results" PROVE FALSE
      BY <2>2
    <3>1. s - 1 \in DOMAIN ms /\ ms[s - 1].k = "calls"
      BY <1>0, <1>3, <1>5 DEF Placed
    <3>2. Align(ms, s) = s - 1
      BY <3>1, <1>0, <1>2, <1>3 DEF Align
    <3>3. QED BY <3>2, <2>3, <1>1, <1>3
  <2>4. CASE s = i - 1 /\ ms[i - 1].k = "calls"
    BY <2>2, <2>4
  <2>5. QED BY <2>3, <2>4, <1>2
<1>6. QED BY <1>4, <1>5 DEF t

LEMMA InjectionsPaired ==
    /\ Injections \in Conversations /\ Answered(Injections) /\ Placed(Injections)
<1>1. Msg("memory", 0, 0) \in Messages /\ InjectCount \in Nat
  BY SessionAssumption DEF Msg, Messages, MessageKinds
<1>2. Injections \in [1 .. InjectCount -> Messages]
  BY <1>1 DEF Injections
<1>3. Injections \in Conversations
  BY <1>1, <1>2, LenProperties DEF Conversations
<1>4. \A i \in DOMAIN Injections : Injections[i].k = "memory"
  BY DEF Injections, Msg
<1>5. QED BY <1>3, <1>4 DEF Answered, Placed

LEMMA MessageAdded ==
    ASSUME NEW ms \in Conversations, NEW m \in Messages
    PROVE  /\ Append(ms, m) \in Conversations
           /\ m.k \notin {"calls", "results"} => (Answered(ms) => Answered(Append(ms, m)))
           /\ m.k # "results" => (Placed(ms) => Placed(Append(ms, m)))
<1>1. Append(ms, m) \in Conversations /\ Append(ms, m) = ms \o <<m>> /\ <<m>> \in Conversations
  BY AppendProperties, AppendIsConcat DEF Conversations
<1>2. m.k # "results" => Placed(<<m>>)
  BY DEF Placed
<1>3. m.k \notin {"calls", "results"} => Answered(<<m>>)
  BY AloneIsPaired
<1>4. QED BY <1>1, <1>2, <1>3, JoinedPaired DEF Conversations

LEMMA CallAdded ==
    ASSUME NEW ms \in Conversations, NEW m \in Messages
    PROVE  LET new == Append(ms, m)
           IN new # <<>> /\ new[Len(new)] = m /\ SubSeq(new, 1, Len(new) - 1) = ms
<1> DEFINE new == Append(ms, m)
<1>0. Len(ms) \in Nat
  BY LenProperties DEF Conversations
<1>1. /\ new \in Conversations /\ new # <<>> /\ Len(new) = Len(ms) + 1
      /\ \A i \in 1 .. Len(ms) : new[i] = ms[i]
      /\ new[Len(ms) + 1] = m
  BY AppendProperties DEF Conversations
<1> HIDE DEF new
<1>2. Len(new) - 1 = Len(ms) /\ Len(ms) \in 0 .. Len(new)
  BY <1>0, <1>1
<1> DEFINE p == SubSeq(new, 1, Len(ms))
<1>3. p \in Conversations /\ Len(p) = Len(ms) /\ \A i \in 1 .. Len(ms) : p[i] = new[i]
  BY <1>1, <1>2, PrefixPaired DEF Conversations
<1> HIDE DEF p
<1>4. p = ms
  BY <1>1, <1>3, SeqEqual DEF Conversations
<1>5. QED BY <1>1, <1>2, <1>4 DEF new, p

LEMMA UpToTwoMore ==
    ASSUME NEW n \in Nat, NEW i \in 1 .. n + 1
    PROVE  i = n + 1 \/ i = n \/ i \in 1 .. n - 1
  OBVIOUS

LEMMA ResultsAdded ==
    ASSUME NEW ms \in Conversations, NEW r \in Messages, ms # <<>>,
           ms[Len(ms)].k = "calls", r.k = "results", r.of = ms[Len(ms)].id
    PROVE  /\ Answered(SubSeq(ms, 1, Len(ms) - 1)) => Answered(Append(ms, r))
           /\ Placed(ms) => Placed(Append(ms, r))
<1> DEFINE new == Append(ms, r)
           p == SubSeq(ms, 1, Len(ms) - 1)
<1>0. Len(ms) \in Nat /\ DOMAIN ms = 1 .. Len(ms) /\ Len(ms) # 0
  BY LenProperties, EmptySeq DEF Conversations
<1>1. /\ DOMAIN new = 1 .. Len(ms) + 1
      /\ \A i \in 1 .. Len(ms) : new[i] = ms[i]
      /\ new[Len(ms) + 1] = r
  BY AppendProperties, LenProperties DEF Conversations
<1>2. DOMAIN p = 1 .. Len(ms) - 1 /\ \A i \in 1 .. Len(ms) - 1 : p[i] = ms[i]
  <2>1. Len(ms) - 1 \in 0 .. Len(ms)
    BY <1>0
  <2>2. p \in Conversations /\ Len(p) = Len(ms) - 1 /\ \A i \in 1 .. Len(ms) - 1 : p[i] = ms[i]
    BY <2>1, PrefixPaired DEF Conversations
  <2> HIDE DEF p
  <2>3. QED BY <2>2, LenProperties DEF Conversations
<1> HIDE DEF new, p
<1>3. ASSUME Answered(p) PROVE Answered(new)
  <2> SUFFICES ASSUME NEW i \in 1 .. Len(ms) + 1, new[i].k = "calls"
               PROVE  /\ i + 1 \in 1 .. Len(ms) + 1
                      /\ new[i + 1].k = "results" /\ new[i + 1].of = new[i].id
    BY <1>1 DEF Answered
  <2>1. CASE i = Len(ms) + 1
    BY <2>1, <1>1
  <2>2. CASE i = Len(ms)
    <3>1. i \in 1 .. Len(ms) /\ i + 1 = Len(ms) + 1 /\ i + 1 \in 1 .. Len(ms) + 1
      BY <2>2, <1>0
    <3>2. new[i] = ms[Len(ms)] /\ new[i + 1] = r
      BY <2>2, <3>1, <1>1
    <3>3. QED BY <3>1, <3>2
  <2>3. CASE i \in 1 .. Len(ms) - 1
    <3>1. i \in 1 .. Len(ms) - 1 /\ i \in 1 .. Len(ms)
      BY <2>3, <1>0
    <3>2. p[i] = ms[i] /\ new[i] = ms[i]
      BY <3>1, <1>1, <1>2
    <3>3. i + 1 \in 1 .. Len(ms) - 1 /\ p[i + 1].k = "results" /\ p[i + 1].of = p[i].id
      BY <3>1, <3>2, <1>2, <1>3 DEF Answered
    <3>4. i + 1 \in 1 .. Len(ms) /\ i + 1 \in 1 .. Len(ms) + 1
      BY <3>3, <1>0
    <3>5. new[i + 1] = p[i + 1]
      BY <3>3, <3>4, <1>1, <1>2
    <3>6. QED BY <3>2, <3>3, <3>4, <3>5
  <2>4. i = Len(ms) + 1 \/ i = Len(ms) \/ i \in 1 .. Len(ms) - 1
    BY <1>0, UpToTwoMore
  <2>5. QED BY <2>1, <2>2, <2>3, <2>4
<1>4. ASSUME Placed(ms) PROVE Placed(new)
  <2> SUFFICES ASSUME NEW i \in 1 .. Len(ms) + 1, new[i].k = "results"
               PROVE  /\ i - 1 \in 1 .. Len(ms) + 1
                      /\ new[i - 1].k = "calls" /\ new[i - 1].id = new[i].of
    BY <1>1 DEF Placed
  <2>1. CASE i = Len(ms) + 1
    <3>1. i - 1 = Len(ms) /\ Len(ms) \in 1 .. Len(ms) /\ Len(ms) \in 1 .. Len(ms) + 1
      BY <2>1, <1>0
    <3>2. new[i - 1] = ms[Len(ms)] /\ new[i] = r
      BY <2>1, <3>1, <1>1
    <3>3. QED BY <3>1, <3>2
  <2>2. CASE i <= Len(ms)
    <3>1. i \in 1 .. Len(ms) /\ new[i] = ms[i]
      BY <2>2, <1>0, <1>1
    <3>2. i - 1 \in 1 .. Len(ms) /\ ms[i - 1].k = "calls" /\ ms[i - 1].id = ms[i].of
      BY <3>1, <1>0, <1>4 DEF Placed
    <3>3. i - 1 \in 1 .. Len(ms) + 1 /\ new[i - 1] = ms[i - 1]
      BY <3>2, <1>0, <1>1
    <3>4. QED BY <3>1, <3>2, <3>3
  <2>3. QED BY <2>1, <2>2, <1>0
<1>5. QED BY <1>3, <1>4 DEF new, p

LEMMA LogWritten ==
    ASSUME SessionTyped, NEW rs, Write(rs), logs[session] \o rs \in Logs
    PROVE  /\ logs' \in [1 .. MaxSessions -> Logs]
           /\ logs'[session] = logs[session] \o rs
           /\ \A s \in 1 .. MaxSessions : s # session => logs'[s] = logs[s]
  BY DEF SessionTyped, Write

\* Messages go into the log, or a boundary, or another session is taken.
LEMMA SoundWritten ==
    ASSUME SessionTyped, Sound, NEW ms \in Conversations, Answered(ms),
           logs'[session] = logs[session] \o Records(ms),
           \A s \in 1 .. MaxSessions : s # session => logs'[s] = logs[s],
           session' = session, unanswered' = unanswered, saved' = saved \cup Numbers(ms)
    PROVE  Sound'
<1> SUFFICES ASSUME NEW s \in 1 .. MaxSessions PROVE SoundLog(logs'[s], unanswered[s], KeptIn(s)')
  BY DEF Sound
<1>0. logs[session] \in Logs /\ SoundLog(logs[s], unanswered[s], KeptIn(s))
  BY DEF Sound, SessionTyped
<1>1. CASE s = session
  <2>1. SoundLog(logs[session], unanswered[s], saved) /\ KeptIn(s)' = saved \cup Numbers(ms)
    BY <1>0, <1>1 DEF KeptIn
  <2>2. QED BY <2>1, <1>0, <1>1, SoundMore
<1>2. CASE s # session
  <2>1. KeptIn(s)' = KeptIn(s)
    BY <1>2 DEF KeptIn
  <2>2. QED BY <2>1, <1>0, <1>2
<1>3. QED BY <1>1, <1>2

LEMMA SoundCompacted ==
    ASSUME SessionTyped, Sound, NEW keep \in Conversations, Answered(keep),
           logs'[session] = logs[session] \o <<Boundary(keep)>>,
           \A s \in 1 .. MaxSessions : s # session => logs'[s] = logs[s],
           session' = session, unanswered' = [unanswered EXCEPT ![session] = 0],
           saved' = Numbers(keep)
    PROVE  Sound'
<1> SUFFICES ASSUME NEW s \in 1 .. MaxSessions PROVE SoundLog(logs'[s], unanswered'[s], KeptIn(s)')
  BY DEF Sound
<1>0. /\ logs[session] \in Logs /\ SoundLog(logs[s], unanswered[s], KeptIn(s))
      /\ unanswered \in [1 .. MaxSessions -> Nat] /\ session \in 1 .. MaxSessions
      /\ SoundLog(logs[session], unanswered[session], KeptIn(session))
  BY DEF Sound, SessionTyped
<1>1. CASE s = session
  <2>1. unanswered'[s] = 0 /\ KeptIn(s)' = Numbers(keep)
    BY <1>0, <1>1 DEF KeptIn
  <2>2. KeepsAnswered(logs[session])
    BY <1>0, SoundKeeps
  <2>3. SoundLog(logs'[session], 0, Numbers(keep))
    BY <2>2, <1>0, BoundaryLogged
  <2>4. QED BY <2>1, <2>3, <1>1
<1>2. CASE s # session
  <2>1. KeptIn(s)' = KeptIn(s) /\ unanswered'[s] = unanswered[s]
    BY <1>0, <1>2 DEF KeptIn
  <2>2. QED BY <2>1, <1>0, <1>2
<1>3. QED BY <1>1, <1>2

LEMMA SoundElsewhere ==
    ASSUME Sound, UNCHANGED <<logs, unanswered>>, saved' = {}
    PROVE  Sound'
<1> SUFFICES ASSUME NEW s \in 1 .. MaxSessions PROVE SoundLog(logs[s], unanswered[s], KeptIn(s)')
  BY DEF Sound
<1>1. SoundLog(logs[s], unanswered[s], KeptIn(s)) /\ KeptIn(s)' = {}
  BY DEF Sound, KeptIn
<1>2. QED BY <1>1, SoundLess

LEMMA SoundAsBefore ==
    ASSUME Sound, UNCHANGED <<logs, unanswered, session, saved>>
    PROVE  Sound'
  BY DEF Sound, KeptIn

\* A flush writes a part of the conversation that begins between messages.
LEMMA FlushKeeps ==
    ASSUME SessionTyped, NEW ms \in Conversations, Flush(ms), UNCHANGED <<session, unanswered>>
    PROVE  /\ logs' \in [1 .. MaxSessions -> Logs] /\ cursor' \in Nat
           /\ Sound /\ Answered(ms) => Sound'
           /\ ResultsPlaced /\ Placed(ms) /\ ~halved' =>
                \A s \in 1 .. MaxSessions : PlacedLog(logs'[s])
           /\ ~halved' => ~halved
           /\ \A G : Only(ms, G) /\ (\A s \in 1 .. MaxSessions : OnlyLog(logs[s], G)) =>
                \A s \in 1 .. MaxSessions : OnlyLog(logs'[s], G)
<1> DEFINE new == Tail_(ms, cursor + 1)
<1>1. /\ Write(Records(new)) /\ saved' = saved \cup Numbers(new) /\ cursor' = Len(ms)
      /\ halved' = (halved \/ (new # <<>> /\ new[1].k = "results"))
  BY DEF Flush
<1>2. /\ new \in Conversations
      /\ Answered(ms) => Answered(new)
      /\ Placed(ms) /\ (new # <<>> => new[1].k # "results") => Placed(new)
      /\ \A G : Only(ms, G) => Only(new, G)
  <2>1. cursor + 1 \in Nat \ {0} /\ 0 \in 0 .. Len(ms)
    BY LenProperties DEF SessionTyped, Conversations
  <2>2. \A G : Only(ms, G) => Only(new, G)
    BY <2>1, OnlyInPart DEF Conversations, Tail_
  <2>3. QED BY <2>1, <2>2, SuffixPaired DEF Conversations, Tail_
<1> HIDE DEF new
<1>3. logs[session] \in Logs /\ session \in 1 .. MaxSessions
  BY DEF SessionTyped
<1> DEFINE log == logs[session] \o Records(new)
<1>4. /\ log \in Logs
      /\ PlacedLog(logs[session]) /\ Placed(new) => PlacedLog(log)
      /\ \A G : OnlyLog(logs[session], G) /\ Only(new, G) => OnlyLog(log, G)
  BY <1>2, <1>3, MessagesLogged
<1>5. /\ logs' \in [1 .. MaxSessions -> Logs]
      /\ logs'[session] = log
      /\ \A s \in 1 .. MaxSessions : s # session => logs'[s] = logs[s]
  BY <1>1, <1>4, LogWritten
<1>6. cursor' \in Nat
  BY <1>1, LenProperties DEF Conversations
<1>7. ASSUME Sound, Answered(ms) PROVE Sound'
  BY <1>1, <1>2, <1>5, <1>7, SoundWritten
<1> HIDE DEF log
<1>8. ~halved' => ~halved /\ (new # <<>> => new[1].k # "results")
  BY <1>1
<1>9. ASSUME ResultsPlaced, Placed(ms), ~halved'
      PROVE  \A s \in 1 .. MaxSessions : PlacedLog(logs'[s])
  BY <1>2, <1>3, <1>4, <1>5, <1>8, <1>9 DEF ResultsPlaced
<1>10. ASSUME NEW G, Only(ms, G), \A s \in 1 .. MaxSessions : OnlyLog(logs[s], G)
       PROVE  \A s \in 1 .. MaxSessions : OnlyLog(logs'[s], G)
  BY <1>2, <1>3, <1>4, <1>5, <1>10
<1>11. QED BY <1>5, <1>6, <1>7, <1>8, <1>9, <1>10

\* The user's message.
LEMMA SendTurnKeeps == SessionIInv /\ SendTurn => SessionIInv'
<1> SUFFICES ASSUME SessionIInv, SendTurn PROVE SessionIInv'
  OBVIOUS
<1> DEFINE m == Msg("user", nextId, 0)
<1>0. SessionTyped /\ phase = "idle" /\ logs[session] \in Logs /\ session \in 1 .. MaxSessions
  BY DEF SessionIInv, SendTurn, SessionTyped
<1>1. m \in Messages /\ m.k = "user" /\ m.id = nextId
  BY <1>0 DEF Msg, Messages, MessageKinds, SessionTyped
<1>2. /\ history' = Append(history, m) /\ Write(<<Record(m)>>)
      /\ saved' = saved \cup {nextId} /\ cursor' = Len(history') /\ nextId' = nextId + 1
      /\ phase' = "sent" /\ keeping = <<>>
      /\ UNCHANGED <<session, opened, keeping, snapshots, mishap, halved, unanswered>>
  BY DEF SendTurn, NotCompacting
<1> HIDE DEF m
<1>3. <<m>> \in Conversations /\ <<Record(m)>> = Records(<<m>>) /\ Answered(<<m>>) /\ Placed(<<m>>)
  BY <1>1, OneRecord, AloneIsPaired
<1> DEFINE log == logs[session] \o Records(<<m>>)
<1>4. /\ log \in Logs
      /\ PlacedLog(logs[session]) => PlacedLog(log)
  BY <1>0, <1>3, MessagesLogged
<1>5. /\ logs' \in [1 .. MaxSessions -> Logs] /\ logs'[session] = log
      /\ \A s \in 1 .. MaxSessions : s # session => logs'[s] = logs[s]
  BY <1>0, <1>2, <1>3, <1>4, LogWritten
<1>6. /\ history' \in Conversations
      /\ Answered(history) => Answered(history')
      /\ Placed(history) => Placed(history')
  BY <1>0, <1>1, <1>2, MessageAdded DEF SessionTyped
<1>7. SessionTyped'
  <2>1. cursor' \in Nat
    BY <1>2, <1>6, LenProperties DEF Conversations
  <2>2. nextId' \in Nat \ {0} /\ nextId' > 1
    BY <1>0, <1>2 DEF SessionTyped
  <2> HIDE DEF log
  <2>3. QED BY <2>1, <2>2, <1>0, <1>2, <1>5, <1>6 DEF SessionTyped
<1>8. ASSUME ~mishap' PROVE CallsAnswered'
  <2>1. CallsAnswered
    BY <1>2, <1>8 DEF SessionIInv
  <2>2. Answered(history') /\ phase' # "called"
    BY <2>1, <1>0, <1>2, <1>6 DEF CallsAnswered
  <2>3. saved' = saved \cup Numbers(<<m>>)
    <3>1. Numbers(<<m>>) = {nextId}
      <4>1. DOMAIN <<m>> = {1} /\ <<m>>[1] = m /\ nextId # 0
        BY <1>0 DEF SessionTyped
      <4>2. QED BY <4>1, <1>1 DEF Numbers
    <3>2. QED BY <3>1, <1>2
  <2>4. Sound'
    BY <2>1, <2>3, <1>0, <1>2, <1>3, <1>5, SoundWritten DEF CallsAnswered
  <2>5. Answered(keeping') /\ keeping' = <<>>
    BY <1>2, NothingIsPaired
  <2>6. QED BY <2>2, <2>4, <2>5 DEF CallsAnswered
<1>9. ASSUME ~mishap', ~halved' PROVE ResultsPlaced'
  <2> HIDE DEF log
  <2>1. ResultsPlaced
    BY <1>2, <1>9 DEF SessionIInv
  <2>2. QED BY <2>1, <1>0, <1>2, <1>4, <1>5, <1>6 DEF ResultsPlaced
<1>10. QED BY <1>7, <1>8, <1>9 DEF SessionIInv

LEMMA StartLoopKeeps == SessionIInv /\ StartLoop => SessionIInv'
<1> SUFFICES ASSUME SessionIInv, StartLoop PROVE SessionIInv'
  OBVIOUS
<1>0. /\ SessionTyped /\ phase = "sent" /\ phase' = "top"
      /\ history' = history \/ history' = Injections \o history
      /\ UNCHANGED <<cursor, logs, session, opened, keeping, snapshots, nextId, saved, mishap, halved, unanswered>>
  BY DEF SessionIInv, StartLoop
<1>1. /\ history' \in Conversations
      /\ Answered(history) => Answered(history')
      /\ Placed(history) => Placed(history')
  BY <1>0, InjectionsPaired, ConcatProperties, JoinedPaired DEF SessionTyped, Conversations
<1>2. SessionTyped'
  BY <1>0, <1>1 DEF SessionTyped
<1>3. ASSUME ~mishap' PROVE CallsAnswered'
  <2>1. CallsAnswered
    BY <1>0, <1>3 DEF SessionIInv
  <2>2. keeping' # <<>> => phase' = "idle"
    BY <2>1, <1>0 DEF CallsAnswered
  <2>3. Sound'
    BY <2>1, <1>0, SoundAsBefore DEF CallsAnswered
  <2>4. QED BY <2>1, <2>2, <2>3, <1>0, <1>1 DEF CallsAnswered
<1>4. ASSUME ~mishap', ~halved' PROVE ResultsPlaced'
  <2>1. ResultsPlaced
    BY <1>0, <1>4 DEF SessionIInv
  <2>2. QED BY <2>1, <1>0, <1>1 DEF ResultsPlaced
<1>5. QED BY <1>2, <1>3, <1>4 DEF SessionIInv

LEMMA ModelCallsKeeps == SessionIInv /\ ModelCalls => SessionIInv'
<1> SUFFICES ASSUME SessionIInv, ModelCalls PROVE SessionIInv'
  OBVIOUS
<1> DEFINE m == Msg("calls", nextId, 0)
<1>0. /\ SessionTyped /\ phase = "top" /\ phase' = "called"
      /\ history' = Append(history, m) /\ nextId' = nextId + 1
      /\ UNCHANGED <<cursor, logs, session, opened, keeping, snapshots, saved, mishap, halved, unanswered>>
  BY DEF SessionIInv, ModelCalls
<1>1. m \in Messages /\ m.k = "calls" /\ m.id = nextId
  BY <1>0 DEF Msg, Messages, MessageKinds, SessionTyped
<1> HIDE DEF m
<1>2. /\ history' \in Conversations
      /\ Placed(history) => Placed(history')
      /\ history' # <<>> /\ history'[Len(history')] = m
      /\ SubSeq(history', 1, Len(history') - 1) = history
  BY <1>0, <1>1, MessageAdded, CallAdded DEF SessionTyped
<1>3. SessionTyped'
  BY <1>0, <1>2 DEF SessionTyped
<1>4. ASSUME ~mishap' PROVE CallsAnswered'
  <2>1. CallsAnswered
    BY <1>0, <1>4 DEF SessionIInv
  <2>2. Answered(history) /\ keeping = <<>>
    BY <2>1, <1>0 DEF CallsAnswered
  <2>3. nextId' - 1 = nextId
    BY <1>0 DEF SessionTyped
  <2>4. CallIsLast'
    BY <2>2, <2>3, <1>1, <1>2 DEF CallIsLast
  <2>5. Sound'
    BY <2>1, <1>0, SoundAsBefore DEF CallsAnswered
  <2>6. QED BY <2>1, <2>2, <2>4, <2>5, <1>0 DEF CallsAnswered
<1>5. ASSUME ~mishap', ~halved' PROVE ResultsPlaced'
  <2>1. ResultsPlaced
    BY <1>0, <1>5 DEF SessionIInv
  <2>2. QED BY <2>1, <1>0, <1>2 DEF ResultsPlaced
<1>6. QED BY <1>3, <1>4, <1>5 DEF SessionIInv

LEMMA ToolsAnswerKeeps == SessionIInv /\ ToolsAnswer => SessionIInv'
<1> SUFFICES ASSUME SessionIInv, ToolsAnswer PROVE SessionIInv'
  OBVIOUS
<1> DEFINE r == Msg("results", nextId, nextId - 1)
<1>0. /\ SessionTyped /\ phase = "called" /\ phase' = "top"
      /\ history' = Append(history, r) /\ nextId' = nextId + 1 /\ Flush(history')
      /\ UNCHANGED <<session, opened, keeping, snapshots, mishap, unanswered>>
  BY DEF SessionIInv, ToolsAnswer
<1>1. r \in Messages /\ r.k = "results" /\ r.of = nextId - 1
  BY <1>0 DEF Msg, Messages, MessageKinds, SessionTyped
<1> HIDE DEF r
<1>2. history' \in Conversations /\ history \in Conversations
  BY <1>0, <1>1, MessageAdded DEF SessionTyped
<1>3. ASSUME ~mishap
      PROVE  /\ CallsAnswered /\ Answered(history')
             /\ Placed(history) => Placed(history')
  <2>1. CallsAnswered /\ CallIsLast
    BY <1>0, <1>3 DEF SessionIInv, CallsAnswered
  <2>2. QED BY <2>1, <1>0, <1>1, <1>2, ResultsAdded DEF CallIsLast
<1>4. /\ logs' \in [1 .. MaxSessions -> Logs] /\ cursor' \in Nat
      /\ Sound /\ Answered(history') => Sound'
      /\ ResultsPlaced /\ Placed(history') /\ ~halved' =>
           \A s \in 1 .. MaxSessions : PlacedLog(logs'[s])
      /\ ~halved' => ~halved
  BY <1>0, <1>2, FlushKeeps
<1>5. SessionTyped'
  BY <1>0, <1>2, <1>4 DEF SessionTyped
<1>6. ASSUME ~mishap' PROVE CallsAnswered'
  <2>1. CallsAnswered /\ Answered(history') /\ keeping' = <<>>
    BY <1>0, <1>3, <1>6 DEF CallsAnswered
  <2>2. QED BY <2>1, <1>0, <1>4 DEF CallsAnswered
<1>7. ASSUME ~mishap', ~halved' PROVE ResultsPlaced'
  <2>1. ResultsPlaced /\ Placed(history')
    BY <1>0, <1>3, <1>4, <1>7 DEF SessionIInv, ResultsPlaced
  <2>2. QED BY <2>1, <1>0, <1>4, <1>7 DEF ResultsPlaced
<1>8. QED BY <1>5, <1>6, <1>7 DEF SessionIInv

LEMMA ModelAnswersKeeps == SessionIInv /\ ModelAnswers => SessionIInv'
<1> SUFFICES ASSUME SessionIInv, ModelAnswers PROVE SessionIInv'
  OBVIOUS
<1> DEFINE m == Msg("text", nextId, 0)
<1>0. /\ SessionTyped /\ phase = "top" /\ phase' = "idle"
      /\ history' = Append(history, m) /\ nextId' = nextId + 1 /\ Flush(history')
      /\ snapshots' = Append(snapshots, Len(history'))
      /\ UNCHANGED <<session, opened, keeping, mishap, unanswered>>
  BY DEF SessionIInv, ModelAnswers
<1>1. m \in Messages /\ m.k = "text"
  BY <1>0 DEF Msg, Messages, MessageKinds, SessionTyped
<1> HIDE DEF m
<1>2. /\ history' \in Conversations
      /\ Answered(history) => Answered(history')
      /\ Placed(history) => Placed(history')
  BY <1>0, <1>1, MessageAdded DEF SessionTyped
<1>3. snapshots' \in Seq(Nat)
  <2>1. Len(history') \in Nat
    BY <1>2, LenProperties DEF Conversations
  <2>2. QED BY <2>1, <1>0, AppendProperties DEF SessionTyped
<1>4. /\ logs' \in [1 .. MaxSessions -> Logs] /\ cursor' \in Nat
      /\ Sound /\ Answered(history') => Sound'
      /\ ResultsPlaced /\ Placed(history') /\ ~halved' =>
           \A s \in 1 .. MaxSessions : PlacedLog(logs'[s])
      /\ ~halved' => ~halved
  BY <1>0, <1>2, FlushKeeps
<1>5. SessionTyped'
  BY <1>0, <1>2, <1>3, <1>4 DEF SessionTyped
<1>6. ASSUME ~mishap' PROVE CallsAnswered'
  <2>1. CallsAnswered
    BY <1>0, <1>6 DEF SessionIInv
  <2>2. Answered(history') /\ keeping' = <<>>
    BY <2>1, <1>0, <1>2 DEF CallsAnswered
  <2>3. QED BY <2>1, <2>2, <1>0, <1>4 DEF CallsAnswered
<1>7. ASSUME ~mishap', ~halved' PROVE ResultsPlaced'
  <2>1. ResultsPlaced
    BY <1>0, <1>4, <1>7 DEF SessionIInv
  <2>2. Placed(history')
    BY <2>1, <1>2 DEF ResultsPlaced
  <2>3. QED BY <2>1, <2>2, <1>0, <1>4, <1>7 DEF ResultsPlaced
<1>8. QED BY <1>5, <1>6, <1>7 DEF SessionIInv

LEMMA AutoCompactKeeps == SessionIInv /\ AutoCompact => SessionIInv'
<1> SUFFICES ASSUME SessionIInv, AutoCompact PROVE SessionIInv'
  OBVIOUS
<1>0. SessionTyped /\ history \in Conversations /\ logs[session] \in Logs /\ session \in 1 .. MaxSessions
  BY DEF SessionIInv, SessionTyped
<1>1. PICK s \in KeepStarts(history) :
        /\ Write(<<Boundary(Tail_(history, s))>>)
        /\ history' = Injections \o <<Summary>> \o Tail_(history, s)
        /\ cursor' = 1 + Len(Tail_(history, s))
        /\ saved' = Numbers(Tail_(history, s))
  BY DEF AutoCompact
<1> DEFINE keep == Tail_(history, s)
<1>2. /\ keep \in Conversations
      /\ Answered(history) => Answered(keep)
      /\ Placed(history) => Placed(keep)
  BY <1>0, KeptTail
<1>3. /\ Write(<<Boundary(keep)>>)
      /\ history' = Injections \o <<Summary>> \o keep
      /\ cursor' = 1 + Len(keep) /\ saved' = Numbers(keep)
      /\ phase = "top" /\ UNCHANGED <<phase, session, opened, keeping, snapshots, nextId, mishap, halved>>
      /\ unanswered' = [unanswered EXCEPT ![session] = 0]
  BY <1>1 DEF AutoCompact
<1> HIDE DEF keep
<1>4. /\ history' \in Conversations
      /\ Answered(keep) => Answered(history')
      /\ Placed(keep) => Placed(history')
  <2>1. <<Summary>> \in Conversations
    BY DEF Summary, Msg, Conversations, Messages, MessageKinds
  <2>2. Injections \o <<Summary>> \o keep = Injections \o (<<Summary>> \o keep)
    BY <2>1, <1>2, InjectionsPaired, ConcatAssociative DEF Conversations
  <2>3. QED BY <2>2, <1>2, <1>3, CompactedPaired, InjectionsPaired, ConcatProperties, JoinedPaired DEF Conversations
<1> DEFINE log == logs[session] \o <<Boundary(keep)>>
<1>5. /\ log \in Logs
      /\ PlacedLog(logs[session]) /\ Placed(keep) => PlacedLog(log)
  BY <1>0, <1>2, BoundaryLogged
<1>6. /\ logs' \in [1 .. MaxSessions -> Logs] /\ logs'[session] = log
      /\ \A t \in 1 .. MaxSessions : t # session => logs'[t] = logs[t]
  BY <1>0, <1>3, <1>5, LogWritten
<1>7. SessionTyped'
  <2>1. cursor' \in Nat
    BY <1>2, <1>3, LenProperties DEF Conversations
  <2> HIDE DEF log
  <2>2. QED BY <2>1, <1>0, <1>3, <1>4, <1>6 DEF SessionTyped
<1>8. ASSUME ~mishap' PROVE CallsAnswered'
  <2>1. CallsAnswered
    BY <1>3, <1>8 DEF SessionIInv
  <2>2. Answered(keep) /\ Answered(history')
    BY <2>1, <1>2, <1>3, <1>4 DEF CallsAnswered
  <2>3. Sound'
    BY <2>1, <2>2, <1>0, <1>2, <1>3, <1>6, SoundCompacted DEF CallsAnswered
  <2>4. QED BY <2>1, <2>2, <2>3, <1>3 DEF CallsAnswered
<1>9. ASSUME ~mishap', ~halved' PROVE ResultsPlaced'
  <2> HIDE DEF log
  <2>1. ResultsPlaced
    BY <1>3, <1>9 DEF SessionIInv
  <2>2. Placed(keep) /\ Placed(history')
    BY <2>1, <1>2, <1>4 DEF ResultsPlaced
  <2>3. \A t \in 1 .. MaxSessions : PlacedLog(logs'[t])
    BY <2>1, <2>2, <1>0, <1>5, <1>6 DEF ResultsPlaced
  <2>4. QED BY <2>1, <2>2, <2>3, <1>3 DEF ResultsPlaced
<1>10. QED BY <1>7, <1>8, <1>9 DEF SessionIInv

\* A cut run leaves what it left: from there on nothing is promised.
LEMMA RunIsCutKeeps == SessionIInv /\ RunIsCut => SessionIInv'
<1> SUFFICES ASSUME SessionIInv, RunIsCut PROVE SessionIInv'
  OBVIOUS
<1>1. /\ UNCHANGED <<history, cursor, logs, session, opened, keeping, snapshots, nextId, unanswered>>
      /\ mishap' /\ phase' = "idle"
  BY DEF RunIsCut
<1>2. SessionTyped'
  BY <1>1 DEF SessionIInv, SessionTyped
<1>3. QED BY <1>1, <1>2 DEF SessionIInv

LEMMA CompactAskedKeeps == SessionIInv /\ CompactAsked => SessionIInv'
<1> SUFFICES ASSUME SessionIInv, CompactAsked PROVE SessionIInv'
  OBVIOUS
<1>0. /\ SessionTyped /\ history \in Conversations
      /\ UNCHANGED <<history, phase, cursor, logs, session, opened, snapshots, nextId, saved, halved, unanswered>>
      /\ mishap' = (mishap \/ phase # "idle")
  BY DEF SessionIInv, SessionTyped, CompactAsked
<1>1. PICK s \in KeepStarts(history) : keeping' = Tail_(history, s)
  BY DEF CompactAsked
<1>2. /\ keeping' \in Conversations
      /\ Answered(history) => Answered(keeping')
      /\ Placed(history) => Placed(keeping')
  BY <1>0, <1>1, KeptTail
<1>3. SessionTyped'
  BY <1>0, <1>2 DEF SessionTyped
<1>4. ~mishap' => ~mishap /\ phase = "idle"
  BY <1>0
<1>5. ASSUME ~mishap' PROVE CallsAnswered'
  <2>1. CallsAnswered /\ phase = "idle"
    BY <1>4, <1>5 DEF SessionIInv
  <2>2. Sound'
    BY <2>1, <1>0, SoundAsBefore DEF CallsAnswered
  <2>3. QED BY <2>1, <2>2, <1>0, <1>2 DEF CallsAnswered
<1>6. ASSUME ~mishap', ~halved' PROVE ResultsPlaced'
  <2>1. ResultsPlaced
    BY <1>0, <1>4, <1>6 DEF SessionIInv
  <2>2. QED BY <2>1, <1>0, <1>2 DEF ResultsPlaced
<1>7. QED BY <1>3, <1>5, <1>6 DEF SessionIInv

LEMMA CompactDoneKeeps == SessionIInv /\ CompactDone => SessionIInv'
<1> SUFFICES ASSUME SessionIInv, CompactDone PROVE SessionIInv'
  OBVIOUS
<1>0. /\ SessionTyped /\ keeping \in Conversations /\ logs[session] \in Logs /\ session \in 1 .. MaxSessions
      /\ keeping # <<>> /\ keeping' = <<>> /\ <<>> \in Conversations
      /\ UNCHANGED <<phase, cursor, session, opened, snapshots, nextId, mishap, halved>>
  <2>1. <<>> \in Conversations
    BY EmptySeq DEF Conversations
  <2>2. QED BY <2>1 DEF SessionIInv, SessionTyped, CompactDone, NotCompacting
<1>1. CASE /\ history' = Injections \o <<Summary>> \o keeping
           /\ Write(<<Boundary(keeping)>>) /\ saved' = Numbers(keeping)
           /\ unanswered' = [unanswered EXCEPT ![session] = 0]
  <2>1. /\ history' \in Conversations
        /\ Answered(keeping) => Answered(history')
        /\ Placed(keeping) => Placed(history')
    <3>1. <<Summary>> \in Conversations
      BY DEF Summary, Msg, Conversations, Messages, MessageKinds
    <3>2. Injections \o <<Summary>> \o keeping = Injections \o (<<Summary>> \o keeping)
      BY <3>1, <1>0, InjectionsPaired, ConcatAssociative DEF Conversations
    <3>3. QED BY <3>2, <1>0, <1>1, CompactedPaired, InjectionsPaired, ConcatProperties, JoinedPaired DEF Conversations
  <2> DEFINE log == logs[session] \o <<Boundary(keeping)>>
  <2>2. /\ log \in Logs
        /\ PlacedLog(logs[session]) /\ Placed(keeping) => PlacedLog(log)
    BY <1>0, BoundaryLogged
  <2>3. /\ logs' \in [1 .. MaxSessions -> Logs] /\ logs'[session] = log
        /\ \A t \in 1 .. MaxSessions : t # session => logs'[t] = logs[t]
    BY <1>0, <1>1, <2>2, LogWritten
  <2>4. SessionTyped'
    <3> HIDE DEF log
    <3>1. unanswered' \in [1 .. MaxSessions -> Nat]
      BY <1>0, <1>1 DEF SessionTyped
    <3>2. QED BY <3>1, <1>0, <2>1, <2>3 DEF SessionTyped
  <2>5. ASSUME ~mishap' PROVE CallsAnswered'
    <3>1. CallsAnswered /\ phase = "idle"
      BY <1>0, <2>5 DEF SessionIInv, CallsAnswered
    <3>2. Answered(history')
      BY <3>1, <2>1 DEF CallsAnswered
    <3>3. Sound'
      BY <3>1, <1>0, <1>1, <2>3, SoundCompacted DEF CallsAnswered
    <3>5. Answered(keeping')
      BY <1>0, NothingIsPaired
    <3>6. QED BY <3>1, <3>2, <3>3, <3>5, <1>0 DEF CallsAnswered
  <2>6. ASSUME ~mishap', ~halved' PROVE ResultsPlaced'
    <3> HIDE DEF log
    <3>1. ResultsPlaced
      BY <1>0, <2>6 DEF SessionIInv
    <3>2. \A t \in 1 .. MaxSessions : PlacedLog(logs'[t])
      BY <3>1, <1>0, <2>2, <2>3 DEF ResultsPlaced
    <3>3. Placed(history') /\ Placed(keeping')
      BY <3>1, <1>0, <2>1, NothingIsPaired DEF ResultsPlaced
    <3>4. QED BY <3>2, <3>3 DEF ResultsPlaced
  <2>7. QED BY <2>4, <2>5, <2>6 DEF SessionIInv
<1>2. CASE UNCHANGED <<history, logs, saved, injected, unanswered>>
  <2>1. SessionTyped'
    BY <1>0, <1>2 DEF SessionTyped
  <2>2. ASSUME ~mishap' PROVE CallsAnswered'
    <3>1. CallsAnswered
      BY <1>0, <2>2 DEF SessionIInv
    <3>2. Answered(keeping')
      BY <1>0, NothingIsPaired
    <3>3. IF phase' = "called" THEN CallIsLast' ELSE Answered(history')
      BY <3>1, <1>0, <1>2 DEF CallsAnswered
    <3>4. Sound'
      BY <3>1, <1>0, <1>2, SoundAsBefore DEF CallsAnswered
    <3>5. QED BY <3>1, <3>2, <3>3, <3>4, <1>0, <1>2 DEF CallsAnswered
  <2>3. ASSUME ~mishap', ~halved' PROVE ResultsPlaced'
    <3>1. ResultsPlaced
      BY <1>0, <2>3 DEF SessionIInv
    <3>2. QED BY <3>1, <1>0, <1>2, NothingIsPaired DEF ResultsPlaced
  <2>4. QED BY <2>1, <2>2, <2>3 DEF SessionIInv
<1>3. QED BY <1>1, <1>2 DEF CompactDone

LEMMA RewindKeeps == SessionIInv /\ RewindLog => SessionIInv'
<1> SUFFICES ASSUME SessionIInv, RewindLog PROVE SessionIInv'
  OBVIOUS
<1>0. /\ SessionTyped /\ history \in Conversations /\ snapshots \in Seq(Nat) /\ keeping = <<>>
      /\ UNCHANGED <<phase, cursor, logs, session, opened, keeping, nextId, saved, halved, unanswered>>
      /\ mishap' = \/ mishap \/ phase # "idle"
                   \/ history' # <<>> /\ history'[Len(history')].k = "calls"
  BY DEF SessionIInv, SessionTyped, RewindLog, NotCompacting
<1>1. PICK n \in DOMAIN snapshots :
        /\ history' = SubSeq(history, 1, IF snapshots[n] < Len(history)
                                          THEN snapshots[n] ELSE Len(history))
        /\ snapshots' \in {SubSeq(snapshots, 1, n), snapshots}
  BY DEF RewindLog
<1>2. /\ Len(history) \in Nat /\ Len(snapshots) \in Nat
      /\ n \in 1 .. Len(snapshots) /\ snapshots[n] \in Nat
  BY <1>0, <1>1, LenProperties, ElementOfSeq DEF Conversations
<1>3. PICK k \in 0 .. Len(history) : history' = SubSeq(history, 1, k)
  <2>1. (IF snapshots[n] < Len(history) THEN snapshots[n] ELSE Len(history)) \in 0 .. Len(history)
    BY <1>2
  <2>2. QED BY <2>1, <1>1
<1>4. /\ history' \in Conversations
      /\ Placed(history) => Placed(history')
      /\ Answered(history) /\ (history' # <<>> => history'[Len(history')].k # "calls") => Answered(history')
  BY <1>0, <1>3, PrefixPaired DEF Conversations
<1>5. snapshots' \in Seq(Nat)
  <2>1. n \in 0 .. Len(snapshots)
    BY <1>2
  <2>2. SubSeq(snapshots, 1, n) \in Seq(Nat)
    BY <2>1, <1>0, PrefixPaired
  <2>3. QED BY <2>2, <1>0, <1>1
<1>6. SessionTyped'
  BY <1>0, <1>4, <1>5 DEF SessionTyped
<1>7. ~mishap' => ~mishap /\ phase = "idle" /\ (history' # <<>> => history'[Len(history')].k # "calls")
  BY <1>0
<1>8. ASSUME ~mishap' PROVE CallsAnswered'
  <2>1. CallsAnswered /\ phase = "idle"
    BY <1>7, <1>8 DEF SessionIInv
  <2>2. Answered(history')
    BY <2>1, <1>4, <1>7, <1>8 DEF CallsAnswered
  <2>3. Sound'
    BY <2>1, <1>0, SoundAsBefore DEF CallsAnswered
  <2>4. QED BY <2>1, <2>2, <2>3, <1>0 DEF CallsAnswered
<1>9. ASSUME ~mishap', ~halved' PROVE ResultsPlaced'
  <2>1. ResultsPlaced
    BY <1>0, <1>7, <1>9 DEF SessionIInv
  <2>2. QED BY <2>1, <1>0, <1>4 DEF ResultsPlaced
<1>10. QED BY <1>6, <1>8, <1>9 DEF SessionIInv

\* Another session, an empty conversation or the same.
LEMMA OpenedKeeps ==
    ASSUME SessionIInv, opened' \in 1 .. MaxSessions, session' = opened', saved' = {},
           UNCHANGED <<cursor, logs, keeping, nextId, mishap, halved, unanswered>>, phase' = "idle",
           keeping = <<>>, snapshots' = snapshots,
           history' = <<>> \/ (history' = history /\ phase # "called")
    PROVE  SessionIInv'
<1>1. /\ history' \in Conversations
      /\ CallsAnswered => Answered(history')
      /\ ResultsPlaced => Placed(history')
  <2>1. <<>> \in Conversations
    BY EmptySeq DEF Conversations
  <2>2. QED BY <2>1, NothingIsPaired DEF SessionIInv, SessionTyped, CallsAnswered, ResultsPlaced
<1>2. SessionTyped'
  BY <1>1 DEF SessionIInv, SessionTyped
<1>3. ASSUME ~mishap' PROVE CallsAnswered'
  <2>1. CallsAnswered
    BY <1>3 DEF SessionIInv
  <2>2. Sound'
    BY <2>1, SoundElsewhere DEF CallsAnswered
  <2>3. QED BY <1>1, <2>1, <2>2 DEF CallsAnswered
<1>4. ASSUME ~mishap', ~halved' PROVE ResultsPlaced'
  BY <1>1, <1>4 DEF SessionIInv, ResultsPlaced
<1>5. QED BY <1>2, <1>3, <1>4 DEF SessionIInv

\* A process that starts again has nothing of the old one but the logs.
LEMMA StartKeeps ==
    ASSUME SessionIInv, Start, opened' \in 1 .. MaxSessions PROVE SessionIInv'
<1>0. /\ phase = "down" /\ phase' = "idle" /\ session' = opened' /\ saved' = {}
      /\ UNCHANGED <<history, cursor, logs, keeping, snapshots, nextId, mishap, halved, unanswered>>
  BY DEF Start
<1>1. SessionTyped'
  BY <1>0 DEF SessionIInv, SessionTyped
<1>2. ASSUME ~mishap' PROVE CallsAnswered'
  <2>1. CallsAnswered
    BY <1>0, <1>2 DEF SessionIInv
  <2>2. Sound'
    BY <2>1, <1>0, SoundElsewhere DEF CallsAnswered
  <2>3. QED BY <1>0, <2>1, <2>2 DEF CallsAnswered
<1>3. ASSUME ~mishap', ~halved' PROVE ResultsPlaced'
  BY <1>0, <1>3 DEF SessionIInv, ResultsPlaced
<1>4. QED BY <1>1, <1>2, <1>3 DEF SessionIInv

LEMMA NothingLogged ==
    SoundLog(<<>>, 0, {}) /\ PlacedLog(<<>>) /\ \A G : OnlyLog(<<>>, G)
<1>1. <<>> \in Logs
  BY EmptySeq DEF Logs
<1>2. Answered(FromBoundary(<<>>))
  BY <1>1, NothingIsPaired, FromBoundaryIs
<1>3. QED BY <1>2, NothingIsPaired DEF SoundLog, AnsweredLog, KeepsAnswered, PlacedLog, OnlyLog, Only

LEMMA ResumeKeeps ==
    ASSUME SessionIInv, ~mishap => NeverAnswered, NEW s \in 1 .. MaxSessions, Resume(s)
    PROVE  SessionIInv'
<1>0. /\ SessionTyped /\ logs[s] \in Logs /\ phase = "idle" /\ keeping = <<>>
      /\ session' = s /\ history' = ResumeOf(logs[s]) /\ saved' = Numbers(history')
      /\ UNCHANGED <<phase, cursor, logs, opened, keeping, snapshots, nextId, mishap, halved, unanswered>>
  BY DEF SessionIInv, SessionTyped, Resume, NotCompacting
<1>1. history' \in Conversations /\ (PlacedLog(logs[s]) => Placed(history'))
  BY <1>0, ResumedTyped
<1>2. SessionTyped'
  BY <1>0, <1>1 DEF SessionTyped
<1>3. ASSUME ~mishap' PROVE CallsAnswered'
  <2>1. CallsAnswered /\ SoundLog(logs[s], unanswered[s], KeptIn(s))
    BY <1>0, <1>3 DEF SessionIInv, CallsAnswered, Sound
  <2>2. OnlyLog(logs[s], Answerable) /\ (unanswered[s] # 0 => unanswered[s] \notin Answerable)
    BY <1>0, <1>3 DEF NeverAnswered, Answerable
  <2>3. Answered(history') /\ SoundLog(logs[s], unanswered[s], saved')
    BY <2>1, <2>2, <1>0, ResumedSound
  <2>4. Sound'
    <3> SUFFICES ASSUME NEW t \in 1 .. MaxSessions PROVE SoundLog(logs[t], unanswered[t], KeptIn(t)')
      BY <1>0 DEF Sound
    <3>1. CASE t = s
      BY <3>1, <2>3, <1>0 DEF KeptIn
    <3>2. CASE t # s
      <4>1. SoundLog(logs[t], unanswered[t], KeptIn(t)) /\ KeptIn(t)' = {}
        BY <3>2, <2>1, <1>0 DEF KeptIn, CallsAnswered, Sound
      <4>2. QED BY <4>1, SoundLess
    <3>3. QED BY <3>1, <3>2
  <2>5. QED BY <2>1, <2>3, <2>4, <1>0 DEF CallsAnswered
<1>4. ASSUME ~mishap', ~halved' PROVE ResultsPlaced'
  <2>1. ResultsPlaced
    BY <1>0, <1>4 DEF SessionIInv
  <2>2. Placed(history')
    BY <2>1, <1>1 DEF ResultsPlaced
  <2>3. QED BY <2>1, <2>2, <1>0 DEF ResultsPlaced
<1>5. QED BY <1>2, <1>3, <1>4 DEF SessionIInv

LEMMA DeleteKeeps ==
    ASSUME SessionIInv, NEW s \in 1 .. MaxSessions, Delete(s) PROVE SessionIInv'
<1>0. /\ SessionTyped /\ s # session /\ logs' = [logs EXCEPT ![s] = <<>>] /\ <<>> \in Logs
      /\ unanswered' = [unanswered EXCEPT ![s] = 0]
      /\ UNCHANGED <<history, phase, cursor, session, opened, keeping, snapshots, nextId, saved, mishap, halved>>
  BY EmptySeq DEF SessionIInv, Delete, Logs
<1>1. /\ logs' \in [1 .. MaxSessions -> Logs] /\ unanswered' \in [1 .. MaxSessions -> Nat]
      /\ \A t \in 1 .. MaxSessions : IF t = s THEN logs'[t] = <<>> /\ unanswered'[t] = 0
                                      ELSE logs'[t] = logs[t] /\ unanswered'[t] = unanswered[t]
  BY <1>0 DEF SessionTyped
<1>2. SoundLog(<<>>, 0, {}) /\ PlacedLog(<<>>)
  BY NothingLogged
<1>3. SessionTyped'
  BY <1>0, <1>1 DEF SessionTyped
<1>4. ASSUME ~mishap' PROVE CallsAnswered'
  <2>1. CallsAnswered
    BY <1>0, <1>4 DEF SessionIInv
  <2>2. Sound'
    <3> SUFFICES ASSUME NEW t \in 1 .. MaxSessions PROVE SoundLog(logs'[t], unanswered'[t], KeptIn(t)')
      BY DEF Sound
    <3>1. CASE t = s
      BY <3>1, <1>0, <1>1, <1>2 DEF KeptIn
    <3>2. CASE t # s
      BY <3>2, <2>1, <1>0, <1>1 DEF KeptIn, CallsAnswered, Sound
    <3>3. QED BY <3>1, <3>2
  <2>3. IF phase' = "called" THEN CallIsLast' ELSE Answered(history')
    BY <2>1, <1>0 DEF CallsAnswered, CallIsLast
  <2>4. QED BY <2>1, <2>2, <2>3, <1>0 DEF CallsAnswered
<1>5. ASSUME ~mishap', ~halved' PROVE ResultsPlaced'
  <2>1. ResultsPlaced
    BY <1>0, <1>5 DEF SessionIInv
  <2>2. QED BY <2>1, <1>0, <1>1, <1>2 DEF ResultsPlaced
<1>6. QED BY <1>3, <1>4, <1>5 DEF SessionIInv

LEMMA DiesKeeps ==
    ASSUME SessionTyped, Dies, logs' \in [1 .. MaxSessions -> Logs],
           unanswered' \in [1 .. MaxSessions -> Nat], nextId' \in Nat \ {0}
    PROVE  /\ SessionTyped' /\ phase' = "down" /\ keeping' = <<>> /\ history' = <<>>
           /\ UNCHANGED <<cursor, session, opened>>
<1>1. /\ phase' = "down" /\ keeping' = <<>> /\ history' = <<>> /\ snapshots' = <<>>
      /\ UNCHANGED <<cursor, session, opened>>
  BY DEF Dies, NotCompacting
<1>2. <<>> \in Conversations /\ <<>> \in Seq(Nat)
  BY EmptySeq DEF Conversations
<1>3. QED BY <1>1, <1>2 DEF SessionTyped

LEMMA CrashKeeps == SessionIInv /\ Crash => SessionIInv'
<1> SUFFICES ASSUME SessionIInv, Crash PROVE SessionIInv'
  OBVIOUS
<1>0. SessionTyped /\ Dies /\ UNCHANGED <<logs, nextId, saved, mishap, halved, unanswered>>
  BY DEF SessionIInv, Crash
<1>1. /\ SessionTyped' /\ phase' = "down" /\ keeping' = <<>> /\ history' = <<>>
      /\ UNCHANGED <<cursor, session, opened>>
  <2>1. logs' \in [1 .. MaxSessions -> Logs] /\ unanswered' \in [1 .. MaxSessions -> Nat] /\ nextId' \in Nat \ {0}
    BY <1>0 DEF SessionTyped
  <2>2. QED BY <2>1, <1>0, DiesKeeps
<1>2. ASSUME ~mishap' PROVE CallsAnswered'
  <2>1. CallsAnswered
    BY <1>0, <1>2 DEF SessionIInv
  <2>2. Sound'
    BY <2>1, <1>0, <1>1, SoundAsBefore DEF CallsAnswered
  <2>3. QED BY <2>2, <1>1, NothingIsPaired DEF CallsAnswered
<1>3. ASSUME ~mishap', ~halved' PROVE ResultsPlaced'
  BY <1>0, <1>1, <1>3, NothingIsPaired DEF SessionIInv, ResultsPlaced
<1>4. QED BY <1>1, <1>2, <1>3 DEF SessionIInv

\* The first messages of a flush.
LEMMA CutFlush ==
    ASSUME NEW ms \in Conversations, NEW last \in Messages, NEW c \in Nat,
           NEW n \in 1 .. Len(Tail_(Append(ms, last), c + 1)) - 1
    PROVE  LET new == Tail_(Append(ms, last), c + 1)
               p == SubSeq(new, 1, n)
           IN /\ p \in Conversations /\ p # <<>> /\ Len(p) = n
              /\ p[1] = new[1] /\ p[n] = new[n]
              /\ \A i \in DOMAIN p : \E j \in DOMAIN ms : p[i] = ms[j]
              /\ Answered(Append(ms, last)) =>
                   IF new[n].k = "calls" THEN Answered(SubSeq(p, 1, n - 1)) ELSE Answered(p)
              /\ Placed(Append(ms, last)) /\ new[1].k # "results" => Placed(p)
<1> DEFINE all == Append(ms, last)
           new == Tail_(all, c + 1)
           p == SubSeq(new, 1, n)
           q == SubSeq(p, 1, n - 1)
<1>1. /\ all \in Conversations /\ Len(all) = Len(ms) + 1 /\ Len(ms) \in Nat /\ DOMAIN ms = 1 .. Len(ms)
      /\ \A i \in 1 .. Len(ms) : all[i] = ms[i]
  BY AppendProperties, LenProperties DEF Conversations
<1> HIDE DEF all
<1>2. /\ new \in Conversations /\ Len(new) = (IF c + 1 <= Len(all) THEN Len(all) - (c + 1) + 1 ELSE 0)
      /\ \A i \in 1 .. Len(new) : new[i] = all[(c + 1) + i - 1]
      /\ Answered(all) => Answered(new)
      /\ Placed(all) /\ (new # <<>> => new[1].k # "results") => Placed(new)
  <2>1. c + 1 \in Nat \ {0}
    OBVIOUS
  <2>2. QED BY <2>1, <1>1, SuffixPaired DEF Conversations, Tail_
<1>3. n \in 1 .. Len(new) - 1
  BY DEF all
<1> HIDE DEF new
<1>4. Len(new) \in Nat /\ DOMAIN new = 1 .. Len(new) /\ n \in 0 .. Len(new) /\ n \in Nat \ {0}
  BY <1>2, <1>3, LenProperties DEF Conversations
<1>5. /\ p \in Conversations /\ Len(p) = n /\ \A i \in 1 .. n : p[i] = new[i]
      /\ Placed(new) => Placed(p)
      /\ Answered(new) /\ (p # <<>> => p[Len(p)].k # "calls") => Answered(p)
  BY <1>2, <1>4, PrefixPaired DEF Conversations
<1> HIDE DEF p
<1>6. DOMAIN p = 1 .. n /\ p # <<>> /\ p[1] = new[1] /\ p[n] = new[n]
  BY <1>4, <1>5, LenProperties, EmptySeq DEF Conversations
<1>7. ASSUME NEW i \in DOMAIN p PROVE \E j \in DOMAIN ms : p[i] = ms[j]
  <2>1. i \in 1 .. n /\ i \in 1 .. Len(new) /\ p[i] = new[i] /\ new[i] = all[(c + 1) + i - 1]
    BY <1>2, <1>4, <1>5, <1>6
  <2>2. Len(new) = Len(ms) + 1 - c
    BY <1>1, <1>2, <1>3, <1>4
  <2>3. (c + 1) + i - 1 \in 1 .. Len(ms)
    BY <2>1, <2>2, <1>1, <1>3
  <2>4. QED BY <2>1, <2>3, <1>1
<1>8. ASSUME Answered(all)
      PROVE  IF new[n].k = "calls" THEN Answered(q) ELSE Answered(p)
  <2>1. CASE new[n].k # "calls"
    BY <2>1, <1>2, <1>5, <1>6, <1>8
  <2>2. CASE new[n].k = "calls"
    <3>1. Answered(new)
      BY <1>2, <1>8
    <3>2. n - 1 \in 0 .. Len(p) /\ n - 1 \in 0 .. Len(new) /\ n - 1 \in Nat
      BY <1>4, <1>5
    <3>3. q \in Conversations /\ Len(q) = n - 1 /\ \A i \in 1 .. n - 1 : q[i] = p[i]
      BY <3>2, <1>5, PrefixPaired DEF Conversations
    <3> DEFINE w == SubSeq(new, 1, n - 1)
    <3>4. /\ w \in Conversations /\ Len(w) = n - 1 /\ \A i \in 1 .. n - 1 : w[i] = new[i]
          /\ Answered(new) /\ (w # <<>> => w[Len(w)].k # "calls") => Answered(w)
      BY <3>2, <1>2, PrefixPaired DEF Conversations
    <3> HIDE DEF q, w
    <3>5. q = w
      <4>1. \A i \in 1 .. n - 1 : q[i] = w[i]
        BY <3>3, <3>4, <1>5, <1>4
      <4>2. QED BY <4>1, <3>3, <3>4, SeqEqual DEF Conversations
    <3>6. ASSUME w # <<>>, w[Len(w)].k = "calls" PROVE FALSE
      <4>1. n - 1 \in 1 .. n - 1 /\ n - 1 \in DOMAIN new
        BY <3>2, <3>4, <3>6, <1>4, EmptySeq DEF Conversations
      <4>2. new[n - 1].k = "calls"
        BY <4>1, <3>4, <3>6
      <4>3. new[(n - 1) + 1].k = "results"
        BY <4>1, <4>2, <3>1 DEF Answered
      <4>4. (n - 1) + 1 = n
        BY <1>4
      <4>5. QED BY <4>3, <4>4, <2>2
    <3>7. QED BY <3>1, <3>4, <3>5, <3>6, <2>2
  <2>3. QED BY <2>1, <2>2
<1>9. ASSUME Placed(all), new[1].k # "results" PROVE Placed(p)
  BY <1>2, <1>5, <1>9
<1>10. QED BY <1>5, <1>6, <1>7, <1>8, <1>9 DEF p, new, all, q

LEMMA CrashInFlushKeeps == SessionIInv /\ CrashInFlush => SessionIInv'
<1> SUFFICES ASSUME SessionIInv, CrashInFlush PROVE SessionIInv'
  OBVIOUS
<1> DEFINE last == IF phase = "called" THEN Msg("results", nextId, nextId - 1) ELSE Msg("text", nextId, 0)
           new == Tail_(Append(history, last), cursor + 1)
           cut(n) == IF new[n].k = "calls" THEN {new[n].id} ELSE {}
<1>0. /\ SessionTyped /\ Dies /\ nextId' = nextId + 1 /\ phase \in {"top", "called"} /\ nextId > 1
      /\ history \in Conversations /\ cursor \in Nat /\ nextId \in Nat
      /\ session \in 1 .. MaxSessions /\ unanswered \in [1 .. MaxSessions -> Nat] /\ logs[session] \in Logs
  BY DEF SessionIInv, SessionTyped, CrashInFlush
<1>1. PICK n \in 1 .. Len(new) - 1 :
        /\ Write(Records(SubSeq(new, 1, n)))
        /\ saved' = saved \cup (Numbers(SubSeq(new, 1, n)) \ cut(n))
        /\ halved' = (halved \/ new[1].k = "results")
        /\ unanswered' = IF cut(n) # {} /\ unanswered[session] = 0
                         THEN [unanswered EXCEPT ![session] = new[n].id]
                         ELSE unanswered
        /\ mishap' = (mishap \/ ~(cut(n) \subseteq {nextId - 1}))
  BY DEF CrashInFlush
<1>2. last \in Messages
  BY <1>0 DEF Msg, Messages, MessageKinds
<1> DEFINE p == SubSeq(new, 1, n)
<1>3. /\ p \in Conversations /\ p # <<>> /\ Len(p) = n /\ p[1] = new[1] /\ p[n] = new[n]
      /\ \A i \in DOMAIN p : \E j \in DOMAIN history : p[i] = history[j]
      /\ Answered(Append(history, last)) =>
           IF new[n].k = "calls" THEN Answered(SubSeq(p, 1, n - 1)) ELSE Answered(p)
      /\ Placed(Append(history, last)) /\ new[1].k # "results" => Placed(p)
  <2> HIDE DEF last
  <2>1. QED BY <1>0, <1>2, CutFlush
<1>4. /\ Write(Records(p)) /\ saved' = saved \cup (Numbers(p) \ cut(n))
  BY <1>1
<1>5. /\ CallsAnswered => Answered(Append(history, last))
      /\ CallsAnswered /\ Placed(history) => Placed(Append(history, last))
  <2>1. CASE phase = "called"
    <3>1. last.k = "results" /\ last.of = nextId - 1
      BY <2>1 DEF Msg
    <3> HIDE DEF last
    <3>2. QED BY <3>1, <2>1, <1>0, <1>2, ResultsAdded DEF CallsAnswered, CallIsLast
  <2>2. CASE phase # "called"
    <3>1. last.k = "text"
      BY <2>2 DEF Msg
    <3> HIDE DEF last
    <3>2. QED BY <3>1, <2>2, <1>0, <1>2, MessageAdded DEF CallsAnswered
  <2>3. QED BY <2>1, <2>2
<1> DEFINE sort == new[n].k
           call == new[n].id
           rest == new[1].k
<1>6. /\ saved' = saved \cup (Numbers(p) \ (IF sort = "calls" THEN {call} ELSE {}))
      /\ halved' = (halved \/ rest = "results")
      /\ unanswered' = IF sort = "calls" /\ unanswered[session] = 0
                       THEN [unanswered EXCEPT ![session] = call] ELSE unanswered
      /\ mishap' = (mishap \/ (sort = "calls" /\ call # nextId - 1))
  BY <1>1
<1>7. /\ p[n].k = sort /\ p[n].id = call
      /\ Answered(Append(history, last)) =>
           IF sort = "calls" THEN Answered(SubSeq(p, 1, n - 1)) ELSE Answered(p)
      /\ Placed(Append(history, last)) /\ rest # "results" => Placed(p)
  BY <1>3
<1>8. call \in Nat
  <2>1. n \in DOMAIN p /\ p[n] \in Messages
    BY <1>3, LenProperties, ElementOfSeq DEF Conversations
  <2> HIDE DEF p, call, sort
  <2>2. QED BY <2>1, <1>7 DEF Messages
<1> HIDE DEF p, sort, call, rest, new, last
<1> DEFINE log == logs[session] \o Records(p)
<1>9. log \in Logs /\ (PlacedLog(logs[session]) /\ Placed(p) => PlacedLog(log))
  BY <1>0, <1>3, MessagesLogged
<1>10. /\ logs' \in [1 .. MaxSessions -> Logs] /\ logs'[session] = log
       /\ \A s \in 1 .. MaxSessions : s # session => logs'[s] = logs[s]
  BY <1>0, <1>4, <1>9, LogWritten
<1>11. /\ SessionTyped' /\ phase' = "down" /\ keeping' = <<>> /\ history' = <<>>
       /\ UNCHANGED <<cursor, session, opened>>
  <2>1. unanswered' \in [1 .. MaxSessions -> Nat] /\ nextId' \in Nat \ {0}
    BY <1>0, <1>6, <1>8
  <2>2. QED BY <2>1, <1>0, <1>10, DiesKeeps
<1>12. ASSUME ~mishap' PROVE CallsAnswered'
  <2>1. CallsAnswered /\ (sort = "calls" => call = nextId - 1)
    BY <1>6, <1>12 DEF SessionIInv
  <2>2. IF sort = "calls" THEN Answered(SubSeq(p, 1, n - 1)) ELSE Answered(p)
    BY <2>1, <1>5, <1>7
  <2>3. Sound'
    <3> SUFFICES ASSUME NEW s \in 1 .. MaxSessions PROVE SoundLog(logs'[s], unanswered'[s], KeptIn(s)')
      BY DEF Sound
    <3>0. SoundLog(logs[s], unanswered[s], KeptIn(s)) /\ session' = session
      BY <2>1, <1>11 DEF CallsAnswered, Sound
    <3>1. CASE s # session
      <4>1. logs'[s] = logs[s] /\ unanswered'[s] = unanswered[s] /\ KeptIn(s)' = KeptIn(s)
        BY <3>0, <3>1, <1>0, <1>6, <1>10 DEF KeptIn
      <4>2. QED BY <4>1, <3>0
    <3>2. CASE s = session
      <4>1. /\ SoundLog(logs[session], unanswered[session], saved) /\ logs'[s] = logs[session] \o Records(p)
            /\ KeptIn(s)' = saved'
        BY <3>0, <3>2, <1>10 DEF KeptIn
      <4>2. CASE sort = "calls" /\ unanswered[session] = 0
        <5>1. unanswered'[s] = call /\ saved' = saved \cup (Numbers(p) \ {call}) /\ call # 0
          BY <4>2, <3>2, <2>1, <1>0, <1>6
        <5>2. p[Len(p)].k = "calls" /\ p[Len(p)].id = call /\ Answered(SubSeq(p, 1, Len(p) - 1))
          BY <4>2, <2>2, <1>3, <1>7
        <5>3. SoundLog(logs[session] \o Records(p), p[Len(p)].id, saved \cup (Numbers(p) \ {p[Len(p)].id}))
          <6>1. SoundLog(logs[session], 0, saved) /\ p[Len(p)].id # 0
            BY <4>1, <4>2, <5>1, <5>2
          <6>2. QED BY <6>1, <5>2, <1>0, <1>3, SoundTorn
        <5>4. QED BY <5>1, <5>2, <5>3, <4>1
      <4>3. CASE ~(sort = "calls" /\ unanswered[session] = 0)
        <5>1. unanswered'[s] = unanswered[session] /\ saved' \subseteq saved \cup Numbers(p)
          BY <4>3, <3>2, <1>6
        <5>2. Answered(p) \/ unanswered[session] # 0
          BY <4>3, <2>2
        <5>3. SoundLog(logs[session] \o Records(p), unanswered[session], saved \cup Numbers(p))
          BY <5>2, <4>1, <1>0, <1>3, SoundMore
        <5>4. QED BY <5>1, <5>3, <4>1, SoundLess
      <4>4. QED BY <4>2, <4>3
    <3>3. QED BY <3>1, <3>2
  <2>4. QED BY <2>3, <1>11, NothingIsPaired DEF CallsAnswered
<1>13. ASSUME ~mishap', ~halved' PROVE ResultsPlaced'
  <2>1. ResultsPlaced /\ CallsAnswered /\ rest # "results"
    BY <1>6, <1>13 DEF SessionIInv
  <2>2. PlacedLog(logs'[session])
    BY <2>1, <1>0, <1>5, <1>7, <1>9, <1>10 DEF ResultsPlaced
  <2>3. \A s \in 1 .. MaxSessions : PlacedLog(logs'[s])
    BY <2>1, <2>2, <1>10 DEF ResultsPlaced
  <2>4. QED BY <2>3, <1>11, NothingIsPaired DEF ResultsPlaced
<1>14. QED BY <1>11, <1>12, <1>13 DEF SessionIInv

\* What may be answered only grows, but for the call a crash leaves.
LEMMA AnswerableGrows ==
    ASSUME SessionTyped, nextId' \in Nat, nextId' >= nextId,
           \A s \in 1 .. MaxSessions : unanswered'[s] = unanswered[s] \/ unanswered'[s] = 0
    PROVE  Answerable \subseteq Answerable'
<1> SUFFICES ASSUME NEW o \in Answerable PROVE o \in Answerable'
  OBVIOUS
<1>1. o \in Nat /\ o + 1 < nextId'
  BY DEF Answerable, SessionTyped
<1>2. \A s \in 1 .. MaxSessions : unanswered'[s] \in {0} \/ unanswered'[s] # o
  BY DEF Answerable
<1>3. QED BY <1>1, <1>2 DEF Answerable

\* A step that writes no results, or in one go with their call.
LEMMA NeverAnsweredMore ==
    ASSUME SessionTyped, NeverAnswered, nextId' \in Nat, nextId' >= nextId,
           \A s \in 1 .. MaxSessions : unanswered'[s] = unanswered[s] \/ unanswered'[s] = 0,
           Only(history', Answerable'), Only(keeping', Answerable'),
           \A s \in 1 .. MaxSessions : OnlyLog(logs'[s], Answerable')
    PROVE  NeverAnswered'
<1>1. ASSUME NEW s \in 1 .. MaxSessions PROVE unanswered'[s] = 0 \/ unanswered'[s] + 1 < nextId'
  <2>1. unanswered[s] \in Nat /\ nextId \in Nat /\ (unanswered[s] = 0 \/ unanswered[s] + 1 < nextId)
    BY DEF NeverAnswered, SessionTyped
  <2>2. unanswered'[s] = unanswered[s] \/ unanswered'[s] = 0
    OBVIOUS
  <2>3. QED BY <2>1, <2>2
<1>2. QED BY <1>1 DEF NeverAnswered

LEMMA OnlyLogAmongMore ==
    ASSUME NEW log, NEW G, NEW H, OnlyLog(log, G), G \subseteq H
    PROVE  OnlyLog(log, H)
  BY DEF OnlyLog, Only

LEMMA OnlyElsewhere ==
    ASSUME NeverAnswered, Answerable \subseteq Answerable'
    PROVE  /\ Only(history, Answerable') /\ Only(keeping, Answerable')
           /\ \A s \in 1 .. MaxSessions : OnlyLog(logs[s], Answerable')
  BY OnlyAmongMore, OnlyLogAmongMore DEF NeverAnswered

LEMMA OnlyAdded ==
    ASSUME NEW ms \in Conversations, NEW m \in Messages, NEW G, Only(ms, G),
           m.k = "results" => m.of \in G
    PROVE  Only(Append(ms, m), G) /\ Append(ms, m) \in Conversations
<1>1. Append(ms, m) = ms \o <<m>> /\ <<m>> \in Conversations /\ Append(ms, m) \in Conversations
  BY AppendProperties, AppendIsConcat DEF Conversations
<1>2. Only(<<m>>, G)
  BY DEF Only
<1>3. QED BY <1>1, <1>2, OnlyInJoined DEF Conversations

LEMMA OnlyCompacted ==
    ASSUME NEW keep \in Conversations, NEW G, Only(keep, G)
    PROVE  Only(Injections \o <<Summary>> \o keep, G)
<1>1. <<Summary>> \in Conversations /\ Only(<<Summary>>, G)
  BY DEF Summary, Msg, Conversations, Messages, MessageKinds, Only
<1>2. Only(Injections, G) /\ Injections \in Conversations
  BY InjectionsPaired DEF Injections, Msg, Only
<1> DEFINE a == <<Summary>>
           b == Injections
<1>3. a \in Conversations /\ b \in Conversations /\ Only(a, G) /\ Only(b, G)
  BY <1>1, <1>2
<1> HIDE DEF a, b
<1>4. b \o a \in Conversations /\ Only(b \o a, G)
  BY <1>3, OnlyInJoined, ConcatProperties DEF Conversations
<1>5. Only(b \o a \o keep, G)
  BY <1>3, <1>4, OnlyInJoined DEF Conversations
<1>6. QED BY <1>5 DEF a, b

LEMMA OnlyWritten ==
    ASSUME SessionTyped, NEW G, \A s \in 1 .. MaxSessions : OnlyLog(logs[s], G),
           NEW rs, Write(rs), logs[session] \o rs \in Logs, OnlyLog(logs[session] \o rs, G)
    PROVE  \A s \in 1 .. MaxSessions : OnlyLog(logs'[s], G)
  BY LogWritten

LEMMA TurnNeverAnswered ==
    ASSUME SessionTyped, NeverAnswered, SendTurn \/ ModelCalls \/ ToolsAnswer \/ ModelAnswers
    PROVE  NeverAnswered'
<1>0. /\ history \in Conversations /\ nextId \in Nat \ {0} /\ nextId' = nextId + 1 /\ logs[session] \in Logs
      /\ UNCHANGED <<unanswered, keeping, session>>
      /\ unanswered \in [1 .. MaxSessions -> Nat]
  BY DEF SendTurn, ModelCalls, ToolsAnswer, ModelAnswers, SessionTyped
<1>1. Answerable \subseteq Answerable'
  BY <1>0, AnswerableGrows
<1>2. /\ Only(history, Answerable') /\ Only(keeping', Answerable')
      /\ \A s \in 1 .. MaxSessions : OnlyLog(logs[s], Answerable')
  BY <1>0, <1>1, OnlyElsewhere
<1>3. PICK m \in Messages : history' = Append(history, m) /\ (m.k = "results" => m.of \in Answerable')
  <2>1. CASE SendTurn \/ ModelCalls \/ ModelAnswers
    <3>1. \A k \in {"user", "calls", "text"} : /\ Msg(k, nextId, 0) \in Messages
                                               /\ Msg(k, nextId, 0).k # "results"
      BY <1>0 DEF Msg, Messages, MessageKinds
    <3>2. QED BY <2>1, <3>1 DEF SendTurn, ModelCalls, ModelAnswers
  <2>2. CASE ToolsAnswer
    <3> DEFINE r == Msg("results", nextId, nextId - 1)
    <3>1. r \in Messages /\ r.of = nextId - 1 /\ history' = Append(history, r)
      BY <2>2, <1>0 DEF Msg, Messages, MessageKinds, ToolsAnswer
    <3>2. nextId - 1 \in Answerable'
      <4>1. nextId - 1 \in Nat /\ (nextId - 1) + 1 < nextId'
        BY <1>0
      <4>2. ASSUME NEW s \in 1 .. MaxSessions PROVE unanswered'[s] \in {0} \/ unanswered'[s] # nextId - 1
        <5>1. unanswered[s] \in Nat /\ (unanswered[s] = 0 \/ unanswered[s] + 1 < nextId)
          BY <1>0 DEF NeverAnswered
        <5>2. QED BY <5>1, <1>0
      <4>3. QED BY <4>1, <4>2 DEF Answerable
    <3> HIDE DEF r
    <3>3. QED BY <3>1, <3>2
  <2>3. QED BY <2>1, <2>2
<1>4. Only(history', Answerable') /\ history' \in Conversations
  BY <1>0, <1>2, <1>3, OnlyAdded
<1>5. \A s \in 1 .. MaxSessions : OnlyLog(logs'[s], Answerable')
  <2>1. CASE SendTurn
    <3> DEFINE u == Msg("user", nextId, 0)
    <3>1. u \in Messages /\ u.k = "user" /\ Write(<<Record(u)>>)
      BY <2>1, <1>0 DEF Msg, Messages, MessageKinds, SendTurn
    <3> HIDE DEF u
    <3>2. <<u>> \in Conversations /\ <<Record(u)>> = Records(<<u>>) /\ Only(<<u>>, Answerable')
      BY <3>1, OneRecord DEF Only
    <3>3. logs[session] \o Records(<<u>>) \in Logs /\ OnlyLog(logs[session] \o Records(<<u>>), Answerable')
      <4>1. OnlyLog(logs[session], Answerable')
        BY <1>2 DEF SessionTyped
      <4>2. QED BY <4>1, <3>2, <1>0, MessagesLogged
    <3>4. QED BY <3>1, <3>2, <3>3, <1>2, OnlyWritten
  <2>2. CASE ModelCalls
    BY <2>2, <1>2 DEF ModelCalls
  <2>3. CASE ToolsAnswer \/ ModelAnswers
    <3>1. Flush(history')
      BY <2>3 DEF ToolsAnswer, ModelAnswers
    <3>2. QED BY <3>1, <1>0, <1>2, <1>4, FlushKeeps
  <2>4. QED BY <2>1, <2>2, <2>3
<1>6. nextId' \in Nat /\ nextId' >= nextId
  BY <1>0
<1>7. QED BY <1>0, <1>2, <1>4, <1>5, <1>6, NeverAnsweredMore

LEMMA CompactionNeverAnswered ==
    ASSUME SessionTyped, NeverAnswered, AutoCompact \/ CompactAsked \/ CompactDone
    PROVE  NeverAnswered'
<1>0. /\ history \in Conversations /\ keeping \in Conversations /\ nextId \in Nat \ {0} /\ nextId' = nextId
      /\ logs[session] \in Logs /\ session \in 1 .. MaxSessions
      /\ unanswered' = unanswered \/ unanswered' = [unanswered EXCEPT ![session] = 0]
      /\ unanswered \in [1 .. MaxSessions -> Nat]
  BY DEF AutoCompact, CompactAsked, CompactDone, SessionTyped
<1>1. /\ nextId' \in Nat /\ nextId' >= nextId
      /\ \A s \in 1 .. MaxSessions : unanswered'[s] = unanswered[s] \/ unanswered'[s] = 0
  <2>1. CASE unanswered' = unanswered
    BY <2>1, <1>0
  <2>2. CASE unanswered' = [unanswered EXCEPT ![session] = 0]
    BY <2>2, <1>0
  <2>3. QED BY <2>1, <2>2, <1>0
<1>2. Answerable \subseteq Answerable'
  BY <1>1, AnswerableGrows
<1>3. /\ Only(history, Answerable') /\ Only(keeping, Answerable')
      /\ \A s \in 1 .. MaxSessions : OnlyLog(logs[s], Answerable')
  BY <1>2, OnlyElsewhere
<1>4. ASSUME NEW s \in KeepStarts(history)
      PROVE  Tail_(history, s) \in Conversations /\ Only(Tail_(history, s), Answerable')
  <2>1. Len(history) \in Nat /\ s \in Nat \ {0} /\ 0 \in 0 .. Len(history)
    <3>1. Len(history) \in Nat
      BY <1>0, LenProperties DEF Conversations
    <3>2. PICK i \in 1 .. Len(history) : s = Align(history, i) /\ s > 1
      BY DEF KeepStarts
    <3>3. s = i \/ s = i - 1
      BY <3>2 DEF Align
    <3>4. QED BY <3>1, <3>2, <3>3
  <2>2. Tail_(history, s) \in Conversations
    BY <1>0, KeptTail
  <2>3. QED BY <2>1, <2>2, <1>0, <1>3, OnlyInPart DEF Conversations, Tail_
<1>5. ASSUME NEW keep \in Conversations, Only(keep, Answerable'), Write(<<Boundary(keep)>>)
      PROVE  \A s \in 1 .. MaxSessions : OnlyLog(logs'[s], Answerable')
  <2>1. logs[session] \o <<Boundary(keep)>> \in Logs /\ OnlyLog(logs[session] \o <<Boundary(keep)>>, Answerable')
    BY <1>0, <1>3, <1>5, BoundaryLogged
  <2>2. QED BY <2>1, <1>3, <1>5, OnlyWritten
<1>6. Only(<<>>, Answerable')
  BY DEF Only
<1>7. /\ Only(history', Answerable') /\ Only(keeping', Answerable')
      /\ \A s \in 1 .. MaxSessions : OnlyLog(logs'[s], Answerable')
  <2>1. CASE AutoCompact
    <3>1. PICK s \in KeepStarts(history) :
            /\ Write(<<Boundary(Tail_(history, s))>>)
            /\ history' = Injections \o <<Summary>> \o Tail_(history, s)
      BY <2>1 DEF AutoCompact
    <3>2. keeping' = keeping
      BY <2>1 DEF AutoCompact
    <3>3. QED BY <3>1, <3>2, <1>3, <1>4, <1>5, OnlyCompacted
  <2>2. CASE CompactAsked
    <3>1. history' = history /\ logs' = logs /\ \E s \in KeepStarts(history) : keeping' = Tail_(history, s)
      BY <2>2 DEF CompactAsked
    <3>2. QED BY <3>1, <1>3, <1>4
  <2>3. CASE CompactDone
    <3>1. keeping' = <<>>
      BY <2>3 DEF CompactDone, NotCompacting
    <3>2. \/ history' = history /\ logs' = logs
          \/ history' = Injections \o <<Summary>> \o keeping /\ Write(<<Boundary(keeping)>>)
      BY <2>3 DEF CompactDone
    <3>3. QED BY <3>1, <3>2, <1>0, <1>3, <1>5, <1>6, OnlyCompacted
  <2>4. QED BY <2>1, <2>2, <2>3
<1>8. QED BY <1>1, <1>7, NeverAnsweredMore

LEMMA OtherNeverAnswered ==
    ASSUME SessionTyped, NeverAnswered,
           \/ StartLoop \/ RunIsCut \/ RewindLog \/ NewSession \/ Clear \/ Crash \/ Start
           \/ (\E s \in 1 .. MaxSessions : Resume(s) \/ Delete(s)) \/ UNCHANGED sessionVars
    PROVE  NeverAnswered'
<1>0. /\ history \in Conversations /\ keeping \in Conversations /\ nextId \in Nat \ {0} /\ nextId' = nextId
      /\ unanswered \in [1 .. MaxSessions -> Nat] /\ logs \in [1 .. MaxSessions -> Logs]
      /\ \/ unanswered' = unanswered /\ logs' = logs
         \/ \E t \in 1 .. MaxSessions : /\ unanswered' = [unanswered EXCEPT ![t] = 0]
                                        /\ logs' = [logs EXCEPT ![t] = <<>>]
  BY DEF StartLoop, RunIsCut, RewindLog, NewSession, Clear, Crash, Dies, Start, Resume, Delete,
         SessionTyped, sessionVars
<1>1. ASSUME NEW s \in 1 .. MaxSessions
      PROVE  /\ unanswered'[s] = unanswered[s] \/ unanswered'[s] = 0
             /\ logs'[s] = logs[s] \/ logs'[s] = <<>>
  <2>1. CASE unanswered' = unanswered /\ logs' = logs
    BY <2>1
  <2>2. CASE \E t \in 1 .. MaxSessions : /\ unanswered' = [unanswered EXCEPT ![t] = 0]
                                         /\ logs' = [logs EXCEPT ![t] = <<>>]
    BY <2>2, <1>0
  <2>3. QED BY <2>1, <2>2, <1>0
<1>2. nextId' \in Nat /\ nextId' >= nextId
  BY <1>0
<1>3. Answerable \subseteq Answerable'
  BY <1>1, <1>2, AnswerableGrows
<1>4. /\ Only(history, Answerable') /\ Only(keeping, Answerable')
      /\ \A s \in 1 .. MaxSessions : OnlyLog(logs[s], Answerable')
  BY <1>3, OnlyElsewhere
<1>5. \A s \in 1 .. MaxSessions : OnlyLog(logs'[s], Answerable')
  BY <1>1, <1>4, NothingLogged
<1>6. Only(<<>>, Answerable')
  BY DEF Only
<1>7. keeping' = keeping \/ keeping' = <<>>
  BY DEF StartLoop, RunIsCut, RewindLog, NewSession, Clear, Crash, Dies, Start, Resume, Delete,
         sessionVars, NotCompacting
<1>8. Only(history', Answerable')
  <2>1. CASE StartLoop
    <3>1. history' = history \/ history' = Injections \o history
      BY <2>1 DEF StartLoop
    <3>2. Only(Injections, Answerable') /\ Injections \in Conversations
      BY InjectionsPaired DEF Injections, Msg, Only
    <3>3. Only(Injections \o history, Answerable')
      BY <3>2, <1>0, <1>4, OnlyInJoined DEF Conversations
    <3>4. QED BY <3>1, <3>3, <1>4
  <2>2. CASE RewindLog
    <3>1. PICK n \in DOMAIN snapshots :
            history' = SubSeq(history, 1, IF snapshots[n] < Len(history)
                                          THEN snapshots[n] ELSE Len(history))
      BY <2>2 DEF RewindLog
    <3>2. Len(history) \in Nat /\ snapshots[n] \in Nat
      BY <1>0, LenProperties, ElementOfSeq DEF Conversations, SessionTyped
    <3>3. (IF snapshots[n] < Len(history) THEN snapshots[n] ELSE Len(history)) \in 0 .. Len(history)
      BY <3>2
    <3>4. 1 \in Nat \ {0}
      OBVIOUS
    <3>5. QED BY <3>1, <3>3, <3>4, <1>0, <1>4, OnlyInPart DEF Conversations
  <2>3. ASSUME NEW s \in 1 .. MaxSessions, Resume(s) PROVE Only(history', Answerable')
    <3>1. history' = ResumeOf(logs[s]) /\ logs[s] \in Logs
      BY <2>3, <1>0 DEF Resume
    <3>2. QED BY <3>1, <1>4, ResumedTyped
  <2>4. CASE \/ RunIsCut \/ NewSession \/ Clear \/ Crash \/ Start
             \/ (\E s \in 1 .. MaxSessions : Delete(s)) \/ UNCHANGED sessionVars
    <3>1. history' = history \/ history' = <<>>
      BY <2>4 DEF RunIsCut, NewSession, Clear, Crash, Dies, Start, Delete, sessionVars
    <3>2. QED BY <3>1, <1>4, <1>6
  <2>5. QED BY <2>1, <2>2, <2>3, <2>4
<1>9. Only(keeping', Answerable')
  BY <1>4, <1>6, <1>7
<1>10. QED BY <1>1, <1>2, <1>5, <1>8, <1>9, NeverAnsweredMore

LEMMA CrashInFlushNeverAnswered ==
    ASSUME SessionTyped, NeverAnswered, CrashInFlush, ~mishap' PROVE NeverAnswered'
<1> DEFINE last == IF phase = "called" THEN Msg("results", nextId, nextId - 1) ELSE Msg("text", nextId, 0)
           new == Tail_(Append(history, last), cursor + 1)
           cut(n) == IF new[n].k = "calls" THEN {new[n].id} ELSE {}
<1>0. /\ nextId' = nextId + 1 /\ nextId > 1 /\ nextId \in Nat
      /\ history \in Conversations /\ cursor \in Nat /\ history' = <<>> /\ keeping' = <<>>
      /\ session \in 1 .. MaxSessions /\ unanswered \in [1 .. MaxSessions -> Nat] /\ logs[session] \in Logs
  BY DEF SessionTyped, CrashInFlush, Dies, NotCompacting
<1>1. PICK n \in 1 .. Len(new) - 1 :
        /\ Write(Records(SubSeq(new, 1, n)))
        /\ unanswered' = IF cut(n) # {} /\ unanswered[session] = 0
                         THEN [unanswered EXCEPT ![session] = new[n].id]
                         ELSE unanswered
        /\ mishap' = (mishap \/ ~(cut(n) \subseteq {nextId - 1}))
  BY DEF CrashInFlush
<1>2. last \in Messages
  BY <1>0 DEF Msg, Messages, MessageKinds
<1> DEFINE p == SubSeq(new, 1, n)
<1>3. p \in Conversations /\ \A i \in DOMAIN p : \E j \in DOMAIN history : p[i] = history[j]
  <2> HIDE DEF last
  <2>1. QED BY <1>0, <1>2, CutFlush
<1>4. unanswered' = unanswered \/ unanswered' = [unanswered EXCEPT ![session] = nextId - 1]
  <2> DEFINE sort == new[n].k
             call == new[n].id
  <2>1. /\ unanswered' = IF sort = "calls" /\ unanswered[session] = 0
                         THEN [unanswered EXCEPT ![session] = call] ELSE unanswered
        /\ mishap' = (mishap \/ (sort = "calls" /\ call # nextId - 1))
    BY <1>1
  <2> HIDE DEF sort, call
  <2>2. QED BY <2>1
<1>5. Write(Records(p))
  BY <1>1
<1> HIDE DEF p, new, last
<1>6. ASSUME NEW s \in 1 .. MaxSessions
      PROVE  unanswered'[s] = unanswered[s] \/ unanswered'[s] = nextId - 1
  <2>1. CASE unanswered' = unanswered
    BY <2>1
  <2>2. CASE unanswered' = [unanswered EXCEPT ![session] = nextId - 1]
    BY <2>2, <1>0
  <2>3. QED BY <2>1, <2>2, <1>4
<1>7. Answerable \subseteq Answerable'
  <2> SUFFICES ASSUME NEW o \in Answerable PROVE o \in Answerable'
    OBVIOUS
  <2>1. o \in Nat /\ o + 1 < nextId /\ \A s \in 1 .. MaxSessions : unanswered[s] \in {0} \/ unanswered[s] # o
    BY DEF Answerable
  <2>2. o + 1 < nextId' /\ o # nextId - 1
    BY <2>1, <1>0
  <2>3. \A s \in 1 .. MaxSessions : unanswered'[s] \in {0} \/ unanswered'[s] # o
    BY <2>1, <2>2, <1>6
  <2>4. QED BY <2>1, <2>2, <2>3 DEF Answerable
<1>8. ASSUME NEW s \in 1 .. MaxSessions PROVE unanswered'[s] = 0 \/ unanswered'[s] + 1 < nextId'
  <2>1. unanswered[s] \in Nat /\ (unanswered[s] = 0 \/ unanswered[s] + 1 < nextId)
    BY <1>0 DEF NeverAnswered
  <2>2. CASE unanswered'[s] = unanswered[s]
    BY <2>1, <2>2, <1>0
  <2>3. CASE unanswered'[s] = nextId - 1
    BY <2>3, <1>0
  <2>4. QED BY <2>2, <2>3, <1>6
<1>9. /\ Only(history, Answerable')
      /\ \A s \in 1 .. MaxSessions : OnlyLog(logs[s], Answerable')
  BY <1>7, OnlyElsewhere
<1>10. Only(p, Answerable')
  BY <1>3, <1>9 DEF Only
<1>11. \A s \in 1 .. MaxSessions : OnlyLog(logs'[s], Answerable')
  <2>1. logs[session] \o Records(p) \in Logs /\ OnlyLog(logs[session] \o Records(p), Answerable')
    BY <1>0, <1>3, <1>9, <1>10, MessagesLogged
  <2>2. QED BY <2>1, <1>5, <1>9, OnlyWritten
<1>12. Only(<<>>, Answerable')
  BY DEF Only
<1>13. QED BY <1>0, <1>8, <1>11, <1>12 DEF NeverAnswered

SessionSound == SessionIInv /\ (~mishap => NeverAnswered)

LEMMA SessionStep == SessionSound /\ [SessionNext]_sessionVars => SessionSound'
<1> SUFFICES ASSUME SessionSound, [SessionNext]_sessionVars PROVE SessionSound'
  OBVIOUS
<1>0. SessionIInv /\ SessionTyped /\ (~mishap => NeverAnswered)
  BY DEF SessionSound, SessionIInv
<1>1. CASE NewSession
  <2>1. opened' \in 1 .. MaxSessions
    BY <1>0, <1>1, SessionAssumption DEF NewSession, SessionTyped
  <2>2. QED BY <1>0, <1>1, <2>1, OpenedKeeps, OtherNeverAnswered DEF NewSession, NotCompacting, SessionSound
<1>2. CASE Clear
  <2>1. opened' \in 1 .. MaxSessions
    BY <1>0, <1>2, SessionAssumption DEF Clear, SessionTyped
  <2>2. QED BY <1>0, <1>2, <2>1, OpenedKeeps, OtherNeverAnswered DEF Clear, NotCompacting, SessionSound
<1>3. CASE Start
  <2>1. opened' \in 1 .. MaxSessions
    BY <1>0, <1>3, SessionAssumption DEF Start, SessionTyped
  <2>2. mishap' = mishap
    BY <1>3 DEF Start
  <2>3. QED BY <1>0, <1>3, <2>1, <2>2, StartKeeps, OtherNeverAnswered DEF SessionSound
<1>4. CASE \E s \in 1 .. MaxSessions : Resume(s) \/ Delete(s)
  <2>1. SessionIInv'
    BY <1>0, <1>4, ResumeKeeps, DeleteKeeps
  <2>2. mishap' = mishap
    BY <1>4 DEF Resume, Delete
  <2>3. QED BY <1>0, <1>4, <2>1, <2>2, OtherNeverAnswered DEF SessionSound
<1>5. CASE UNCHANGED sessionVars
  <2>1. UNCHANGED <<history, keeping, logs, session, opened, cursor, nextId, snapshots, phase, saved,
                    mishap, halved, unanswered>>
    BY <1>5 DEF sessionVars
  <2>2. SessionTyped'
    BY <1>0, <2>1 DEF SessionTyped
  <2>3. CallsAnswered => CallsAnswered'
    BY <2>1, SoundAsBefore DEF CallsAnswered, CallIsLast
  <2>4. ResultsPlaced => ResultsPlaced'
    BY <2>1 DEF ResultsPlaced
  <2>5. SessionIInv'
    BY <1>0, <2>1, <2>2, <2>3, <2>4 DEF SessionIInv
  <2>6. QED BY <1>0, <1>5, <2>1, <2>5, OtherNeverAnswered DEF SessionSound
<1>6. CASE SendTurn \/ ModelCalls \/ ToolsAnswer \/ ModelAnswers
  <2>1. SessionIInv'
    BY <1>0, <1>6, SendTurnKeeps, ModelCallsKeeps, ToolsAnswerKeeps, ModelAnswersKeeps
  <2>2. mishap' = mishap
    BY <1>6 DEF SendTurn, ModelCalls, ToolsAnswer, ModelAnswers
  <2>3. QED BY <1>0, <1>6, <2>1, <2>2, TurnNeverAnswered DEF SessionSound
<1>7. CASE AutoCompact \/ CompactAsked \/ CompactDone
  <2>1. SessionIInv'
    BY <1>0, <1>7, AutoCompactKeeps, CompactAskedKeeps, CompactDoneKeeps
  <2>2. ~mishap' => ~mishap
    BY <1>7 DEF AutoCompact, CompactAsked, CompactDone
  <2>3. QED BY <1>0, <1>7, <2>1, <2>2, CompactionNeverAnswered DEF SessionSound
<1>8. CASE StartLoop \/ RunIsCut \/ RewindLog \/ Crash
  <2>1. SessionIInv'
    BY <1>0, <1>8, StartLoopKeeps, RunIsCutKeeps, RewindKeeps, CrashKeeps
  <2>2. ~mishap' => ~mishap
    BY <1>8 DEF StartLoop, RunIsCut, RewindLog, Crash
  <2>3. QED BY <1>0, <1>8, <2>1, <2>2, OtherNeverAnswered DEF SessionSound
<1>9. CASE CrashInFlush
  <2>1. ~mishap' => ~mishap
    BY <1>9 DEF CrashInFlush
  <2>2. QED BY <1>0, <1>9, <2>1, CrashInFlushKeeps, CrashInFlushNeverAnswered DEF SessionSound
<1>10. QED BY <1>1, <1>2, <1>3, <1>4, <1>5, <1>6, <1>7, <1>8, <1>9 DEF SessionNext

LEMMA SessionInvariance == SessionSpec => []SessionSound
<1>1. SessionInit => SessionSound
  <2> SUFFICES ASSUME SessionInit PROVE SessionSound
    OBVIOUS
  <2>1. <<>> \in Conversations /\ <<>> \in Logs /\ <<>> \in Seq(Nat)
    BY EmptySeq DEF Conversations, Logs
  <2>2. SessionTyped
    BY <2>1, SessionAssumption DEF SessionInit, SessionTyped, NotCompacting
  <2>3. /\ history = <<>> /\ keeping = <<>> /\ saved = {} /\ phase = "idle"
        /\ \A s \in 1 .. MaxSessions : logs[s] = <<>> /\ unanswered[s] = 0
    BY DEF SessionInit, NotCompacting
  <2>4. Sound
    BY <2>3, NothingLogged DEF Sound, KeptIn
  <2>5. CallsAnswered
    BY <2>3, <2>4, NothingIsPaired DEF CallsAnswered
  <2>6. ResultsPlaced
    BY <2>3, NothingLogged, NothingIsPaired DEF ResultsPlaced
  <2>7. NeverAnswered
    <3>1. \A G : Only(<<>>, G)
      BY DEF Only
    <3>2. QED BY <3>1, <2>3, NothingLogged DEF NeverAnswered
  <2>8. QED BY <2>2, <2>5, <2>6, <2>7 DEF SessionSound, SessionIInv
<1>2. QED BY <1>1, SessionStep, PTL DEF SessionSpec

LEMMA ActiveLog ==
    ASSUME SessionSound, ~mishap
    PROVE  /\ logs[session] \in Logs /\ Answered(ResumeOf(logs[session]))
           /\ saved \subseteq Numbers(ResumeOf(logs[session])) \cup Behind(logs[session], unanswered[session])
<1>1. /\ logs[session] \in Logs /\ session \in 1 .. MaxSessions /\ NeverAnswered
      /\ SoundLog(logs[session], unanswered[session], saved)
  BY DEF SessionSound, SessionIInv, SessionTyped, CallsAnswered, Sound, KeptIn
<1>2. OnlyLog(logs[session], Answerable) /\ (unanswered[session] # 0 => unanswered[session] \notin Answerable)
  BY <1>1 DEF NeverAnswered, Answerable
<1>3. QED BY <1>1, <1>2, ResumedSound

\* What the log was given survives (memory/session.py resume, app.py 1379 and
\* 1446): resuming brings back every message flushed or kept by a compaction,
\* wherever a crash cut a flush, but for what was appended behind a call whose
\* results the crash did not let into the log - unless a run was cut, or a
\* command met a running one, or the .meta file was cut short.
THEOREM NothingSavedIsLost == SessionSpec => []FlushedIsResumed
<1>1. SessionSound => FlushedIsResumed
  BY ActiveLog DEF FlushedIsResumed, Resumed
<1>2. QED BY <1>1, SessionInvariance, PTL

\* The lossless round trip of calls and results (memory/session.py:127,
\* context/manager.py:684): what is resumed is paired, whatever was compacted,
\* rewound or resumed before and wherever a crash cut a flush.
THEOREM RoundTripIsPaired == SessionSpec => []ResumedIsPaired
<1>1. SessionSound => ResumedIsPaired
  <2> SUFFICES ASSUME SessionSound, ~mishap PROVE ResumedIsPaired
    BY DEF ResumedIsPaired
  <2> DEFINE ms == Resumed(session)
  <2>1. logs[session] \in Logs /\ Answered(ResumeOf(logs[session]))
    BY ActiveLog
  <2>2. Answered(ms) /\ (PlacedLog(logs[session]) => Placed(ms)) /\ ms \in Conversations
    <3>1. <<>> \in Conversations
      BY EmptySeq DEF Conversations
    <3>2. QED BY <2>1, <3>1, ResumedTyped, NothingIsPaired DEF Resumed
  <2>3. ~halved => Placed(ms)
    BY <2>2 DEF SessionSound, SessionIInv, SessionTyped, ResultsPlaced
  <2> HIDE DEF ms
  <2>4. Len(ms) \in Nat /\ DOMAIN ms = 1 .. Len(ms)
    BY <2>2, LenProperties DEF Conversations
  <2>5. ASSUME NEW i \in DOMAIN ms, ms[i].k = "calls"
        PROVE  \E j \in i + 1 .. Len(ms) : ms[j].of = ms[i].id
    <3>1. i + 1 \in DOMAIN ms /\ ms[i + 1].of = ms[i].id
      BY <2>2, <2>5 DEF Answered
    <3>2. i + 1 \in i + 1 .. Len(ms)
      BY <3>1, <2>4
    <3>3. QED BY <3>1, <3>2
  <2>6. ASSUME NEW i \in DOMAIN ms, ms[i].k = "results", ~halved
        PROVE  \E j \in 1 .. i - 1 : ms[j].id = ms[i].of
    <3>1. i - 1 \in DOMAIN ms /\ ms[i - 1].id = ms[i].of
      BY <2>3, <2>6 DEF Placed
    <3>2. i - 1 \in 1 .. i - 1
      BY <3>1, <2>4
    <3>3. QED BY <3>1, <3>2
  <2>7. QED BY <2>5, <2>6 DEF ms, ResumedIsPaired
<1>2. QED BY <1>1, SessionInvariance, PTL

-----------------------------------------------------------------------------
(* What the budget decides of a message. *)

Rendered == [Results -> {"none", "full", "preview"}]

\* The order in which the budget goes through a message.
LEMMA AheadIsAnOrder ==
    ASSUME NEW turn \in Seq(Results), IsInjective(turn),
           NEW p \in Range(turn), NEW q \in Range(turn), NEW r \in Range(turn)
    PROVE  /\ ~Ahead(turn, p, p)
           /\ ~(Ahead(turn, p, q) /\ Ahead(turn, q, p))
           /\ Ahead(turn, p, q) /\ Ahead(turn, q, r) => Ahead(turn, p, r)
           /\ p = q \/ Ahead(turn, p, q) \/ Ahead(turn, q, p)
<1>1. PICK i \in DOMAIN turn, j \in DOMAIN turn, k \in DOMAIN turn :
        turn[i] = p /\ turn[j] = q /\ turn[k] = r
  BY DEF Range
<1>2. i \in Nat /\ j \in Nat /\ k \in Nat
  BY <1>1
<1>2a. Size[p] \in Nat /\ Size[q] \in Nat /\ Size[r] \in Nat
  <2>1. p \in Results /\ q \in Results /\ r \in Results
    BY <1>1
  <2> QED BY <2>1, ContextAssumption
<1>3. \A a, b \in DOMAIN turn : turn[a] = turn[b] => a = b
  BY DEF IsInjective
<1>4. /\ Ahead(turn, p, p) <=> Size[p] > Size[p] \/ (Size[p] = Size[p] /\ i < i)
      /\ Ahead(turn, p, q) <=> Size[p] > Size[q] \/ (Size[p] = Size[q] /\ i < j)
      /\ Ahead(turn, q, p) <=> Size[q] > Size[p] \/ (Size[q] = Size[p] /\ j < i)
      /\ Ahead(turn, q, r) <=> Size[q] > Size[r] \/ (Size[q] = Size[r] /\ j < k)
      /\ Ahead(turn, p, r) <=> Size[p] > Size[r] \/ (Size[p] = Size[r] /\ i < k)
  BY <1>1, <1>3 DEF Ahead
<1>5. i = j => p = q
  BY <1>1
<1> QED BY <1>2, <1>2a, <1>4, <1>5

LEMMA FirstOfSome ==
    ASSUME NEW turn \in Seq(Results), NEW S, S \subseteq Range(turn), S # {},
           \A r \in S : Size[r] <= SingleLimit
    PROVE  \E q \in S : \A r \in S : r = q \/ Ahead(turn, q, r)
<1>1. \A r \in S : r \in Results /\ Size[r] \in Nat /\ SingleLimit \in Nat
  <2>1. \A r \in Range(turn) : r \in Results
    BY DEF Range
  <2>2. \A r \in Results : Size[r] \in Nat
    BY ContextAssumption
  <2>3. SingleLimit \in Nat
    BY ContextAssumption
  <2> QED BY <2>1, <2>2, <2>3
<1> DEFINE Room == {SingleLimit - Size[r] : r \in S}
<1>2. Room \subseteq Nat /\ Room # {}
  BY <1>1
<1>3. PICK n \in Room : \A m \in Room : n <= m
  <2> HIDE DEF Room
  <2> QED BY <1>2, LeastNumber
<1>4. PICK a \in S : \A r \in S : Size[r] <= Size[a]
  <2>1. PICK a \in S : n = SingleLimit - Size[a]
    BY <1>3
  <2>2. ASSUME NEW r \in S PROVE Size[r] <= Size[a]
    <3>1. SingleLimit - Size[a] <= SingleLimit - Size[r]
      BY <2>1, <1>3
    <3> QED BY <3>1, <1>1
  <2> QED BY <2>2
<1> DEFINE Places == {k \in DOMAIN turn : turn[k] \in S /\ Size[turn[k]] = Size[a]}
<1>5. Places \subseteq Nat /\ Places # {}
  BY <1>4 DEF Range
<1>6. PICK k \in Places : \A l \in Places : k <= l
  <2> HIDE DEF Places
  <2> QED BY <1>5, LeastNumber
<1>7. ASSUME NEW r \in S, r # turn[k] PROVE Ahead(turn, turn[k], r)
  <2>1. PICK l \in DOMAIN turn : turn[l] = r
    BY DEF Range
  <2>2. CASE Size[r] = Size[a]
    <3>1. l \in Places
      BY <2>1, <2>2, <1>7
    <3>2. k <= l /\ k # l /\ k \in Nat /\ l \in Nat
      BY <3>1, <1>6, <1>5, <2>1, <1>7
    <3>3. k < l
      BY <3>2
    <3> QED BY <3>3, <2>1, <2>2, <1>6 DEF Ahead
  <2>3. CASE Size[r] # Size[a]
    BY <2>3, <1>1, <1>4, <1>6 DEF Ahead
  <2> QED BY <2>2, <2>3
<1> QED BY <1>6, <1>7

\* Total and decision depend on the renderings in the message only.
LEMMA TotalDepends ==
    ASSUME NEW turn \in Seq(Results), NEW one, NEW two,
           \A r \in Range(turn) : one[r] = two[r]
    PROVE  Total(one, turn) = Total(two, turn)
<1>1. \A k \in DOMAIN turn : Length(one, turn[k]) = Length(two, turn[k])
  BY DEF Length, Range
<1>2. [k \in DOMAIN turn |-> Length(one, turn[k])] = [k \in DOMAIN turn |-> Length(two, turn[k])]
  BY <1>1
<1> QED BY <1>2 DEF Total

LEMMA SpillsDepend ==
    ASSUME NEW turn \in Seq(Results), NEW one, NEW two, NEW fresh,
           \A r \in Range(turn) : one[r] = two[r]
    PROVE  Spills(one, turn, fresh) = Spills(two, turn, fresh)
<1>1. ASSUME NEW some
      PROVE  Total(AsPreviews(one, some), turn) = Total(AsPreviews(two, some), turn)
  <2>1. \A r \in Range(turn) : AsPreviews(one, some)[r] = AsPreviews(two, some)[r]
    BY DEF AsPreviews, Range
  <2> QED BY <2>1, TotalDepends
<1> QED BY <1>1 DEF Spills

LEMMA SpillsFit ==
    ASSUME NEW turn \in Seq(Results), IsInjective(turn), NEW how \in Rendered,
           NEW fresh, fresh \subseteq Range(turn), \A r \in fresh : Size[r] <= SingleLimit
    PROVE  LET P == Spills(how, turn, fresh)
           IN  /\ P \subseteq fresh \ Readbacks
               /\ P = fresh \ Readbacks \/ Total(AsPreviews(how, P), turn) <= AggregateLimit
               /\ Spills(AsPreviews(how, P), turn, fresh \ P) = {}
<1> DEFINE rest == fresh \ Readbacks
           Fits(h, F, q) == Total(AsPreviews(h, {p \in F : Ahead(turn, p, q)}), turn) <= AggregateLimit
           Out(h, F) == {r \in F : \A q \in F : q = r \/ Ahead(turn, q, r) => ~Fits(h, F, q)}
           P == Out(how, rest)
           after == AsPreviews(how, P)
<1>1. ASSUME NEW h, NEW F, F \subseteq fresh
      PROVE  Spills(h, turn, F) = Out(h, F \ Readbacks)
  <2>1. \A r \in F : Size[r] <= SingleLimit /\ Size[r] \in Nat /\ SingleLimit \in Nat
    BY <1>1, ContextAssumption DEF Range
  <2> DEFINE single == {r \in F : Size[r] > SingleLimit} \ Readbacks
             others == {r \in F : Size[r] <= SingleLimit} \ Readbacks
  <2>2. Spills(h, turn, F) =
          single \cup
            {r \in others : \A q \in others : q = r \/ Ahead(turn, q, r) =>
               ~(Total(AsPreviews(h, single \cup {p \in others : Ahead(turn, p, q)}), turn)
                   <= AggregateLimit)}
    BY DEF Spills
  <2>3. single = {} /\ others = F \ Readbacks
    BY <2>1
  <2>4. \A X : {} \cup X = X
    OBVIOUS
  <2> HIDE DEF single, others
  <2> QED BY <2>2, <2>3, <2>4
<1>2. Spills(how, turn, fresh) = P
  BY <1>1
<1>3. P \subseteq rest
  OBVIOUS
<1>4. (fresh \ P) \ Readbacks = rest \ P
  OBVIOUS
<1>5. Spills(after, turn, fresh \ P) = Out(after, rest \ P)
  <2>1. fresh \ P \subseteq fresh
    OBVIOUS
  <2> HIDE DEF P, after, rest, Out
  <2> QED BY <1>1, <1>4, <2>1
<1>6. CASE rest \ P = {}
  <2>1. P = rest /\ Out(after, rest \ P) = {}
    BY <1>6, <1>3
  <2> QED BY <2>1, <1>2, <1>5
<1>7. CASE rest \ P # {}
  <2> rest \subseteq Range(turn)
    OBVIOUS
  <2>1. PICK q \in rest \ P : \A r \in rest \ P : r = q \/ Ahead(turn, q, r)
    <3>1. rest \ P \subseteq Range(turn) /\ \A r \in rest \ P : Size[r] <= SingleLimit
      OBVIOUS
    <3> HIDE DEF P, rest
    <3> QED BY <3>1, <1>7, FirstOfSome
  <2>2. \A p \in rest : Ahead(turn, p, q) => p \in P
    <3> HIDE DEF P, rest
    <3> QED BY <2>1, AheadIsAnOrder
  <2>3. PICK s \in rest : (s = q \/ Ahead(turn, s, q)) /\ Fits(how, rest, s)
    <3> HIDE DEF Fits
    <3> QED BY <2>1
  <2>4. \A p \in P, o \in rest : o = p \/ Ahead(turn, o, p) => ~Fits(how, rest, o)
    <3> HIDE DEF Fits
    <3> QED OBVIOUS
  <2> HIDE DEF P, rest, Fits
  <2>5. s = q
    BY <2>2, <2>3, <2>4
  <2>6. \A p \in P : Ahead(turn, p, q)
    BY <2>1, <2>3, <2>4, <2>5, <1>3, AheadIsAnOrder
  <2>7. {p \in rest : Ahead(turn, p, q)} = P
    BY <2>2, <2>6, <1>3
  <2>8. Total(after, turn) <= AggregateLimit
    BY <2>3, <2>5, <2>7 DEF Fits
  <2>9. {p \in rest \ P : Ahead(turn, p, q)} = {}
    BY <2>2
  <2>10. AsPreviews(after, {}) = after
    BY DEF AsPreviews
  <2>11. Fits(after, rest \ P, q)
    BY <2>8, <2>9, <2>10 DEF Fits
  <2>12. Out(after, rest \ P) = {}
    BY <2>1, <2>11
  <2> QED BY <1>2, <1>3, <1>5, <2>8, <2>12 DEF rest
<1> QED BY <1>6, <1>7

\* A message as the budget leaves it when it has decided nothing of it before.
Final(how, turn) ==
    AsPreviews(how, Spills(how, turn, {r \in Range(turn) : how[r] # "preview"}))

LEMMA FinalDepends ==
    ASSUME NEW turn \in Seq(Results), NEW one, NEW two,
           \A r \in Range(turn) : one[r] = two[r]
    PROVE  \A r \in Range(turn) : Final(one, turn)[r] = Final(two, turn)[r]
<1>1. {r \in Range(turn) : one[r] # "preview"} = {r \in Range(turn) : two[r] # "preview"}
  OBVIOUS
<1>2. Spills(one, turn, {r \in Range(turn) : one[r] # "preview"})
        = Spills(two, turn, {r \in Range(turn) : two[r] # "preview"})
  <2>1. \A F : Spills(one, turn, F) = Spills(two, turn, F)
    BY SpillsDepend
  <2> QED BY <1>1, <2>1
<1>3. Range(turn) \subseteq Results
  BY DEF Range
<1> QED BY <1>2, <1>3 DEF Final, AsPreviews

\* Decided again from what it has decided, the budget leaves the message alone.
LEMMA FinalIsStable ==
    ASSUME NEW turn \in Seq(Results), IsInjective(turn), NEW how \in Rendered,
           \A r \in Range(turn) : how[r] # "none" /\ (how[r] = "full" => Size[r] <= SingleLimit)
    PROVE  /\ Final(how, turn) \in Rendered
           /\ \A r \in Range(turn) :
                /\ Final(how, turn)[r] # "none"
                /\ Final(how, turn)[r] = "full" => how[r] = "full"
                /\ how[r] = "preview" => Final(how, turn)[r] = "preview"
           /\ \/ Total(Final(how, turn), turn) <= AggregateLimit
              \/ \A r \in Range(turn) : Final(how, turn)[r] = "preview" \/ r \in Readbacks
           /\ Final(Final(how, turn), turn) = Final(how, turn)
<1> DEFINE fresh == {r \in Range(turn) : how[r] # "preview"}
           P == Spills(how, turn, fresh)
           done == AsPreviews(how, P)
<1>1. Range(turn) \subseteq Results
  BY DEF Range
<1>2. fresh \subseteq Range(turn) /\ \A r \in fresh : Size[r] <= SingleLimit
  BY <1>1 DEF Rendered
<1>3. /\ P \subseteq fresh \ Readbacks
      /\ P = fresh \ Readbacks \/ Total(done, turn) <= AggregateLimit
      /\ Spills(done, turn, fresh \ P) = {}
  <2> HIDE DEF fresh
  <2> QED BY <1>2, SpillsFit
<1>4. Final(how, turn) = done
  BY DEF Final
<1> HIDE DEF P
<1>5. done \in Rendered /\ \A r \in Results : done[r] = IF r \in P THEN "preview" ELSE how[r]
  BY DEF AsPreviews, Rendered
<1>6. {r \in Range(turn) : done[r] # "preview"} = fresh \ P
  BY <1>1, <1>5
<1>7. AsPreviews(done, {}) = done
  BY DEF AsPreviews
<1>8. Final(done, turn) = done
  BY <1>3, <1>6, <1>7 DEF Final
<1>9. \A r \in Range(turn) : how[r] \in {"full", "preview"}
  BY <1>1 DEF Rendered
<1> HIDE DEF done
<1> QED BY <1>1, <1>3, <1>4, <1>5, <1>8, <1>9

-----------------------------------------------------------------------------
(* The conversation. *)

ContextTypeOK ==
    /\ turns \in Seq(Seq(Results))
    /\ shown \in Rendered /\ sentAs \in Rendered /\ logged \in Rendered
    /\ seen \subseteq Results /\ replacements \subseteq Results
    /\ spilled \subseteq Results /\ cleaned \subseteq Results
    /\ ctxPc \in {"turn", "budget", "compact", "rebudget", "send"}

\* A result stands in one place of the conversation; whatever was rendered, sent
\* or decided is not free for another turn.
InOnePlace ==
    /\ \A i, j \in DOMAIN turns : \A a \in DOMAIN turns[i], b \in DOMAIN turns[j] :
         turns[i][a] = turns[j][b] => i = j /\ a = b
    /\ \A r \in InConversation : shown[r] # "none" /\ logged[r] # "none"
    /\ seen \cup replacements \cup {r \in Results : sentAs[r] # "none"} \subseteq Used
    /\ \A r \in InConversation : logged[r] = "full" => Size[r] <= SingleLimit

\* A message is as the log has it, with nothing decided of it, or as the budget
\* has decided; a replacement is a preview.
Untouched(turn) ==
    /\ Range(turn) \cap (seen \cup replacements) = {}
    /\ \A r \in Range(turn) : shown[r] = logged[r]
Settled(turn) ==
    /\ Range(turn) \subseteq seen
    /\ \A r \in Range(turn) : shown[r] = Final(logged, turn)[r]
    /\ \A r \in Range(turn) \cap replacements : shown[r] = "preview"
Decisions ==
    \A i \in DOMAIN turns : Settled(turns[i]) \/ (ctxPc = "budget" /\ Untouched(turns[i]))

\* The first sending is what the budget makes of the log, whenever it does so.
SentIsFinal ==
    \A i \in DOMAIN turns : \A r \in Range(turns[i]) :
        sentAs[r] # "none" => sentAs[r] = Final(logged, turns[i])[r]

PreviewsHaveFiles ==
    \A r \in InConversation : shown[r] = "preview" \/ logged[r] = "preview" => r \in spilled \cup cleaned

ContextIInv == ContextTypeOK /\ InOnePlace /\ Decisions /\ SentIsFinal /\ PreviewsHaveFiles

\* A message of the conversation as the lemmas about the budget want it.
LEMMA MessageIsOrderly ==
    ASSUME ContextIInv, NEW i \in DOMAIN turns
    PROVE  /\ turns[i] \in Seq(Results) /\ IsInjective(turns[i])
           /\ Range(turns[i]) \subseteq InConversation /\ Range(turns[i]) \subseteq Results
           /\ \A r \in Range(turns[i]) :
                logged[r] # "none" /\ (logged[r] = "full" => Size[r] <= SingleLimit)
<1>1. turns[i] \in Seq(Results) /\ Range(turns[i]) \subseteq InConversation
  BY DEF ContextIInv, ContextTypeOK, InConversation
<1>2. Range(turns[i]) \subseteq Results
  BY <1>1 DEF Range
<1>3. IsInjective(turns[i])
  BY DEF ContextIInv, InOnePlace, IsInjective
<1> QED BY <1>1, <1>2, <1>3 DEF ContextIInv, InOnePlace

LEMMA InOneMessage ==
    ASSUME ContextIInv, NEW i \in DOMAIN turns, NEW j \in DOMAIN turns,
           NEW r \in Range(turns[i]), r \in Range(turns[j])
    PROVE  i = j
BY DEF ContextIInv, InOnePlace, Range

\* What a settled message keeps when the log is rewritten from the screen.
LEMMA SettledIsFinal ==
    ASSUME ContextIInv, NEW i \in DOMAIN turns, Settled(turns[i]), NEW log,
           \A r \in Range(turns[i]) : log[r] = shown[r]
    PROVE  \A r \in Range(turns[i]) : Final(log, turns[i])[r] = Final(logged, turns[i])[r]
<1> DEFINE turn == turns[i]
           final == Final(logged, turn)
<1>1. turn \in Seq(Results)
  BY MessageIsOrderly
<1>2. logged \in Rendered
  BY DEF ContextIInv, ContextTypeOK
<1>3. Final(final, turn) = final
  BY <1>2, MessageIsOrderly, FinalIsStable
<1>4. \A r \in Range(turn) : log[r] = final[r]
  BY DEF Settled
<1> HIDE DEF turn, final
<1>5. \A r \in Range(turn) : Final(log, turn)[r] = Final(final, turn)[r]
  BY <1>1, <1>4, FinalDepends
<1> QED BY <1>3, <1>5 DEF turn, final

LEMMA BudgetSettles ==
    ASSUME ContextIInv, ctxPc \in {"budget", "rebudget"}, ApplyBudget, UNCHANGED <<turns, logged>>
    PROVE  /\ shown' \in Rendered /\ seen' \subseteq Results /\ replacements' \subseteq Results
           /\ spilled \subseteq spilled' /\ spilled' \subseteq Results
           /\ \A r \in Results : (shown'[r] = "none" <=> shown[r] = "none")
           /\ seen' \cup replacements' \subseteq Used'
           /\ \A r \in InConversation : shown'[r] = "preview" => shown[r] = "preview" \/ r \in spilled'
           /\ \A i \in DOMAIN turns : Settled(turns[i])'
<1> DEFINE recalled == AsPreviews(shown, InConversation \cap replacements)
           Fresh(turn) == {r \in Range(turn) \ (seen \cup replacements) : shown[r] # "preview"}
           S(i) == Spills(shown, turns[i], Fresh(turns[i]))
           spills == UNION {S(i) : i \in DOMAIN turns}
<1>1. recalled = shown
  <2>1. ASSUME NEW r \in InConversation \cap replacements PROVE shown[r] = "preview"
    <3>1. PICK i \in DOMAIN turns : r \in Range(turns[i])
      BY DEF InConversation
    <3> QED BY <2>1, <3>1 DEF ContextIInv, Decisions, Settled, Untouched
  <2> QED BY <2>1 DEF AsPreviews, ContextIInv, ContextTypeOK, Rendered
<1>2. /\ shown' = AsPreviews(shown, spills)
      /\ seen' = seen \cup (InConversation \ replacements)
      /\ replacements' = replacements \cup {r \in InConversation \ seen : shown'[r] = "preview"}
      /\ spilled' = spilled \cup spills
  <2>1. /\ shown' = AsPreviews(recalled, UNION {Spills(recalled, turns[i], Fresh(turns[i])) : i \in DOMAIN turns})
        /\ seen' = seen \cup (InConversation \ replacements)
        /\ replacements' = replacements \cup {r \in InConversation \ seen : shown'[r] = "preview"}
        /\ spilled' = spilled \cup UNION {Spills(recalled, turns[i], Fresh(turns[i])) : i \in DOMAIN turns}
    BY DEF ApplyBudget
  <2> HIDE DEF recalled, Fresh
  <2> QED BY <2>1, <1>1
<1>3. ASSUME NEW i \in DOMAIN turns
      PROVE  /\ S(i) \subseteq Fresh(turns[i])
             /\ Settled(turns[i]) => S(i) = {}
             /\ Untouched(turns[i]) =>
                  \A r \in Range(turns[i]) :
                    Final(logged, turns[i])[r] = IF r \in S(i) THEN "preview" ELSE shown[r]
  <2>1. Settled(turns[i]) => Fresh(turns[i]) = {}
    BY DEF Settled
  <2>2. Spills(shown, turns[i], {}) = {}
    BY DEF Spills
  <2>3. ASSUME Untouched(turns[i])
        PROVE  /\ Fresh(turns[i]) = {r \in Range(turns[i]) : logged[r] # "preview"}
               /\ S(i) \subseteq Fresh(turns[i])
               /\ \A r \in Range(turns[i]) :
                    Final(logged, turns[i])[r] = IF r \in S(i) THEN "preview" ELSE shown[r]
    <3>1. Fresh(turns[i]) = {r \in Range(turns[i]) : logged[r] # "preview"}
      BY <2>3 DEF Untouched
    <3> DEFINE F == Fresh(turns[i])
    <3>2. shown \in Rendered /\ \A r \in F : Size[r] <= SingleLimit
      BY <3>1, MessageIsOrderly DEF ContextIInv, ContextTypeOK, Rendered
    <3>3. F \subseteq Range(turns[i])
      OBVIOUS
    <3>4. S(i) \subseteq F
      <4> HIDE DEF Fresh
      <4> QED BY <3>2, <3>3, MessageIsOrderly, SpillsFit
    <3>5. \A r \in Range(turns[i]) : shown[r] = logged[r]
      BY <2>3 DEF Untouched
    <3>6. S(i) = Spills(logged, turns[i], F)
      <4> HIDE DEF F
      <4>1. \A G : Spills(shown, turns[i], G) = Spills(logged, turns[i], G)
        BY <3>5, MessageIsOrderly, SpillsDepend
      <4> QED BY <4>1 DEF F
    <3>7. Final(logged, turns[i]) = AsPreviews(logged, S(i))
      BY <3>1, <3>6 DEF Final
    <3>8. Range(turns[i]) \subseteq Results
      BY MessageIsOrderly
    <3> HIDE DEF S, Fresh
    <3> QED BY <3>1, <3>4, <3>5, <3>7, <3>8 DEF AsPreviews
  <2>4. Settled(turns[i]) \/ Untouched(turns[i])
    BY DEF ContextIInv, Decisions
  <2> HIDE DEF Fresh
  <2> QED BY <2>1, <2>2, <2>3, <2>4
<1> HIDE DEF S
<1>4. spills \subseteq InConversation /\ InConversation \subseteq Results
  <2>1. \A i \in DOMAIN turns : Range(turns[i]) \subseteq InConversation /\ Range(turns[i]) \subseteq Results
    BY MessageIsOrderly
  <2> QED BY <2>1, <1>3 DEF InConversation
<1>5. ASSUME NEW i \in DOMAIN turns, NEW r \in Range(turns[i]) PROVE r \in spills <=> r \in S(i)
  BY <1>3, <1>5, InOneMessage
<1>6. \A r \in Results : shown'[r] = IF r \in spills THEN "preview" ELSE shown[r]
  BY <1>2 DEF AsPreviews
<1> HIDE DEF spills, recalled
<1>7. /\ shown' \in Rendered /\ seen' \subseteq Results /\ replacements' \subseteq Results
      /\ spilled \subseteq spilled' /\ spilled' \subseteq Results
  BY <1>2, <1>4 DEF AsPreviews, ContextIInv, ContextTypeOK, Rendered
<1>8. \A r \in InConversation : shown[r] # "none"
  BY DEF ContextIInv, InOnePlace
<1>9. \A r \in Results : (shown'[r] = "none" <=> shown[r] = "none")
  BY <1>4, <1>6, <1>8
<1>10. seen' \cup replacements' \subseteq Used'
  BY <1>2, <1>4, <1>8, <1>9 DEF ContextIInv, InOnePlace, Used
<1>11. \A r \in InConversation : shown'[r] = "preview" => shown[r] = "preview" \/ r \in spilled'
  BY <1>2, <1>4, <1>6
<1>12. ASSUME NEW i \in DOMAIN turns PROVE Settled(turns[i])'
  <2>1. Range(turns[i]) \subseteq InConversation /\ Range(turns[i]) \subseteq Results
    BY MessageIsOrderly
  <2>2. Settled(turns[i]) \/ Untouched(turns[i])
    BY DEF ContextIInv, Decisions
  <2>3. Range(turns[i]) \subseteq seen'
    BY <1>2, <2>1, <2>2 DEF Settled, Untouched
  <2>4. \A r \in Range(turns[i]) : shown'[r] = Final(logged, turns[i])[r]
    BY <1>3, <1>5, <1>6, <2>1, <2>2 DEF Settled
  <2>5. \A r \in Range(turns[i]) \cap replacements' : shown'[r] = "preview"
    BY <1>2, <1>6, <2>1, <2>2 DEF Settled, Untouched
  <2> QED BY <2>3, <2>4, <2>5 DEF Settled
<1> QED BY <1>7, <1>9, <1>10, <1>11, <1>12

LEMMA TurnKeepsContext == ASSUME ContextIInv, TurnEnds PROVE ContextIInv'
<1> DEFINE Free(t) == t \in Seq(Results \ Used) /\ t # <<>> /\ IsInjective(t)
<1>1. PICK turn : /\ Free(turn)
                  /\ LET big == {r \in Range(turn) : Size[r] > SingleLimit}
                     IN /\ turns' = Append(turns, turn)
                        /\ shown' = [r \in Results |-> IF r \in big THEN "preview"
                                                       ELSE IF r \in Range(turn) THEN "full" ELSE shown[r]]
                        /\ spilled' = spilled \cup big
                        /\ logged' = [r \in Results |-> IF r \in Range(turn) THEN shown'[r] ELSE logged[r]]
  <2>1. \A t \in SeqOf(Results \ Used, MaxTurnSize) : t \in Seq(Results \ Used)
    BY DEF SeqOf
  <2> QED BY <2>1 DEF TurnEnds
<1>2. /\ ctxPc = "turn" /\ ctxPc' = "budget"
      /\ UNCHANGED <<seen, replacements, sentAs, cleaned>>
  BY DEF TurnEnds, decisionVars
<1>3. turn \in Seq(Results) /\ Range(turn) \subseteq Results /\ Range(turn) \cap Used = {}
  BY <1>1 DEF Range
<1>4. /\ turns' \in Seq(Seq(Results)) /\ DOMAIN turns = 1 .. Len(turns) /\ Len(turns) \in Nat
      /\ DOMAIN turns' = 1 .. Len(turns) + 1
      /\ \A i \in DOMAIN turns : turns'[i] = turns[i]
      /\ turns'[Len(turns) + 1] = turn
  BY <1>1, <1>3 DEF ContextIInv, ContextTypeOK
<1>5. InConversation' = InConversation \cup Range(turn)
  <2>1. Len(turns) + 1 \in DOMAIN turns' /\ DOMAIN turns \subseteq DOMAIN turns'
        /\ \A i \in DOMAIN turns' : i \in DOMAIN turns \/ i = Len(turns) + 1
    BY <1>4
  <2>2. ASSUME NEW r \in InConversation' PROVE r \in InConversation \cup Range(turn)
    <3>1. PICK i \in DOMAIN turns' : r \in Range(turns'[i])
      BY DEF InConversation
    <3> QED BY <1>4, <2>1, <3>1 DEF InConversation
  <2>3. ASSUME NEW r \in InConversation PROVE r \in InConversation'
    <3>1. PICK i \in DOMAIN turns : r \in Range(turns[i])
      BY DEF InConversation
    <3> QED BY <1>4, <2>1, <3>1 DEF InConversation
  <2>4. Range(turn) \subseteq InConversation'
    BY <1>4, <2>1 DEF InConversation
  <2> QED BY <2>2, <2>3, <2>4
<1>6. InConversation \subseteq Results /\ InConversation \subseteq Used /\ InConversation \cap Range(turn) = {}
  <2>1. InConversation \subseteq Results
    BY MessageIsOrderly DEF InConversation
  <2> QED BY <1>3, <2>1 DEF ContextIInv, InOnePlace, Used
<1>7. /\ \A r \in Results \ Range(turn) : shown'[r] = shown[r] /\ logged'[r] = logged[r]
      /\ \A r \in Range(turn) : /\ shown'[r] = (IF Size[r] > SingleLimit THEN "preview" ELSE "full")
                                /\ logged'[r] = shown'[r]
                                /\ Size[r] > SingleLimit => r \in spilled'
      /\ shown' \in Rendered /\ logged' \in Rendered
      /\ spilled \subseteq spilled' /\ spilled' \subseteq Results
  BY <1>1, <1>3 DEF ContextIInv, ContextTypeOK, Rendered
<1>8. \A r \in Range(turn) : r \notin seen \cup replacements /\ sentAs[r] = "none"
  BY <1>3 DEF ContextIInv, InOnePlace
<1>9. ContextTypeOK'
  BY <1>2, <1>4, <1>7 DEF ContextIInv, ContextTypeOK
<1>10. ASSUME NEW i \in DOMAIN turns', NEW j \in DOMAIN turns',
              NEW a \in DOMAIN turns'[i], NEW b \in DOMAIN turns'[j], turns'[i][a] = turns'[j][b]
       PROVE  i = j /\ a = b
  <2>1. \A k \in DOMAIN turns : \A c \in DOMAIN turns[k] : turns[k][c] \in InConversation
    BY DEF InConversation, Range
  <2>2. \A c \in DOMAIN turn : turn[c] \in Range(turn)
    BY DEF Range
  <2>3. \A k \in DOMAIN turns' : k \in DOMAIN turns \/ k = Len(turns) + 1
    BY <1>4
  <2>4. CASE i \in DOMAIN turns /\ j \in DOMAIN turns
    BY <1>4, <1>10, <2>4 DEF ContextIInv, InOnePlace
  <2>5. CASE i \notin DOMAIN turns /\ j \notin DOMAIN turns
    BY <1>1, <1>4, <1>10, <2>3, <2>5 DEF IsInjective
  <2>6. CASE i \in DOMAIN turns /\ j \notin DOMAIN turns
    BY <1>4, <1>6, <1>10, <2>1, <2>2, <2>3, <2>6
  <2>7. CASE i \notin DOMAIN turns /\ j \in DOMAIN turns
    BY <1>4, <1>6, <1>10, <2>1, <2>2, <2>3, <2>7
  <2> QED BY <2>4, <2>5, <2>6, <2>7
<1>11. InOnePlace'
  <2>1. \A r \in InConversation' : shown'[r] # "none" /\ logged'[r] # "none"
    BY <1>5, <1>6, <1>7 DEF ContextIInv, InOnePlace
  <2>2. \A r \in InConversation' : logged'[r] = "full" => Size[r] <= SingleLimit
    <3>1. \A r \in Range(turn) : Size[r] \in Nat /\ SingleLimit \in Nat
      BY <1>3, ContextAssumption
    <3> QED BY <1>5, <1>6, <1>7, <3>1 DEF ContextIInv, InOnePlace
  <2>3. Used \subseteq Used'
    BY <1>3, <1>7 DEF Used
  <2> QED BY <1>2, <1>10, <2>1, <2>2, <2>3 DEF ContextIInv, InOnePlace
<1>12. \A i \in DOMAIN turns : \A r \in Range(turns[i]) :
         Final(logged', turns[i])[r] = Final(logged, turns[i])[r]
  <2> TAKE i \in DOMAIN turns
  <2>1. turns[i] \in Seq(Results) /\ \A r \in Range(turns[i]) : logged'[r] = logged[r]
    BY <1>6, <1>7, MessageIsOrderly
  <2> QED BY <2>1, FinalDepends
<1>13. Decisions' /\ SentIsFinal'
  <2>1. ASSUME NEW i \in DOMAIN turns'
        PROVE  /\ Settled(turns[i])' \/ Untouched(turns[i])'
               /\ \A r \in Range(turns'[i]) : sentAs'[r] # "none" => sentAs'[r] = Final(logged', turns'[i])[r]
    <3>1. CASE i \in DOMAIN turns
      <4>1. turns'[i] = turns[i] /\ Range(turns[i]) \subseteq Results \ Range(turn)
        BY <1>4, <1>6, <3>1, MessageIsOrderly
      <4>2. Settled(turns[i])
        BY <1>2, <3>1 DEF ContextIInv, Decisions
      <4>3. Settled(turns[i])'
        BY <1>2, <1>7, <1>12, <3>1, <4>1, <4>2 DEF Settled
      <4> QED BY <1>2, <1>12, <3>1, <4>1, <4>3 DEF ContextIInv, SentIsFinal
    <3>2. CASE i = Len(turns) + 1
      <4>1. turns'[i] = turn
        BY <1>4, <3>2
      <4>2. Untouched(turns[i])'
        BY <1>2, <1>7, <1>8, <4>1 DEF Untouched
      <4> QED BY <1>2, <1>8, <4>1, <4>2
    <3> QED BY <1>4, <3>1, <3>2
  <2> QED BY <1>2, <2>1 DEF Decisions, SentIsFinal
<1>14. PreviewsHaveFiles'
  BY <1>2, <1>5, <1>6, <1>7 DEF ContextIInv, PreviewsHaveFiles
<1> QED BY <1>9, <1>11, <1>13, <1>14 DEF ContextIInv

LEMMA BudgetKeepsContext ==
    ASSUME ContextIInv, ctxPc \in {"budget", "rebudget"}, ApplyBudget,
           UNCHANGED <<turns, sentAs, logged>>, ctxPc' \in {"compact", "send"},
           cleaned' = cleaned \ (spilled' \ spilled) \/ cleaned' = cleaned
    PROVE  ContextIInv'
<1>1. /\ shown' \in Rendered /\ seen' \subseteq Results /\ replacements' \subseteq Results
      /\ spilled \subseteq spilled' /\ spilled' \subseteq Results
      /\ \A r \in Results : (shown'[r] = "none" <=> shown[r] = "none")
      /\ seen' \cup replacements' \subseteq Used'
      /\ \A r \in InConversation : shown'[r] = "preview" => shown[r] = "preview" \/ r \in spilled'
      /\ \A i \in DOMAIN turns : Settled(turns[i])'
  BY BudgetSettles
<1>2. ContextTypeOK'
  BY <1>1 DEF ContextIInv, ContextTypeOK
<1>3. InConversation' = InConversation /\ InConversation \subseteq Results
  BY MessageIsOrderly DEF InConversation
<1>4. InOnePlace'
  <2>1. Used' = Used
    BY <1>1 DEF Used
  <2> QED BY <1>1, <1>3, <2>1 DEF ContextIInv, InOnePlace
<1>5. Decisions' /\ SentIsFinal'
  BY <1>1 DEF Decisions, ContextIInv, SentIsFinal
<1>6. PreviewsHaveFiles'
  <2>1. spilled \cup cleaned \subseteq spilled' \cup cleaned'
    BY <1>1
  <2> QED BY <1>1, <1>3, <2>1 DEF ContextIInv, PreviewsHaveFiles
<1> QED BY <1>2, <1>4, <1>5, <1>6 DEF ContextIInv

LEMMA SummaryKeepsContext ==
    ASSUME ContextIInv, ctxPc = "compact", Summarise, ctxPc' = "rebudget", UNCHANGED sentAs
    PROVE  ContextIInv'
<1>1. PICK keep \in 2 .. Len(turns) + 1 :
        LET tail == SubSeq(turns, keep, Len(turns))
            kept == UNION {Range(tail[i]) : i \in DOMAIN tail}
        IN /\ turns' = tail
           /\ logged' = [r \in Results |-> IF r \in kept THEN shown[r] ELSE logged[r]]
           /\ cleaned' = {r \in kept : shown[r] = "preview"}
  BY DEF Summarise
<1>2. spilled' = {} /\ UNCHANGED <<shown, seen, replacements>>
  BY DEF Summarise, decisionVars
<1>3. turns \in Seq(Seq(Results)) /\ Len(turns) \in Nat /\ DOMAIN turns = 1 .. Len(turns) /\ keep \in Nat
  BY DEF ContextIInv, ContextTypeOK
<1>4. /\ turns' \in Seq(Seq(Results))
      /\ \A i \in DOMAIN turns' : i \in Nat /\ i + keep - 1 \in DOMAIN turns /\ turns'[i] = turns[i + keep - 1]
  <2>1. /\ SubSeq(turns, keep, Len(turns)) \in Seq(Seq(Results))
        /\ Len(SubSeq(turns, keep, Len(turns))) = IF keep <= Len(turns) THEN Len(turns) - keep + 1 ELSE 0
        /\ \A i \in 1 .. (Len(turns) - keep + 1) : SubSeq(turns, keep, Len(turns))[i] = turns[keep + i - 1]
    BY <1>3, SubSeqProperties
  <2> DEFINE tail == SubSeq(turns, keep, Len(turns))
  <2>2. DOMAIN tail = 1 .. Len(tail) /\ turns' = tail
    BY <1>1, <2>1
  <2> HIDE DEF tail
  <2>3. ASSUME NEW i \in DOMAIN tail
        PROVE  i \in Nat /\ i + keep - 1 \in DOMAIN turns /\ tail[i] = turns[i + keep - 1]
    <3>1. i \in 1 .. (Len(turns) - keep + 1) /\ i \in Nat
      BY <1>3, <2>1, <2>2 DEF tail
    <3>2. tail[i] = turns[keep + i - 1]
      BY <2>1, <3>1 DEF tail
    <3>3. keep + i - 1 = i + keep - 1 /\ i + keep - 1 \in 1 .. Len(turns)
      BY <1>3, <3>1
    <3> QED BY <1>3, <3>1, <3>2, <3>3
  <2> QED BY <2>1, <2>2, <2>3 DEF tail
<1>5. InConversation' \subseteq InConversation /\ InConversation \subseteq Results
  <2>1. InConversation \subseteq Results
    BY MessageIsOrderly DEF InConversation
  <2> QED BY <1>4, <2>1 DEF InConversation
<1>6. /\ logged' = [r \in Results |-> IF r \in InConversation' THEN shown[r] ELSE logged[r]]
      /\ cleaned' = {r \in InConversation' : shown[r] = "preview"}
  BY <1>1 DEF InConversation
<1>7. \A r \in InConversation' : logged'[r] = shown[r]
  BY <1>5, <1>6
<1>8. ContextTypeOK'
  BY <1>2, <1>4, <1>5, <1>6 DEF ContextIInv, ContextTypeOK, Rendered
<1>9. \A i \in DOMAIN turns : Settled(turns[i])
  BY DEF ContextIInv, Decisions
<1>10. ASSUME NEW i \in DOMAIN turns'
       PROVE  /\ Range(turns'[i]) \subseteq InConversation'
              /\ \A r \in Range(turns'[i]) : Final(logged', turns'[i])[r] = shown[r]
              /\ \A r \in Range(turns'[i]) : /\ r \in seen
                                             /\ r \in replacements => shown[r] = "preview"
                                             /\ sentAs[r] # "none" => sentAs[r] = shown[r]
                                             /\ shown[r] = "full" => Size[r] <= SingleLimit
  <2>1. PICK k \in DOMAIN turns : turns'[i] = turns[k]
    BY <1>4, <1>10
  <2>2. Range(turns'[i]) \subseteq InConversation'
    BY DEF InConversation
  <2>3. \A r \in Range(turns[k]) : logged'[r] = shown[r]
    BY <1>7, <2>1, <2>2
  <2>4. \A r \in Range(turns[k]) : Final(logged', turns[k])[r] = Final(logged, turns[k])[r]
    BY <1>9, <2>3, SettledIsFinal
  <2>5. \A r \in Range(turns[k]) : shown[r] = Final(logged, turns[k])[r]
    BY <1>9 DEF Settled
  <2>6. \A r \in Range(turns[k]) : Final(logged, turns[k])[r] = "full" => logged[r] = "full"
    <3>1. logged \in Rendered
      BY DEF ContextIInv, ContextTypeOK
    <3> QED BY <3>1, MessageIsOrderly, FinalIsStable
  <2>7. \A r \in Range(turns[k]) : shown[r] = "full" => Size[r] <= SingleLimit
    BY <2>5, <2>6, MessageIsOrderly
  <2>8. \A r \in Range(turns[k]) : /\ r \in seen
                                   /\ r \in replacements => shown[r] = "preview"
                                   /\ sentAs[r] # "none" => sentAs[r] = shown[r]
    BY <1>9, <2>5 DEF Settled, ContextIInv, SentIsFinal
  <2> QED BY <2>1, <2>2, <2>4, <2>5, <2>7, <2>8
<1>11. InOnePlace'
  <2>1. Used' = Used
    BY <1>2 DEF Used
  <2>2. \A r \in InConversation' : shown[r] = "full" => Size[r] <= SingleLimit
    BY <1>10 DEF InConversation
  <2>3. ASSUME NEW i \in DOMAIN turns', NEW j \in DOMAIN turns',
               NEW a \in DOMAIN turns'[i], NEW b \in DOMAIN turns'[j], turns'[i][a] = turns'[j][b]
        PROVE  i = j /\ a = b
    <3>1. i + keep - 1 = j + keep - 1 /\ a = b
      BY <1>4, <2>3 DEF ContextIInv, InOnePlace
    <3>2. i \in Nat /\ j \in Nat
      BY <1>4
    <3> QED BY <1>3, <3>1, <3>2
  <2> QED BY <1>2, <1>5, <1>7, <2>1, <2>2, <2>3 DEF ContextIInv, InOnePlace
<1>12. Decisions' /\ SentIsFinal'
  <2>1. ASSUME NEW i \in DOMAIN turns' PROVE Settled(turns[i])'
    BY <1>2, <1>10 DEF Settled
  <2> QED BY <1>2, <1>10, <2>1 DEF Decisions, SentIsFinal
<1>13. PreviewsHaveFiles'
  BY <1>2, <1>6, <1>7 DEF PreviewsHaveFiles
<1> QED BY <1>8, <1>11, <1>12, <1>13 DEF ContextIInv

LEMMA ReloadKeepsContext == ASSUME ContextIInv, Reload PROVE ContextIInv'
<1>1. /\ seen' = {} /\ replacements' = {}
      /\ shown' = [r \in Results |-> IF r \in InConversation THEN logged[r] ELSE shown[r]]
      /\ ctxPc' = "budget" /\ UNCHANGED <<turns, spilled, sentAs, logged, cleaned>>
  BY DEF Reload
<1>2. InConversation' = InConversation /\ InConversation \subseteq Results
  BY <1>1, MessageIsOrderly DEF InConversation
<1>3. ContextTypeOK'
  BY <1>1 DEF ContextIInv, ContextTypeOK, Rendered
<1>4. Used' = Used
  BY <1>1, <1>2 DEF ContextIInv, InOnePlace, Used
<1>5. InOnePlace'
  BY <1>1, <1>2, <1>4 DEF ContextIInv, InOnePlace
<1>6. ASSUME NEW i \in DOMAIN turns PROVE Untouched(turns[i])'
  BY <1>1, <1>2, MessageIsOrderly DEF Untouched
<1>7. Decisions' /\ SentIsFinal'
  BY <1>1, <1>6 DEF ContextIInv, Decisions, SentIsFinal
<1>8. PreviewsHaveFiles'
  BY <1>1, <1>2 DEF ContextIInv, PreviewsHaveFiles
<1> QED BY <1>3, <1>5, <1>7, <1>8 DEF ContextIInv

LEMMA SendKeepsContext == ASSUME ContextIInv, SendRequest PROVE ContextIInv'
<1>1. /\ ctxPc = "send" /\ ctxPc' = "turn"
      /\ sentAs' = [r \in Results |-> IF r \in InConversation THEN shown[r] ELSE sentAs[r]]
      /\ UNCHANGED <<turns, shown, seen, replacements, spilled, logged, cleaned>>
  BY DEF SendRequest, decisionVars
<1>2. InConversation' = InConversation /\ InConversation \subseteq Results /\ Used' = Used
  BY <1>1, MessageIsOrderly DEF InConversation, Used
<1>3. ContextTypeOK'
  BY <1>1 DEF ContextIInv, ContextTypeOK, Rendered
<1>4. InOnePlace'
  BY <1>1, <1>2 DEF ContextIInv, InOnePlace, Used
<1>5. \A i \in DOMAIN turns : Settled(turns[i])
  BY <1>1 DEF ContextIInv, Decisions
<1>6. Decisions'
  BY <1>1, <1>5 DEF Decisions, Settled
<1>7. SentIsFinal'
  BY <1>1, <1>2, <1>5, MessageIsOrderly DEF SentIsFinal, Settled
<1>8. PreviewsHaveFiles'
  BY <1>1, <1>2 DEF ContextIInv, PreviewsHaveFiles
<1> QED BY <1>3, <1>4, <1>6, <1>7, <1>8 DEF ContextIInv

LEMMA ContextInvariant == ContextSpec => []ContextIInv
<1>1. ContextInit => ContextIInv
  <2> SUFFICES ASSUME ContextInit PROVE ContextIInv
    OBVIOUS
  <2>1. turns = <<>> /\ DOMAIN turns = {} /\ InConversation = {}
    BY DEF ContextInit, InConversation
  <2>2. ContextTypeOK
    BY <2>1 DEF ContextInit, ContextTypeOK, Rendered
  <2> QED BY <2>1, <2>2 DEF ContextInit, ContextIInv, InOnePlace, Decisions, SentIsFinal, PreviewsHaveFiles
<1>2. ContextIInv /\ [ContextNext]_contextVars => ContextIInv'
  <2> SUFFICES ASSUME ContextIInv, [ContextNext]_contextVars PROVE ContextIInv'
    OBVIOUS
  <2>1. CASE TurnEnds
    BY <2>1, TurnKeepsContext
  <2>2. CASE Budget
    BY <2>2, BudgetKeepsContext DEF Budget
  <2>3. CASE Rebudget
    BY <2>3, BudgetKeepsContext DEF Rebudget
  <2>4. CASE AutoCompactStep
    <3>1. ctxPc = "compact" /\ UNCHANGED sentAs
      BY <2>4 DEF AutoCompactStep
    <3>2. CASE Summarise /\ ctxPc' = "rebudget"
      BY <3>1, <3>2, SummaryKeepsContext
    <3>3. CASE /\ ctxPc' = "send"
               /\ UNCHANGED <<turns, shown, seen, replacements, spilled, logged, cleaned>>
      <4>1. InConversation' = InConversation /\ Used' = Used
        BY <3>3 DEF InConversation, Used
      <4>2. \A i \in DOMAIN turns : Settled(turns[i])
        BY <3>1 DEF ContextIInv, Decisions
      <4>3. Decisions' /\ SentIsFinal' /\ PreviewsHaveFiles'
        BY <3>1, <3>3, <4>1, <4>2 DEF ContextIInv, Decisions, Settled, SentIsFinal, PreviewsHaveFiles
      <4>4. ContextTypeOK' /\ InOnePlace'
        BY <3>1, <3>3, <4>1 DEF ContextIInv, ContextTypeOK, InOnePlace, Used
      <4> QED BY <4>3, <4>4 DEF ContextIInv
    <3> QED BY <2>4, <3>2, <3>3 DEF AutoCompactStep, SummaryFails, decisionVars
  <2>5. CASE SendRequest
    BY <2>5, SendKeepsContext
  <2>6. CASE Reload
    BY <2>6, ReloadKeepsContext
  <2>7. CASE UNCHANGED contextVars
    <3>1. InConversation' = InConversation /\ Used' = Used
      BY <2>7 DEF contextVars, InConversation, Used
    <3> QED BY <2>7, <3>1 DEF contextVars, decisionVars, ContextIInv, ContextTypeOK, InOnePlace, Decisions,
                              Settled, Untouched, SentIsFinal, PreviewsHaveFiles
  <2> QED BY <2>1, <2>2, <2>3, <2>4, <2>5, <2>6, <2>7 DEF ContextNext
<1> QED BY <1>1, <1>2, PTL DEF ContextSpec

\* What was sent once is sent in that form ever after.
THEOREM SentFormsAreKept == ContextSpec => SentFormIsFrozen
<1>1. ASSUME ContextIInv, [ContextNext]_contextVars
      PROVE  [\A r \in Results : sentAs[r] # "none" => sentAs'[r] = sentAs[r]]_contextVars
  <2>1. CASE SendRequest
    <3>1. \A i \in DOMAIN turns : \A r \in Range(turns[i]) :
            sentAs[r] # "none" => sentAs[r] = shown[r]
      <4>1. \A i \in DOMAIN turns : Settled(turns[i])
        BY <1>1, <2>1 DEF SendRequest, ContextIInv, Decisions
      <4> QED BY <1>1, <4>1 DEF Settled, ContextIInv, SentIsFinal
    <3>2. \A r \in InConversation : sentAs[r] # "none" => sentAs[r] = shown[r]
      BY <3>1 DEF InConversation
    <3> QED BY <2>1, <3>2 DEF SendRequest
  <2>2. CASE UNCHANGED sentAs
    BY <2>2
  <2> QED BY <1>1, <2>1, <2>2
       DEF ContextNext, TurnEnds, Budget, Rebudget, AutoCompactStep, Reload, contextVars
<1> QED BY <1>1, ContextInvariant, PTL DEF ContextSpec, SentFormIsFrozen

\* What is sent fits, or has nothing left to spill.
THEOREM WhatIsSentFits == ContextSpec => []MessagesWithinBudget
<1>1. ContextIInv => MessagesWithinBudget
  <2> SUFFICES ASSUME ContextIInv, ctxPc = "send", NEW i \in DOMAIN turns
               PROVE  \/ Total(shown, turns[i]) <= AggregateLimit
                      \/ \A r \in Range(turns[i]) : shown[r] = "preview" \/ r \in Readbacks
    BY DEF MessagesWithinBudget
  <2>1. \A r \in Range(turns[i]) : shown[r] = Final(logged, turns[i])[r]
    BY DEF ContextIInv, Decisions, Settled
  <2>2. Total(shown, turns[i]) = Total(Final(logged, turns[i]), turns[i])
    BY <2>1, MessageIsOrderly, TotalDepends
  <2>3. \/ Total(Final(logged, turns[i]), turns[i]) <= AggregateLimit
        \/ \A r \in Range(turns[i]) : Final(logged, turns[i])[r] = "preview" \/ r \in Readbacks
    <3>1. logged \in Rendered
      BY DEF ContextIInv, ContextTypeOK
    <3> QED BY <3>1, MessageIsOrderly, FinalIsStable
  <2> QED BY <2>1, <2>2, <2>3
<1> QED BY <1>1, ContextInvariant, PTL

\* A preview names a file that is there, or that a compaction removed.
THEOREM PreviewsAreBacked == ContextSpec => []PreviewHasItsFile
<1>1. ContextIInv => PreviewHasItsFile
  BY DEF ContextIInv, PreviewsHaveFiles, PreviewHasItsFile
<1> QED BY <1>1, ContextInvariant, PTL
=============================================================================
