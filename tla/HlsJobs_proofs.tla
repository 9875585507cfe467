--------------------------- MODULE HlsJobs_proofs ---------------------------
(***************************************************************************)
(* Proofs about HlsJobs for any number of starts, seeks and stop requests: *)
(* a task can always be stopped, active rows have somebody who will settle *)
(* them, and a key or a device never has two transcodes that nobody stops. *)
(***************************************************************************)
EXTENDS HlsJobs, TLAPS

Unclaimed(s) == pc[s] \in {"absent", "idle", "check", "create", "claim", "conflict"}

(* A generation that writes its session's row before it ends.              *)
Generation == {"prepare", "permit", "writing", "redo", "scrap", "record"}

(* The sessions nobody has asked to stop and that have not ended.          *)
Undisturbed(s) == s \notin told /\ ~ \E x \in Actors : Holds(x, s)
Intact == {s \in Sessions \ overtaken : Undisturbed(s) /\ (Claimed(s) \/ Wanted(s))}

(* Where a session's start is when there is a task, a sender or somebody   *)
(* who has the sender: a task only after the start is over, the sender     *)
(* already before the launch, and still when the start was dropped there.  *)
Places ==
    /\ \A s \in Sessions : task[s] # "none" => pc[s] = "done"
    /\ \A s \in Sessions : s \in sender \cup told => pc[s] \in {"launch", "vanished", "done"}
    /\ \A x \in Actors, s \in Sessions :
            Holds(x, s) => pc[s] \in {"launch", "vanished", "done"} /\ s \notin sender

(* A start that is about to launch its task can be told to stop it.        *)
Registered ==
    \A s \in Sessions :
        pc[s] = "launch" => s \in sender \cup told \/ \E x \in Actors : Holds(x, s)

(* Who ends has an outcome to record.                                      *)
Outcomes ==
    /\ \A s \in Sessions : task[s] = "ended" => outcome[s] \in Terminal
    /\ \A q \in Seekers : pc[q] = "record" => outcome[q] \in Terminal

(* Rows exist from the claim on, and requests act on rows that exist.      *)
RowsExist ==
    /\ \A s \in Sessions : Unclaimed(s) => status[s] = "none"
    /\ \A s \in Sessions : Claimed(s) \/ task[s] # "none" => status[s] # "none"
    /\ \A x \in Seekers \cup Stoppers : pc[x] \notin {"absent", "idle", "done"} => status[target[x]] # "none"
    /\ \A s \in Sessions : pc[s] \in {"take", "mark_stopping", "send", "mark_stopped", "clean"} =>
            status[target[s]] # "none"
    /\ \A s \in Sessions : \A t \in todo[s] : status[t] # "none"

(* The partial unique index.                                               *)
IndexUnique ==
    \A s, t \in Sessions : s # t /\ want[s].key = want[t].key => ~(status[s] \in Active /\ status[t] \in Active)

(* The row of an intact session is active, for whoever would write another *)
(* status there knows that the session is not intact.                      *)
IntactActive == \A s \in Intact : up /\ status[s] \in Active

MarkersKnow == \A x \in Actors : pc[x] = "mark_stopped" => target[x] \notin Intact

SeekersKnow ==
    \A q \in Seekers :
         \/ pc[q] \in {"await", "clean", "publish"} \cup Generation
         \/ pc[q] = "decide" /\ snap[q] \notin Active
         => target[q] \notin Intact

(* The locks of keys and devices.                                          *)
LocksHeld ==
    \A s, t \in Sessions : s # t /\ Starting(s) /\ Starting(t) =>
        want[s].key # want[t].key /\ want[s].device # want[t].device

(* A start has dealt with the other sessions of its device before it       *)
(* spawns, and those that come later deal with it.                         *)
Rivals(s, t) == s # t /\ want[s].device = want[t].device

DeviceListed ==
    \A s \in Intact, t \in Sessions :
        Rivals(s, t) /\ Claimed(t) /\ pc[t] # "list" => s \in todo[t] \/ (pc[t] = "take" /\ target[t] = s)

DeviceTaken ==
    \A s, t \in Intact : Rivals(s, t) => Claimed(s) \/ Claimed(t)

AllDealtWith == \A t \in Sessions : pc[t] \in {"spawn", "launch"} => todo[t] = {}

IInv ==
    /\ TypeOK /\ Places /\ Outcomes /\ RowsExist
    /\ Registered /\ Stoppable /\ ActiveRowsOwned /\ IndexUnique
    /\ IntactActive /\ MarkersKnow /\ SeekersKnow
    /\ LocksHeld /\ DeviceListed /\ DeviceTaken /\ AllDealtWith

(* The state all conjuncts but the types speak of.                         *)
Core == <<want, row, sender, told, task, outcome, req, up>>

(* The sessions whose row is claimed in a step.                            *)
Joining == {u \in Sessions : pc[u] = "claim" /\ pc'[u] = "list"}

-----------------------------------------------------------------------------
(* Serving a file, the passing of time and the retention sweep leave that  *)
(* state alone.                                                            *)
LEMMA QuietStep ==
    ASSUME \/ \E s \in Sessions : Touch(s) \/ Age(s) \/ SweepClean(s) \/ SweepOrphan(s)
           \/ \E listed \in SUBSET Sessions : SweepList(listed)
           \/ UNCHANGED vars
    PROVE  UNCHANGED Core
  BY DEF Core, Touch, Age, SweepClean, SweepOrphan, SweepList, vars, row, reg, job, req, sys

-----------------------------------------------------------------------------
(* Facts about intact sessions.                                            *)

(* A session whose sender somebody holds, or whose task has ended, is not  *)
(* intact.                                                                 *)
LEMMA StoppedNotIntact ==
    ASSUME IInv
    PROVE  /\ \A x \in Actors : pc[x] \in {"mark_stopping", "send"} => target[x] \notin Intact
           /\ \A s \in Sessions : task[s] = "ended" => s \notin Intact
<1>1. Places /\ target \in [Actors -> Sessions]
  BY DEF IInv, TypeOK
<1> QED
  BY <1>1 DEF Places, Intact, Undisturbed, Claimed, Starting, Wanted, Holds

(* When the registry has been asked for a session's sender, the session is *)
(* not intact any more: the sender is in the hands of the one who asked,   *)
(* or the task is told, ending or not yet registered.                      *)
LEMMA TakenNotIntact ==
    ASSUME IInv, NEW x \in Actors, TakeSender(x)
    PROVE  target[x] \notin Intact'
<1>1. /\ pc \in [Actors -> Labels] /\ target \in [Actors -> Sessions]
      /\ Places /\ Stoppable
  BY DEF IInv, TypeOK
<1> QED
  BY <1>1 DEF TakeSender, Goto, Places, Stoppable, Live, Intact, Undisturbed,
     Claimed, Starting, Wanted, Holds, row, reg, job, req, sys

(* No session survives a crash intact.                                     *)
LEMMA CrashIntact ==
    ASSUME IInv, Crash
    PROVE  Intact' = {}
<1>1. Places
  BY DEF IInv
<1> QED
  BY <1>1 DEF Crash, Places, Intact, Undisturbed, Claimed, Starting, Wanted, Live, Actors

(* A session becomes intact with the claim of its row and in no other way. *)
LEMMA IntactStep ==
    ASSUME IInv, [Next]_vars
    PROVE  Intact' \subseteq Intact \cup Joining
<1> USE DEF row, reg, job, req, sys
<1>0. /\ pc \in [Actors -> Labels] /\ target \in [Actors -> Sessions]
      /\ task \in [Sessions -> TaskLabels]
      /\ Places
  BY DEF IInv, TypeOK
<1>2. ASSUME NEW s \in Sessions, Start(s)
      PROVE  Intact' \subseteq Intact \cup Joining
  BY <1>0, <1>2, ActorsDisjoint DEF Intact, Undisturbed, Joining, Places,
     Claimed, Starting, Wanted, Live, Holds, Actors, Start, Begin, Goto,
     Reuse, Create, SetDir, Claim, SetStatus, Conflict, List, NextSuperseded,
     Register, Launch, GotoTask
<1>3. ASSUME NEW s \in Sessions, TaskStep(s)
      PROVE  Intact' \subseteq Intact \cup Joining
  BY <1>0, <1>3, ActorsDisjoint DEF Intact, Undisturbed, Joining, Places,
     Claimed, Starting, Wanted, Live, Holds, Actors, TaskStep, Acquire,
     GotoTask, End, StopQueued, MarkRunning, TrySetStatus, SetStatus,
     StopWriting, Killed, RetryMark, RetryDir, SetDir, Record, Unregister,
     CleanUp
<1>4. ASSUME NEW s \in Sessions, Exit(s)
      PROVE  Intact' \subseteq Intact \cup Joining
  BY <1>0, <1>4, ActorsDisjoint DEF Intact, Undisturbed, Joining, Places,
     Claimed, Starting, Wanted, Live, Holds, Actors, Exit, ExitWell, SetDir,
     End, GotoTask, ExitBadly, QuotaStop
<1>5. ASSUME NEW x \in Actors, StopProtocol(x)
      PROVE  Intact' \subseteq Intact \cup Joining
  BY <1>0, <1>5, ActorsDisjoint DEF Intact, Undisturbed, Joining, Places,
     Claimed, Starting, Wanted, Live, Holds, Actors, StopProtocol, TakeSender,
     Goto, MarkStopping, SetStatus, SendStop, AfterSend, MarkStopped,
     CleanFiles, SetDir, AfterClean
<1>6. ASSUME NEW r \in Stoppers, NEW s \in Sessions, StopRequest(r, s)
      PROVE  Intact' \subseteq Intact \cup Joining
  BY <1>0, <1>6, ActorsDisjoint DEF Intact, Undisturbed, Joining, Places,
     Claimed, Starting, Wanted, Live, Holds, Actors, StopRequest, Goto
<1>7. ASSUME NEW q \in Seekers, Seek(q)
      PROVE  Intact' \subseteq Intact \cup Joining
  BY <1>0, <1>7, ActorsDisjoint DEF Intact, Undisturbed, Joining, Places,
     Claimed, Starting, Wanted, Live, Holds, Actors, Seek, SeekRequest,
     TouchSession, Goto, EnterGeneration, ReadRow, Decide, Await, Publish,
     SetStatus, Prepare, MakeDir, SetDir, GenerationEnds, Permit, GiveUp,
     Generate, GenerateAgain, Scrap, RecordGeneration
<1>8. CASE Crash
  BY <1>0, <1>8, ActorsDisjoint DEF Intact, Undisturbed, Joining, Places,
     Claimed, Starting, Wanted, Live, Holds, Actors, Crash
<1>9. ASSUME NEW s \in Sessions, Reconcile(s)
      PROVE  Intact' \subseteq Intact \cup Joining
  BY <1>0, <1>9, ActorsDisjoint DEF Intact, Undisturbed, Joining, Places,
     Claimed, Starting, Wanted, Live, Holds, Actors, Reconcile, SetStatus,
     SetDir
<1>10. CASE Serve
  BY <1>0, <1>10, ActorsDisjoint DEF Intact, Undisturbed, Joining, Places,
     Claimed, Starting, Wanted, Live, Holds, Actors, Serve
<1>11. CASE UNCHANGED Core
  BY <1>0, <1>11 DEF Core, Intact, Undisturbed, Joining, Places, Claimed,
     Starting, Wanted, Live, Holds, Actors
<1>12. ASSUME NEW x \in Actors, Vanish(x)
      PROVE  Intact' \subseteq Intact \cup Joining
  BY <1>0, <1>12, ActorsDisjoint DEF Intact, Undisturbed, Joining, Places,
     Claimed, Starting, Wanted, Live, Holds, Actors, Vanish, Goto
<1> QED
  BY <1>2, <1>3, <1>4, <1>5, <1>6, <1>7, <1>8, <1>9, <1>10, <1>11, <1>12,
     QuietStep DEF Next

(* A task, a sender and a request that holds the sender exist only after   *)
(* the start of the session is over.                                       *)
LEMMA PlacesStep ==
    ASSUME IInv, [Next]_vars
    PROVE  Places'
<1> USE DEF row, reg, job, req, sys
<1>0. /\ pc \in [Actors -> Labels] /\ target \in [Actors -> Sessions]
      /\ task \in [Sessions -> TaskLabels]
      /\ Places
  BY DEF IInv, TypeOK
<1>2. ASSUME NEW s \in Sessions, Start(s)
      PROVE  Places'
  BY <1>0, <1>2, ActorsDisjoint DEF Places, Holds, Actors, Start, Begin, Goto,
     Reuse, Create, SetDir, Claim, SetStatus, Conflict, List, NextSuperseded,
     Register, Launch, GotoTask
<1>3. ASSUME NEW s \in Sessions, TaskStep(s)
      PROVE  Places'
  BY <1>0, <1>3, ActorsDisjoint DEF Places, Holds, Actors, TaskStep, Acquire,
     GotoTask, End, StopQueued, MarkRunning, TrySetStatus, SetStatus,
     StopWriting, Killed, RetryMark, RetryDir, SetDir, Record, Unregister,
     CleanUp
<1>4. ASSUME NEW s \in Sessions, Exit(s)
      PROVE  Places'
  BY <1>0, <1>4, ActorsDisjoint DEF Places, Holds, Actors, Exit, ExitWell,
     SetDir, End, GotoTask, ExitBadly, QuotaStop
<1>5. ASSUME NEW x \in Actors, StopProtocol(x)
      PROVE  Places'
  BY <1>0, <1>5, ActorsDisjoint DEF Places, Holds, Actors, StopProtocol,
     TakeSender, Goto, MarkStopping, SetStatus, SendStop, AfterSend,
     MarkStopped, CleanFiles, SetDir, AfterClean
<1>6. ASSUME NEW r \in Stoppers, NEW s \in Sessions, StopRequest(r, s)
      PROVE  Places'
  BY <1>0, <1>6, ActorsDisjoint DEF Places, Holds, Actors, StopRequest, Goto
<1>7. ASSUME NEW q \in Seekers, Seek(q)
      PROVE  Places'
  BY <1>0, <1>7, ActorsDisjoint DEF Places, Holds, Actors, Seek, SeekRequest,
     TouchSession, Goto, EnterGeneration, ReadRow, Decide, Await, Publish,
     SetStatus, Prepare, MakeDir, SetDir, GenerationEnds, Permit, GiveUp,
     Generate, GenerateAgain, Scrap, RecordGeneration
<1>8. CASE Crash
  BY <1>0, <1>8, ActorsDisjoint DEF Places, Holds, Actors, Crash
<1>9. ASSUME NEW s \in Sessions, Reconcile(s)
      PROVE  Places'
  BY <1>0, <1>9, ActorsDisjoint DEF Places, Holds, Actors, Reconcile,
     SetStatus, SetDir
<1>10. CASE Serve
  BY <1>0, <1>10, ActorsDisjoint DEF Places, Holds, Actors, Serve
<1>11. CASE UNCHANGED Core
  BY <1>0, <1>11 DEF Core, Places, Holds, Actors
<1>12. ASSUME NEW x \in Actors, Vanish(x)
      PROVE  Places'
  BY <1>0, <1>12, ActorsDisjoint DEF Places, Holds, Actors, Vanish, Goto
<1> QED
  BY <1>2, <1>3, <1>4, <1>5, <1>6, <1>7, <1>8, <1>9, <1>10, <1>11, <1>12,
     QuietStep DEF Next

(* Whoever goes to record an outcome has just drawn one.                   *)
LEMMA OutcomesStep ==
    ASSUME IInv, [Next]_vars
    PROVE  Outcomes'
<1> USE DEF row, reg, job, req, sys
<1>0. /\ pc \in [Actors -> Labels] /\ target \in [Actors -> Sessions]
      /\ task \in [Sessions -> TaskLabels]
      /\ outcome \in [Sessions \cup Seekers -> Terminal \cup {"none"}]
      /\ Outcomes
  BY DEF IInv, TypeOK
<1>2. ASSUME NEW s \in Sessions, Start(s)
      PROVE  Outcomes'
  BY <1>0, <1>2, ActorsDisjoint DEF Outcomes, Actors, Terminal, Start, Begin,
     Goto, Reuse, Create, SetDir, Claim, SetStatus, Conflict, List,
     NextSuperseded, Register, Launch, GotoTask
<1>3. ASSUME NEW s \in Sessions, TaskStep(s)
      PROVE  Outcomes'
  BY <1>0, <1>3, ActorsDisjoint DEF Outcomes, Actors, Terminal, TaskStep,
     Acquire, GotoTask, End, StopQueued, MarkRunning, TrySetStatus, SetStatus,
     StopWriting, Killed, RetryMark, RetryDir, SetDir, Record, Unregister,
     CleanUp
<1>4. ASSUME NEW s \in Sessions, Exit(s)
      PROVE  Outcomes'
  BY <1>0, <1>4, ActorsDisjoint DEF Outcomes, Actors, Terminal, Exit,
     ExitWell, SetDir, End, GotoTask, ExitBadly, QuotaStop
<1>5. ASSUME NEW x \in Actors, StopProtocol(x)
      PROVE  Outcomes'
  BY <1>0, <1>5, ActorsDisjoint DEF Outcomes, Actors, Terminal, StopProtocol,
     TakeSender, Goto, MarkStopping, SetStatus, SendStop, AfterSend,
     MarkStopped, CleanFiles, SetDir, AfterClean
<1>6. ASSUME NEW r \in Stoppers, NEW s \in Sessions, StopRequest(r, s)
      PROVE  Outcomes'
  BY <1>0, <1>6, ActorsDisjoint DEF Outcomes, Actors, Terminal, StopRequest,
     Goto
<1>7. ASSUME NEW q \in Seekers, Seek(q)
      PROVE  Outcomes'
  BY <1>0, <1>7, ActorsDisjoint DEF Outcomes, Actors, Terminal, Seek,
     SeekRequest, TouchSession, Goto, EnterGeneration, ReadRow, Decide, Await,
     Publish, SetStatus, Prepare, MakeDir, SetDir, GenerationEnds, Permit,
     GiveUp, Generate, GenerateAgain, Scrap, RecordGeneration
<1>8. CASE Crash
  BY <1>0, <1>8, ActorsDisjoint DEF Outcomes, Actors, Terminal, Crash
<1>9. ASSUME NEW s \in Sessions, Reconcile(s)
      PROVE  Outcomes'
  BY <1>0, <1>9, ActorsDisjoint DEF Outcomes, Actors, Terminal, Reconcile,
     SetStatus, SetDir
<1>10. CASE Serve
  BY <1>0, <1>10, ActorsDisjoint DEF Outcomes, Actors, Terminal, Serve
<1>11. CASE UNCHANGED Core
  BY <1>0, <1>11 DEF Core, Outcomes, Actors, Terminal
<1>12. ASSUME NEW x \in Actors, Vanish(x)
      PROVE  Outcomes'
  BY <1>0, <1>12, ActorsDisjoint DEF Outcomes, Actors, Terminal, Vanish, Goto
<1> QED
  BY <1>2, <1>3, <1>4, <1>5, <1>6, <1>7, <1>8, <1>9, <1>10, <1>11, <1>12,
     QuietStep DEF Next

(* A row appears with the claim and never disappears; a request finds the  *)
(* row before it acts on it.                                               *)
LEMMA RowsExistStep ==
    ASSUME IInv, [Next]_vars
    PROVE  RowsExist'
<1> USE DEF row, reg, job, req, sys
<1>0. /\ pc \in [Actors -> Labels] /\ target \in [Actors -> Sessions]
      /\ task \in [Sessions -> TaskLabels]
      /\ status \in [Sessions -> Statuses]
      /\ todo \in [Sessions -> SUBSET Sessions]
      /\ Places
      /\ RowsExist
  BY DEF IInv, TypeOK
<1>1. Outcomes
  BY DEF IInv
<1>2. ASSUME NEW s \in Sessions, Start(s)
      PROVE  RowsExist'
  BY <1>0, <1>2, ActorsDisjoint DEF RowsExist, Claimed, Unclaimed, Starting,
     Actors, Start, Begin, Goto, Reuse, Create, SetDir, Claim, SetStatus,
     Conflict, List, Superseded, Active, NextSuperseded, Register, Launch,
     GotoTask
<1>3. ASSUME NEW s \in Sessions, TaskStep(s)
      PROVE  RowsExist'
  BY <1>0, <1>3, <1>1, ActorsDisjoint DEF RowsExist, Claimed, Unclaimed,
     Starting, Actors, TaskStep, Acquire, GotoTask, End, StopQueued,
     MarkRunning, TrySetStatus, SetStatus, Writable, Places, StopWriting,
     Killed, RetryMark, RetryDir, SetDir, Record, Outcomes, Terminal,
     Unregister, CleanUp
<1>4. ASSUME NEW s \in Sessions, Exit(s)
      PROVE  RowsExist'
  BY <1>0, <1>4, ActorsDisjoint DEF RowsExist, Claimed, Unclaimed, Starting,
     Actors, Exit, ExitWell, SetDir, End, GotoTask, ExitBadly, QuotaStop
<1>5. ASSUME NEW x \in Actors, StopProtocol(x)
      PROVE  RowsExist'
  BY <1>0, <1>5, ActorsDisjoint DEF RowsExist, Claimed, Unclaimed, Starting,
     Actors, StopProtocol, TakeSender, Goto, MarkStopping, SetStatus,
     SendStop, AfterSend, MarkStopped, CleanFiles, SetDir, AfterClean
<1>6. ASSUME NEW r \in Stoppers, NEW s \in Sessions, StopRequest(r, s)
      PROVE  RowsExist'
  BY <1>0, <1>6, ActorsDisjoint DEF RowsExist, Claimed, Unclaimed, Starting,
     Actors, StopRequest, Goto
<1>7. ASSUME NEW q \in Seekers, Seek(q)
      PROVE  RowsExist'
  BY <1>0, <1>7, <1>1, ActorsDisjoint DEF RowsExist, Claimed, Unclaimed,
     Starting, Actors, Seek, SeekRequest, TouchSession, Goto, Servable,
     GenerationActive, Generating, Active, EnterGeneration, ReadRow, Decide,
     Await, Publish, SetStatus, Prepare, MakeDir, SetDir, GenerationEnds,
     Permit, GiveUp, Generate, GenerateAgain, Scrap, RecordGeneration,
     Outcomes, Terminal
<1>8. CASE Crash
  BY <1>0, <1>8, ActorsDisjoint DEF RowsExist, Claimed, Unclaimed, Starting,
     Actors, Crash
<1>9. ASSUME NEW s \in Sessions, Reconcile(s)
      PROVE  RowsExist'
  BY <1>0, <1>9, ActorsDisjoint DEF RowsExist, Claimed, Unclaimed, Starting,
     Actors, Reconcile, SetStatus, SetDir, Active
<1>10. CASE Serve
  BY <1>0, <1>10, ActorsDisjoint DEF RowsExist, Claimed, Unclaimed, Starting,
     Actors, Serve
<1>11. CASE UNCHANGED Core
  BY <1>0, <1>11 DEF Core, RowsExist, Claimed, Unclaimed, Starting, Actors
<1>12. ASSUME NEW x \in Actors, Vanish(x)
      PROVE  RowsExist'
  BY <1>0, <1>12, ActorsDisjoint DEF RowsExist, Claimed, Unclaimed, Starting,
     Actors, Vanish, Goto
<1> QED
  BY <1>2, <1>3, <1>4, <1>5, <1>6, <1>7, <1>8, <1>9, <1>10, <1>11, <1>12,
     QuietStep DEF Next

(* Between its registration and the launch the sender can be taken, used  *)
(* or dropped, not lost.                                                   *)
LEMMA RegisteredStep ==
    ASSUME IInv, [Next]_vars
    PROVE  Registered'
<1> USE DEF row, reg, job, req, sys
<1>0. /\ pc \in [Actors -> Labels] /\ target \in [Actors -> Sessions]
      /\ task \in [Sessions -> TaskLabels]
      /\ Places /\ Registered
  BY DEF IInv, TypeOK
<1>2. ASSUME NEW s \in Sessions, Start(s)
      PROVE  Registered'
  BY <1>0, <1>2 DEF Registered, Holds, Actors, Start, Begin, Goto, Reuse,
     Create, SetDir, Claim, SetStatus, Conflict, List, NextSuperseded,
     Register, Launch, GotoTask
<1>3. ASSUME NEW s \in Sessions, TaskStep(s)
      PROVE  Registered'
  BY <1>0, <1>3 DEF Registered, Places, Holds, Actors, TaskStep, Acquire,
     GotoTask, End, StopQueued, MarkRunning, TrySetStatus, SetStatus,
     StopWriting, Killed, RetryMark, RetryDir, SetDir, Record, Unregister,
     CleanUp
<1>4. ASSUME NEW s \in Sessions, Exit(s)
      PROVE  Registered'
  BY <1>0, <1>4 DEF Registered, Holds, Actors, Exit, ExitWell, SetDir, End,
     GotoTask, ExitBadly, QuotaStop
<1>5. ASSUME NEW x \in Actors, StopProtocol(x)
      PROVE  Registered'
  BY <1>0, <1>5 DEF Registered, Holds, Actors, StopProtocol, TakeSender, Goto,
     MarkStopping, SetStatus, SendStop, AfterSend, MarkStopped, CleanFiles,
     SetDir, AfterClean
<1>6. ASSUME NEW r \in Stoppers, NEW s \in Sessions, StopRequest(r, s)
      PROVE  Registered'
  BY <1>0, <1>6 DEF Registered, Holds, Actors, StopRequest, Goto
<1>7. ASSUME NEW q \in Seekers, Seek(q)
      PROVE  Registered'
  BY <1>0, <1>7 DEF Registered, Holds, Actors, Seek, SeekRequest,
     TouchSession, Goto, EnterGeneration, ReadRow, Decide, Await, Publish,
     SetStatus, Prepare, MakeDir, SetDir, GenerationEnds, Permit, GiveUp,
     Generate, GenerateAgain, Scrap, RecordGeneration
<1>8. CASE Crash
  BY <1>0, <1>8 DEF Registered, Holds, Actors, Crash
<1>9. ASSUME NEW s \in Sessions, Reconcile(s)
      PROVE  Registered'
  BY <1>0, <1>9 DEF Registered, Holds, Actors, Reconcile, SetStatus, SetDir
<1>10. CASE Serve
  BY <1>0, <1>10 DEF Registered, Holds, Actors, Serve
<1>11. CASE UNCHANGED Core
  BY <1>0, <1>11 DEF Core, Registered, Holds, Actors
<1>12. ASSUME NEW x \in Actors, Vanish(x)
      PROVE  Registered'
  BY <1>0, <1>12 DEF Registered, Holds, Actors, Vanish, Goto
<1> QED
  BY <1>2, <1>3, <1>4, <1>5, <1>6, <1>7, <1>8, <1>9, <1>10, <1>11, <1>12,
     QuietStep DEF Next

(* The sender moves from the registry to whoever takes it and from there   *)
(* to the task; unregistering comes after the last await that could be     *)
(* stopped.                                                                *)
LEMMA StoppableStep ==
    ASSUME IInv, [Next]_vars
    PROVE  Stoppable'
<1> USE DEF row, reg, job, req, sys
<1>0. /\ pc \in [Actors -> Labels] /\ target \in [Actors -> Sessions]
      /\ task \in [Sessions -> TaskLabels]
      /\ Stoppable /\ Registered
  BY DEF IInv, TypeOK
<1>2. ASSUME NEW s \in Sessions, Start(s)
      PROVE  Stoppable'
  BY <1>0, <1>2 DEF Stoppable, Registered, Live, Holds, Actors, Start, Begin, Goto, Reuse,
     Create, SetDir, Claim, SetStatus, Conflict, List, NextSuperseded,
     Register, Launch, GotoTask
<1>3. ASSUME NEW s \in Sessions, TaskStep(s)
      PROVE  Stoppable'
  BY <1>0, <1>3 DEF Stoppable, Live, Holds, Actors, TaskStep, Acquire,
     GotoTask, End, StopQueued, MarkRunning, TrySetStatus, SetStatus,
     StopWriting, Killed, RetryMark, RetryDir, SetDir, Record, Unregister,
     CleanUp
<1>4. ASSUME NEW s \in Sessions, Exit(s)
      PROVE  Stoppable'
  BY <1>0, <1>4 DEF Stoppable, Live, Holds, Actors, Exit, ExitWell, SetDir,
     End, GotoTask, ExitBadly, QuotaStop
<1>5. ASSUME NEW x \in Actors, StopProtocol(x)
      PROVE  Stoppable'
  BY <1>0, <1>5 DEF Stoppable, Live, Holds, Actors, StopProtocol, TakeSender,
     Goto, MarkStopping, SetStatus, SendStop, AfterSend, MarkStopped,
     CleanFiles, SetDir, AfterClean
<1>6. ASSUME NEW r \in Stoppers, NEW s \in Sessions, StopRequest(r, s)
      PROVE  Stoppable'
  BY <1>0, <1>6 DEF Stoppable, Live, Holds, Actors, StopRequest, Goto
<1>7. ASSUME NEW q \in Seekers, Seek(q)
      PROVE  Stoppable'
  BY <1>0, <1>7 DEF Stoppable, Live, Holds, Actors, Seek, SeekRequest,
     TouchSession, Goto, EnterGeneration, ReadRow, Decide, Await, Publish,
     SetStatus, Prepare, MakeDir, SetDir, GenerationEnds, Permit, GiveUp,
     Generate, GenerateAgain, Scrap, RecordGeneration
<1>8. CASE Crash
  BY <1>0, <1>8 DEF Stoppable, Live, Holds, Actors, Crash
<1>9. ASSUME NEW s \in Sessions, Reconcile(s)
      PROVE  Stoppable'
  BY <1>0, <1>9 DEF Stoppable, Live, Holds, Actors, Reconcile, SetStatus,
     SetDir
<1>10. CASE Serve
  BY <1>0, <1>10 DEF Stoppable, Live, Holds, Actors, Serve
<1>11. CASE UNCHANGED Core
  BY <1>0, <1>11 DEF Core, Stoppable, Live, Holds, Actors
<1>12. ASSUME NEW x \in Actors, Vanish(x)
      PROVE  Stoppable'
  BY <1>0, <1>12 DEF Stoppable, Live, Holds, Actors, Vanish, Goto
<1> QED
  BY <1>2, <1>3, <1>4, <1>5, <1>6, <1>7, <1>8, <1>9, <1>10, <1>11, <1>12,
     QuietStep DEF Next

(* A row turns active in the hands of its keeper, and a keeper leaves only *)
(* by writing another status, unless it is dropped or gives up.            *)
LEMMA ActiveRowsOwnedStep ==
    ASSUME IInv, [Next]_vars
    PROVE  ActiveRowsOwned'
<1> USE DEF row, reg, job, req, sys
<1>0. /\ pc \in [Actors -> Labels] /\ target \in [Actors -> Sessions]
      /\ task \in [Sessions -> TaskLabels]
      /\ status \in [Sessions -> Statuses]
      /\ ActiveRowsOwned
  BY DEF IInv, TypeOK
<1>1. Outcomes
  BY DEF IInv
<1>2. ASSUME NEW s \in Sessions, Start(s)
      PROVE  ActiveRowsOwned'
  BY <1>0, <1>2, ActorsDisjoint DEF ActiveRowsOwned, Keeper, Claimed,
     Starting, Generation, Actors, Active, Start, Begin, Goto, Reuse, Create,
     SetDir, Claim, SetStatus, Conflict, List, NextSuperseded, Register,
     Launch, GotoTask
<1>3. ASSUME NEW s \in Sessions, TaskStep(s)
      PROVE  ActiveRowsOwned'
  BY <1>0, <1>3, <1>1, ActorsDisjoint DEF ActiveRowsOwned, Keeper, Claimed,
     Starting, Generation, Actors, Active, TaskStep, Acquire, GotoTask, End,
     StopQueued, MarkRunning, TrySetStatus, SetStatus, StopWriting, Killed,
     RetryMark, RetryDir, SetDir, Record, Outcomes, Terminal, Unregister,
     CleanUp
<1>4. ASSUME NEW s \in Sessions, Exit(s)
      PROVE  ActiveRowsOwned'
  BY <1>0, <1>4, ActorsDisjoint DEF ActiveRowsOwned, Keeper, Claimed,
     Starting, Generation, Actors, Active, Exit, ExitWell, SetDir, End,
     GotoTask, ExitBadly, QuotaStop
<1>5. ASSUME NEW x \in Actors, StopProtocol(x)
      PROVE  ActiveRowsOwned'
  BY <1>0, <1>5, ActorsDisjoint DEF ActiveRowsOwned, Keeper, Claimed,
     Starting, Generation, Actors, Active, StopProtocol, TakeSender, Goto,
     MarkStopping, SetStatus, SendStop, AfterSend, MarkStopped, CleanFiles,
     SetDir, AfterClean
<1>6. ASSUME NEW r \in Stoppers, NEW s \in Sessions, StopRequest(r, s)
      PROVE  ActiveRowsOwned'
  BY <1>0, <1>6, ActorsDisjoint DEF ActiveRowsOwned, Keeper, Claimed,
     Starting, Generation, Actors, Active, StopRequest, Goto
<1>7. ASSUME NEW q \in Seekers, Seek(q)
      PROVE  ActiveRowsOwned'
  BY <1>0, <1>7, <1>1, ActorsDisjoint DEF ActiveRowsOwned, Keeper, Claimed,
     Starting, Generation, Actors, Active, Seek, SeekRequest, TouchSession,
     Goto, EnterGeneration, ReadRow, Decide, Await, Publish, SetStatus,
     Prepare, MakeDir, SetDir, GenerationEnds, Permit, GiveUp, Generate,
     GenerateAgain, Scrap, RecordGeneration, Outcomes, Terminal
<1>8. CASE Crash
  BY <1>0, <1>8, ActorsDisjoint DEF ActiveRowsOwned, Keeper, Claimed,
     Starting, Generation, Actors, Active, Crash
<1>9. ASSUME NEW s \in Sessions, Reconcile(s)
      PROVE  ActiveRowsOwned'
  BY <1>0, <1>9, ActorsDisjoint DEF ActiveRowsOwned, Keeper, Claimed,
     Starting, Generation, Actors, Active, Reconcile, SetStatus, SetDir
<1>10. CASE Serve
  BY <1>0, <1>10, ActorsDisjoint DEF ActiveRowsOwned, Keeper, Claimed,
     Starting, Generation, Actors, Active, Serve
<1>11. CASE UNCHANGED Core
  BY <1>0, <1>11 DEF Core, ActiveRowsOwned, Keeper, Claimed, Starting,
     Generation, Actors, Active
<1>12. ASSUME NEW x \in Actors, Vanish(x)
      PROVE  ActiveRowsOwned'
  BY <1>0, <1>12, ActorsDisjoint DEF ActiveRowsOwned, Keeper, Claimed,
     Starting, Generation, Actors, Active, Vanish, Goto
<1> QED
  BY <1>2, <1>3, <1>4, <1>5, <1>6, <1>7, <1>8, <1>9, <1>10, <1>11, <1>12,
     QuietStep DEF Next

(* Every write of an active status goes through the partial unique index.  *)
LEMMA IndexUniqueStep ==
    ASSUME IInv, [Next]_vars
    PROVE  IndexUnique'
<1> USE DEF row, reg, job, req, sys
<1>0. /\ status \in [Sessions -> Statuses]
      /\ target \in [Actors -> Sessions]
      /\ IndexUnique
  BY DEF IInv, TypeOK
<1>1. Outcomes
  BY DEF IInv
<1>2. ASSUME NEW s \in Sessions, Start(s)
      PROVE  IndexUnique'
  BY <1>0, <1>2 DEF IndexUnique, IndexFree, Writable, Active, Actors, Start,
     Begin, Goto, Reuse, Create, SetDir, Claim, SetStatus, Conflict, List,
     NextSuperseded, Register, Launch, GotoTask
<1>3. ASSUME NEW s \in Sessions, TaskStep(s)
      PROVE  IndexUnique'
  BY <1>0, <1>3, <1>1 DEF IndexUnique, IndexFree, Writable, Active, Actors,
     TaskStep, Acquire, GotoTask, End, StopQueued, MarkRunning, TrySetStatus,
     SetStatus, StopWriting, Killed, RetryMark, RetryDir, SetDir, Record,
     Outcomes, Terminal, Unregister, CleanUp
<1>4. ASSUME NEW s \in Sessions, Exit(s)
      PROVE  IndexUnique'
  BY <1>0, <1>4 DEF IndexUnique, IndexFree, Writable, Active, Actors, Exit,
     ExitWell, SetDir, End, GotoTask, ExitBadly, QuotaStop
<1>5. ASSUME NEW x \in Actors, StopProtocol(x)
      PROVE  IndexUnique'
  BY <1>0, <1>5 DEF IndexUnique, IndexFree, Writable, Active, Actors,
     StopProtocol, TakeSender, Goto, MarkStopping, SetStatus, SendStop,
     AfterSend, MarkStopped, CleanFiles, SetDir, AfterClean
<1>6. ASSUME NEW r \in Stoppers, NEW s \in Sessions, StopRequest(r, s)
      PROVE  IndexUnique'
  BY <1>0, <1>6 DEF IndexUnique, IndexFree, Writable, Active, Actors,
     StopRequest, Goto
<1>7. ASSUME NEW q \in Seekers, Seek(q)
      PROVE  IndexUnique'
  BY <1>0, <1>7, <1>1 DEF IndexUnique, IndexFree, Writable, Active, Actors,
     Seek, SeekRequest, TouchSession, Goto, EnterGeneration, ReadRow, Decide,
     Await, Publish, SetStatus, Prepare, MakeDir, SetDir, GenerationEnds,
     Permit, GiveUp, Generate, GenerateAgain, Scrap, RecordGeneration,
     Outcomes, Terminal
<1>8. CASE Crash
  BY <1>0, <1>8 DEF IndexUnique, IndexFree, Writable, Active, Actors, Crash
<1>9. ASSUME NEW s \in Sessions, Reconcile(s)
      PROVE  IndexUnique'
  BY <1>0, <1>9 DEF IndexUnique, IndexFree, Writable, Active, Actors,
     Reconcile, SetStatus, SetDir
<1>10. CASE Serve
  BY <1>0, <1>10 DEF IndexUnique, IndexFree, Writable, Active, Actors, Serve
<1>11. CASE UNCHANGED Core
  BY <1>0, <1>11 DEF Core, IndexUnique, IndexFree, Writable, Active, Actors
<1>12. ASSUME NEW x \in Actors, Vanish(x)
      PROVE  IndexUnique'
  BY <1>0, <1>12 DEF IndexUnique, IndexFree, Writable, Active, Actors, Vanish,
     Goto
<1> QED
  BY <1>2, <1>3, <1>4, <1>5, <1>6, <1>7, <1>8, <1>9, <1>10, <1>11, <1>12,
     QuietStep DEF Next

(* A start enters its section only when both locks are free.               *)
LEMMA LocksHeldStep ==
    ASSUME IInv, [Next]_vars
    PROVE  LocksHeld'
<1> USE DEF row, reg, job, req, sys
<1>0. /\ pc \in [Actors -> Labels] /\ target \in [Actors -> Sessions]
      /\ LocksHeld
  BY DEF IInv, TypeOK
<1>2. ASSUME NEW s \in Sessions, Start(s)
      PROVE  LocksHeld'
  BY <1>0, <1>2, ActorsDisjoint DEF LocksHeld, Starting, Actors, Start, Begin,
     Goto, LocksFree, Reuse, Create, SetDir, Claim, SetStatus, Conflict, List,
     NextSuperseded, Register, Launch, GotoTask
<1>3. ASSUME NEW s \in Sessions, TaskStep(s)
      PROVE  LocksHeld'
  BY <1>0, <1>3, ActorsDisjoint DEF LocksHeld, Starting, Actors, TaskStep,
     Acquire, GotoTask, End, StopQueued, MarkRunning, TrySetStatus, SetStatus,
     StopWriting, Killed, RetryMark, RetryDir, SetDir, Record, Unregister,
     CleanUp
<1>4. ASSUME NEW s \in Sessions, Exit(s)
      PROVE  LocksHeld'
  BY <1>0, <1>4, ActorsDisjoint DEF LocksHeld, Starting, Actors, Exit,
     ExitWell, SetDir, End, GotoTask, ExitBadly, QuotaStop
<1>5. ASSUME NEW x \in Actors, StopProtocol(x)
      PROVE  LocksHeld'
  BY <1>0, <1>5, ActorsDisjoint DEF LocksHeld, Starting, Actors, StopProtocol,
     TakeSender, Goto, MarkStopping, SetStatus, SendStop, AfterSend,
     MarkStopped, CleanFiles, SetDir, AfterClean
<1>6. ASSUME NEW r \in Stoppers, NEW s \in Sessions, StopRequest(r, s)
      PROVE  LocksHeld'
  BY <1>0, <1>6, ActorsDisjoint DEF LocksHeld, Starting, Actors, StopRequest,
     Goto
<1>7. ASSUME NEW q \in Seekers, Seek(q)
      PROVE  LocksHeld'
  BY <1>0, <1>7, ActorsDisjoint DEF LocksHeld, Starting, Actors, Seek,
     SeekRequest, TouchSession, Goto, EnterGeneration, ReadRow, Decide, Await,
     Publish, SetStatus, Prepare, MakeDir, SetDir, GenerationEnds, Permit,
     GiveUp, Generate, GenerateAgain, Scrap, RecordGeneration
<1>8. CASE Crash
  BY <1>0, <1>8, ActorsDisjoint DEF LocksHeld, Starting, Actors, Crash
<1>9. ASSUME NEW s \in Sessions, Reconcile(s)
      PROVE  LocksHeld'
  BY <1>0, <1>9, ActorsDisjoint DEF LocksHeld, Starting, Actors, Reconcile,
     SetStatus, SetDir
<1>10. CASE Serve
  BY <1>0, <1>10, ActorsDisjoint DEF LocksHeld, Starting, Actors, Serve
<1>11. CASE UNCHANGED Core
  BY <1>0, <1>11 DEF Core, LocksHeld, Starting, Actors
<1>12. ASSUME NEW x \in Actors, Vanish(x)
      PROVE  LocksHeld'
  BY <1>0, <1>12, ActorsDisjoint DEF LocksHeld, Starting, Actors, Vanish, Goto
<1> QED
  BY <1>2, <1>3, <1>4, <1>5, <1>6, <1>7, <1>8, <1>9, <1>10, <1>11, <1>12,
     QuietStep DEF Next

(* Only a request that knows its session is no longer intact writes a      *)
(* status that is not active.                                              *)
LEMMA IntactActiveStep ==
    ASSUME IInv, [Next]_vars
    PROVE  IntactActive'
<1> USE DEF row, reg, job, req, sys
<1>0. /\ Intact \subseteq Sessions
      /\ pc \in [Actors -> Labels] /\ target \in [Actors -> Sessions]
      /\ status \in [Sessions -> Statuses]
      /\ IntactActive
  BY DEF IInv, TypeOK, Intact
<1>1. MarkersKnow /\ SeekersKnow
  BY DEF IInv
<1>I. Intact' \subseteq Intact \cup Joining
  BY IntactStep
<1>C. Crash => Intact' = {}
  BY CrashIntact
<1>K. /\ \A x \in Actors : pc[x] \in {"mark_stopping", "send"} => target[x] \notin Intact
      /\ \A s \in Sessions : task[s] = "ended" => s \notin Intact
  BY StoppedNotIntact
<1>2. ASSUME up, NEW s \in Sessions, Start(s)
      PROVE  IntactActive'
  <2>1. CASE Begin(s)
    BY <1>0, <1>2, <2>1, <1>I DEF IntactActive, Joining, Actors, Active,
       Begin, Goto
  <2>2. CASE Reuse(s)
    BY <1>0, <1>2, <2>2, <1>I DEF IntactActive, Joining, Actors, Active,
       Reuse, Goto
  <2>3. CASE Create(s)
    BY <1>0, <1>2, <2>3, <1>I DEF IntactActive, Joining, Actors, Active,
       Create, SetDir, Goto
  <2>4. CASE Claim(s)
    BY <1>0, <1>2, <2>4, <1>I DEF IntactActive, Joining, Actors, Active,
       Claim, SetStatus, Goto
  <2>5. CASE Conflict(s)
    BY <1>0, <1>2, <2>5, <1>I DEF IntactActive, Joining, Actors, Active,
       Conflict, SetDir, Goto
  <2>6. CASE List(s)
    BY <1>0, <1>2, <2>6, <1>I DEF IntactActive, Joining, Actors, Active, List,
       Goto
  <2>7. CASE NextSuperseded(s)
    BY <1>0, <1>2, <2>7, <1>I DEF IntactActive, Joining, Actors, Active,
       NextSuperseded, Goto
  <2>8. CASE Register(s)
    BY <1>0, <1>2, <2>8, <1>I DEF IntactActive, Joining, Actors, Active,
       Register, Goto
  <2>9. CASE Launch(s)
    BY <1>0, <1>2, <2>9, <1>I DEF IntactActive, Joining, Actors, Active,
       Launch, GotoTask, Goto
  <2> QED
    BY <1>2, <2>1, <2>2, <2>3, <2>4, <2>5, <2>6, <2>7, <2>8, <2>9 DEF Start
<1>3. ASSUME NEW s \in Sessions, TaskStep(s)
      PROVE  IntactActive'
  BY <1>0, <1>3, <1>K, <1>I DEF IntactActive, Joining, Actors, Active,
     TaskStep, Acquire, GotoTask, End, StopQueued, MarkRunning, TrySetStatus,
     SetStatus, StopWriting, Killed, RetryMark, RetryDir, SetDir, Record,
     Unregister, CleanUp
<1>4. ASSUME NEW s \in Sessions, Exit(s)
      PROVE  IntactActive'
  BY <1>0, <1>4, <1>I DEF IntactActive, Joining, Actors, Active, Exit,
     ExitWell, SetDir, End, GotoTask, ExitBadly, QuotaStop
<1>5. ASSUME NEW x \in Actors, StopProtocol(x)
      PROVE  IntactActive'
  BY <1>0, <1>5, <1>K, <1>1, <1>I DEF IntactActive, Joining, Actors, Active,
     StopProtocol, TakeSender, Goto, MarkStopping, SetStatus, SendStop,
     AfterSend, MarkStopped, MarkersKnow, CleanFiles, SetDir, AfterClean
<1>6. ASSUME NEW r \in Stoppers, NEW s \in Sessions, StopRequest(r, s)
      PROVE  IntactActive'
  BY <1>0, <1>6, <1>I DEF IntactActive, Joining, Actors, Active, StopRequest,
     Goto
<1>7. ASSUME NEW q \in Seekers, Seek(q)
      PROVE  IntactActive'
  BY <1>0, <1>7, <1>1, <1>I DEF IntactActive, Joining, Actors, Active, Seek,
     SeekRequest, TouchSession, Goto, EnterGeneration, ReadRow, Decide, Await,
     Publish, SetStatus, Prepare, MakeDir, SetDir, GenerationEnds, Permit,
     GiveUp, Generate, GenerateAgain, Scrap, RecordGeneration, SeekersKnow,
     Generation
<1>8. CASE Crash
  BY <1>C, <1>8 DEF IntactActive
<1>9. ASSUME NEW s \in Sessions, Reconcile(s)
      PROVE  IntactActive'
  BY <1>0, <1>9, <1>I DEF IntactActive, Joining, Actors, Active, Reconcile,
     SetStatus, SetDir
<1>10. CASE Serve
  BY <1>0, <1>10, <1>I DEF IntactActive, Joining, Actors, Active, Serve
<1>11. CASE UNCHANGED Core
  BY <1>0, <1>11, <1>I DEF Core, IntactActive, Joining, Actors, Active
<1>12. ASSUME NEW x \in Actors, Vanish(x)
      PROVE  IntactActive'
  BY <1>0, <1>12, <1>I DEF IntactActive, Joining, Actors, Active, Vanish, Goto
<1> QED
  BY <1>2, <1>3, <1>4, <1>5, <1>6, <1>7, <1>8, <1>9, <1>10, <1>11, <1>12,
     QuietStep DEF Next

(* A request goes to mark a row stopped when it finds no sender: the start *)
(* has been overtaken, or the task is ending or told.                      *)
LEMMA MarkersKnowStep ==
    ASSUME IInv, [Next]_vars
    PROVE  MarkersKnow'
<1> USE DEF row, reg, job, req, sys
<1>0. /\ Intact \subseteq Sessions
      /\ pc \in [Actors -> Labels] /\ target \in [Actors -> Sessions]
      /\ MarkersKnow
  BY DEF IInv, TypeOK, Intact
<1>1. RowsExist
  BY DEF IInv
<1>I. Intact' \subseteq Intact \cup Joining
  BY IntactStep
<1>C. Crash => Intact' = {}
  BY CrashIntact
<1>2. ASSUME NEW s \in Sessions, Start(s)
      PROVE  MarkersKnow'
  BY <1>0, <1>2, <1>1, <1>I DEF MarkersKnow, Joining, Actors, Start, Begin,
     Goto, Reuse, Create, SetDir, Claim, SetStatus, RowsExist, Unclaimed,
     Conflict, List, NextSuperseded, Register, Launch, GotoTask
<1>3. ASSUME NEW s \in Sessions, TaskStep(s)
      PROVE  MarkersKnow'
  BY <1>0, <1>3, <1>I DEF MarkersKnow, Joining, Actors, TaskStep, Acquire,
     GotoTask, End, StopQueued, MarkRunning, TrySetStatus, SetStatus,
     StopWriting, Killed, RetryMark, RetryDir, SetDir, Record, Unregister,
     CleanUp
<1>4. ASSUME NEW s \in Sessions, Exit(s)
      PROVE  MarkersKnow'
  BY <1>0, <1>4, <1>I DEF MarkersKnow, Joining, Actors, Exit, ExitWell,
     SetDir, End, GotoTask, ExitBadly, QuotaStop
<1>5. ASSUME NEW x \in Actors, StopProtocol(x)
      PROVE  MarkersKnow'
  <2>1. CASE TakeSender(x)
    <3>1. target[x] \notin Intact'
      BY <1>5, <2>1, TakenNotIntact
    <3> QED
      BY <1>0, <1>5, <2>1, <3>1, <1>I DEF MarkersKnow, Joining, Actors,
         TakeSender, Goto
  <2>2. CASE MarkStopping(x)
    BY <1>0, <1>5, <2>2, <1>I DEF MarkersKnow, Joining, Actors, MarkStopping,
       SetStatus, Goto
  <2>3. CASE SendStop(x)
    BY <1>0, <1>5, <2>3, <1>I DEF MarkersKnow, Joining, Actors, SendStop,
       Goto, AfterSend
  <2>4. CASE MarkStopped(x)
    BY <1>0, <1>5, <2>4, <1>I DEF MarkersKnow, Joining, Actors, MarkStopped,
       SetStatus, Goto
  <2>5. CASE CleanFiles(x)
    BY <1>0, <1>5, <2>5, <1>I DEF MarkersKnow, Joining, Actors, CleanFiles,
       SetDir, Goto, AfterClean
  <2> QED
    BY <1>5, <2>1, <2>2, <2>3, <2>4, <2>5 DEF StopProtocol
<1>6. ASSUME NEW r \in Stoppers, NEW s \in Sessions, StopRequest(r, s)
      PROVE  MarkersKnow'
  BY <1>0, <1>6, <1>I DEF MarkersKnow, Joining, Actors, StopRequest, Goto
<1>7. ASSUME NEW q \in Seekers, Seek(q)
      PROVE  MarkersKnow'
  BY <1>0, <1>7, <1>I DEF MarkersKnow, Joining, Actors, Seek, SeekRequest,
     TouchSession, Goto, EnterGeneration, ReadRow, Decide, Await, Publish,
     SetStatus, Prepare, MakeDir, SetDir, GenerationEnds, Permit, GiveUp,
     Generate, GenerateAgain, Scrap, RecordGeneration
<1>8. CASE Crash
  BY <1>C, <1>8 DEF MarkersKnow
<1>9. ASSUME NEW s \in Sessions, Reconcile(s)
      PROVE  MarkersKnow'
  BY <1>0, <1>9, <1>I DEF MarkersKnow, Joining, Actors, Reconcile, SetStatus,
     SetDir
<1>10. CASE Serve
  BY <1>0, <1>10, <1>I DEF MarkersKnow, Joining, Actors, Serve
<1>11. CASE UNCHANGED Core
  BY <1>0, <1>11, <1>I DEF Core, MarkersKnow, Joining, Actors
<1>12. ASSUME NEW x \in Actors, Vanish(x)
      PROVE  MarkersKnow'
  BY <1>0, <1>12, <1>I DEF MarkersKnow, Joining, Actors, Vanish, Goto
<1> QED
  BY <1>2, <1>3, <1>4, <1>5, <1>6, <1>7, <1>8, <1>9, <1>10, <1>11, <1>12,
     QuietStep DEF Next

(* A seek generates only after it found the row inactive or had the        *)
(* continuous task stopped.                                                *)
LEMMA SeekersKnowStep ==
    ASSUME IInv, [Next]_vars
    PROVE  SeekersKnow'
<1> USE DEF row, reg, job, req, sys
<1>0. /\ Intact \subseteq Sessions
      /\ pc \in [Actors -> Labels] /\ target \in [Actors -> Sessions]
      /\ snap \in [Actors -> Statuses]
      /\ SeekersKnow
  BY DEF IInv, TypeOK, Intact
<1>1. RowsExist /\ IntactActive /\ MarkersKnow
  BY DEF IInv
<1>I. Intact' \subseteq Intact \cup Joining
  BY IntactStep
<1>C. Crash => Intact' = {}
  BY CrashIntact
<1>K. /\ \A x \in Actors : pc[x] \in {"mark_stopping", "send"} => target[x] \notin Intact
      /\ \A s \in Sessions : task[s] = "ended" => s \notin Intact
  BY StoppedNotIntact
<1>2. ASSUME NEW s \in Sessions, Start(s)
      PROVE  SeekersKnow'
  BY <1>0, <1>2, <1>1, <1>I, ActorsDisjoint DEF SeekersKnow, Generation,
     Joining, Actors, Start, Begin, Goto, Reuse, Create, SetDir, Claim,
     SetStatus, RowsExist, Unclaimed, Conflict, List, NextSuperseded,
     Register, Launch, GotoTask
<1>3. ASSUME NEW s \in Sessions, TaskStep(s)
      PROVE  SeekersKnow'
  BY <1>0, <1>3, <1>I, ActorsDisjoint DEF SeekersKnow, Generation, Joining,
     Actors, TaskStep, Acquire, GotoTask, End, StopQueued, MarkRunning,
     TrySetStatus, SetStatus, StopWriting, Killed, RetryMark, RetryDir,
     SetDir, Record, Unregister, CleanUp
<1>4. ASSUME NEW s \in Sessions, Exit(s)
      PROVE  SeekersKnow'
  BY <1>0, <1>4, <1>I, ActorsDisjoint DEF SeekersKnow, Generation, Joining,
     Actors, Exit, ExitWell, SetDir, End, GotoTask, ExitBadly, QuotaStop
<1>5. ASSUME NEW x \in Actors, StopProtocol(x)
      PROVE  SeekersKnow'
  <2>1. CASE TakeSender(x)
    <3>1. target[x] \notin Intact'
      BY <1>5, <2>1, TakenNotIntact
    <3> QED
      BY <1>0, <1>5, <2>1, <3>1, <1>I, ActorsDisjoint DEF SeekersKnow,
         Generation, Joining, Actors, TakeSender, Goto
  <2>2. CASE MarkStopping(x)
    BY <1>0, <1>5, <2>2, <1>I, ActorsDisjoint DEF SeekersKnow, Generation,
       Joining, Actors, MarkStopping, SetStatus, Goto
  <2>3. CASE SendStop(x)
    BY <1>0, <1>5, <2>3, <1>K, <1>I, ActorsDisjoint DEF SeekersKnow,
       Generation, Joining, Actors, SendStop, Goto, AfterSend
  <2>4. CASE MarkStopped(x)
    BY <1>0, <1>5, <2>4, <1>1, <1>I, ActorsDisjoint DEF SeekersKnow,
       Generation, Joining, Actors, MarkStopped, SetStatus, Goto, MarkersKnow
  <2>5. CASE CleanFiles(x)
    BY <1>0, <1>5, <2>5, <1>I, ActorsDisjoint DEF SeekersKnow, Generation,
       Joining, Actors, CleanFiles, SetDir, Goto, AfterClean
  <2> QED
    BY <1>5, <2>1, <2>2, <2>3, <2>4, <2>5 DEF StopProtocol
<1>6. ASSUME NEW r \in Stoppers, NEW s \in Sessions, StopRequest(r, s)
      PROVE  SeekersKnow'
  BY <1>0, <1>6, <1>I, ActorsDisjoint DEF SeekersKnow, Generation, Joining,
     Actors, StopRequest, Goto
<1>7. ASSUME NEW q \in Seekers, Seek(q)
      PROVE  SeekersKnow'
  BY <1>0, <1>7, <1>1, <1>I, ActorsDisjoint DEF SeekersKnow, Generation,
     Joining, Actors, Seek, SeekRequest, TouchSession, Goto, EnterGeneration,
     ReadRow, IntactActive, Decide, Await, Publish, SetStatus, Prepare,
     MakeDir, SetDir, GenerationEnds, Permit, GiveUp, Generate, GenerateAgain,
     Scrap, RecordGeneration
<1>8. CASE Crash
  BY <1>C, <1>8 DEF SeekersKnow
<1>9. ASSUME NEW s \in Sessions, Reconcile(s)
      PROVE  SeekersKnow'
  BY <1>0, <1>9, <1>I, ActorsDisjoint DEF SeekersKnow, Generation, Joining,
     Actors, Reconcile, SetStatus, SetDir
<1>10. CASE Serve
  BY <1>0, <1>10, <1>I, ActorsDisjoint DEF SeekersKnow, Generation, Joining,
     Actors, Serve
<1>11. CASE UNCHANGED Core
  BY <1>0, <1>11, <1>I DEF Core, SeekersKnow, Generation, Joining, Actors
<1>12. ASSUME NEW x \in Actors, Vanish(x)
      PROVE  SeekersKnow'
  BY <1>0, <1>12, <1>I, ActorsDisjoint DEF SeekersKnow, Generation, Joining,
     Actors, Vanish, Goto
<1> QED
  BY <1>2, <1>3, <1>4, <1>5, <1>6, <1>7, <1>8, <1>9, <1>10, <1>11, <1>12,
     QuietStep DEF Next

(* A start lists every intact session of its device, and strikes one off   *)
(* the list only to take its sender.                                       *)
LEMMA DeviceListedStep ==
    ASSUME IInv, [Next]_vars
    PROVE  DeviceListed'
<1> USE DEF row, reg, job, req, sys
<1>0. /\ Intact \subseteq Sessions
      /\ pc \in [Actors -> Labels] /\ target \in [Actors -> Sessions]
      /\ todo \in [Sessions -> SUBSET Sessions]
      /\ DeviceListed
  BY DEF IInv, TypeOK, Intact
<1>1. LocksHeld /\ IntactActive
  BY DEF IInv
<1>I. Intact' \subseteq Intact \cup Joining
  BY IntactStep
<1>C. Crash => Intact' = {}
  BY CrashIntact
<1>2. ASSUME NEW s \in Sessions, Start(s)
      PROVE  DeviceListed'
  <2>1. CASE Begin(s)
    BY <1>0, <1>2, <2>1, <1>I, ActorsDisjoint DEF DeviceListed, Rivals,
       Claimed, Starting, Joining, Actors, Begin, Goto
  <2>2. CASE Reuse(s)
    BY <1>0, <1>2, <2>2, <1>I, ActorsDisjoint DEF DeviceListed, Rivals,
       Claimed, Starting, Joining, Actors, Reuse, Goto
  <2>3. CASE Create(s)
    BY <1>0, <1>2, <2>3, <1>I, ActorsDisjoint DEF DeviceListed, Rivals,
       Claimed, Starting, Joining, Actors, Create, SetDir, Goto
  <2>4. CASE Claim(s)
    BY <1>0, <1>2, <2>4, <1>1, <1>I, ActorsDisjoint DEF DeviceListed, Rivals,
       Claimed, Starting, Joining, Actors, Claim, SetStatus, Goto, LocksHeld
  <2>5. CASE Conflict(s)
    BY <1>0, <1>2, <2>5, <1>I, ActorsDisjoint DEF DeviceListed, Rivals,
       Claimed, Starting, Joining, Actors, Conflict, SetDir, Goto
  <2>6. CASE List(s)
    BY <1>0, <1>2, <2>6, <1>1, <1>I, ActorsDisjoint DEF DeviceListed, Rivals,
       Claimed, Starting, Joining, Actors, List, Goto, IntactActive,
       Superseded
  <2>7. CASE NextSuperseded(s)
    BY <1>0, <1>2, <2>7, <1>I, ActorsDisjoint DEF DeviceListed, Rivals,
       Claimed, Starting, Joining, Actors, NextSuperseded, Goto
  <2>8. CASE Register(s)
    BY <1>0, <1>2, <2>8, <1>I, ActorsDisjoint DEF DeviceListed, Rivals,
       Claimed, Starting, Joining, Actors, Register, Goto
  <2>9. CASE Launch(s)
    BY <1>0, <1>2, <2>9, <1>I, ActorsDisjoint DEF DeviceListed, Rivals,
       Claimed, Starting, Joining, Actors, Launch, GotoTask, Goto
  <2> QED
    BY <1>2, <2>1, <2>2, <2>3, <2>4, <2>5, <2>6, <2>7, <2>8, <2>9 DEF Start
<1>3. ASSUME NEW s \in Sessions, TaskStep(s)
      PROVE  DeviceListed'
  BY <1>0, <1>3, <1>I, ActorsDisjoint DEF DeviceListed, Rivals, Claimed,
     Starting, Joining, Actors, TaskStep, Acquire, GotoTask, End, StopQueued,
     MarkRunning, TrySetStatus, SetStatus, StopWriting, Killed, RetryMark,
     RetryDir, SetDir, Record, Unregister, CleanUp
<1>4. ASSUME NEW s \in Sessions, Exit(s)
      PROVE  DeviceListed'
  BY <1>0, <1>4, <1>I, ActorsDisjoint DEF DeviceListed, Rivals, Claimed,
     Starting, Joining, Actors, Exit, ExitWell, SetDir, End, GotoTask,
     ExitBadly, QuotaStop
<1>5. ASSUME NEW x \in Actors, StopProtocol(x)
      PROVE  DeviceListed'
  <2>1. CASE TakeSender(x)
    <3>1. target[x] \notin Intact'
      BY <1>5, <2>1, TakenNotIntact
    <3> QED
      BY <1>0, <1>5, <2>1, <3>1, <1>I, ActorsDisjoint DEF DeviceListed,
         Rivals, Claimed, Starting, Joining, Actors, TakeSender, Goto
  <2>2. CASE MarkStopping(x)
    BY <1>0, <1>5, <2>2, <1>I, ActorsDisjoint DEF DeviceListed, Rivals,
       Claimed, Starting, Joining, Actors, MarkStopping, SetStatus, Goto
  <2>3. CASE SendStop(x)
    BY <1>0, <1>5, <2>3, <1>I, ActorsDisjoint DEF DeviceListed, Rivals,
       Claimed, Starting, Joining, Actors, SendStop, Goto, AfterSend
  <2>4. CASE MarkStopped(x)
    BY <1>0, <1>5, <2>4, <1>I, ActorsDisjoint DEF DeviceListed, Rivals,
       Claimed, Starting, Joining, Actors, MarkStopped, SetStatus, Goto
  <2>5. CASE CleanFiles(x)
    BY <1>0, <1>5, <2>5, <1>I, ActorsDisjoint DEF DeviceListed, Rivals,
       Claimed, Starting, Joining, Actors, CleanFiles, SetDir, Goto,
       AfterClean
  <2> QED
    BY <1>5, <2>1, <2>2, <2>3, <2>4, <2>5 DEF StopProtocol
<1>6. ASSUME NEW r \in Stoppers, NEW s \in Sessions, StopRequest(r, s)
      PROVE  DeviceListed'
  BY <1>0, <1>6, <1>I, ActorsDisjoint DEF DeviceListed, Rivals, Claimed,
     Starting, Joining, Actors, StopRequest, Goto
<1>7. ASSUME NEW q \in Seekers, Seek(q)
      PROVE  DeviceListed'
  BY <1>0, <1>7, <1>I, ActorsDisjoint DEF DeviceListed, Rivals, Claimed,
     Starting, Joining, Actors, Seek, SeekRequest, TouchSession, Goto,
     EnterGeneration, ReadRow, Decide, Await, Publish, SetStatus, Prepare,
     MakeDir, SetDir, GenerationEnds, Permit, GiveUp, Generate, GenerateAgain,
     Scrap, RecordGeneration
<1>8. CASE Crash
  BY <1>C, <1>8 DEF DeviceListed
<1>9. ASSUME NEW s \in Sessions, Reconcile(s)
      PROVE  DeviceListed'
  BY <1>0, <1>9, <1>I, ActorsDisjoint DEF DeviceListed, Rivals, Claimed,
     Starting, Joining, Actors, Reconcile, SetStatus, SetDir
<1>10. CASE Serve
  BY <1>0, <1>10, <1>I, ActorsDisjoint DEF DeviceListed, Rivals, Claimed,
     Starting, Joining, Actors, Serve
<1>11. CASE UNCHANGED Core
  BY <1>0, <1>11, <1>I DEF Core, DeviceListed, Rivals, Claimed, Starting,
     Joining, Actors
<1>12. ASSUME NEW x \in Actors, Vanish(x)
      PROVE  DeviceListed'
  BY <1>0, <1>12, <1>I, ActorsDisjoint DEF DeviceListed, Rivals, Claimed,
     Starting, Joining, Actors, Vanish, Goto
<1> QED
  BY <1>2, <1>3, <1>4, <1>5, <1>6, <1>7, <1>8, <1>9, <1>10, <1>11, <1>12,
     QuietStep DEF Next

(* A start spawns its task only when no other session of its device is     *)
(* intact.                                                                 *)
LEMMA DeviceTakenStep ==
    ASSUME IInv, [Next]_vars
    PROVE  DeviceTaken'
<1> USE DEF row, reg, job, req, sys
<1>0. /\ Intact \subseteq Sessions
      /\ pc \in [Actors -> Labels] /\ target \in [Actors -> Sessions]
      /\ DeviceTaken
  BY DEF IInv, TypeOK, Intact
<1>1. DeviceListed /\ AllDealtWith
  BY DEF IInv
<1>P. Places
  BY DEF IInv
<1>I. Intact' \subseteq Intact \cup Joining
  BY IntactStep
<1>C. Crash => Intact' = {}
  BY CrashIntact
<1>2. ASSUME NEW s \in Sessions, Start(s)
      PROVE  DeviceTaken'
  BY <1>0, <1>2, <1>1, <1>1, <1>I, ActorsDisjoint DEF DeviceTaken, Rivals,
     Claimed, Starting, Joining, Actors, Start, Begin, Goto, Reuse, Create,
     SetDir, Claim, SetStatus, Conflict, List, NextSuperseded, Register,
     Launch, GotoTask, DeviceListed, AllDealtWith
<1>3. ASSUME NEW s \in Sessions, TaskStep(s)
      PROVE  DeviceTaken'
  BY <1>0, <1>3, <1>I, ActorsDisjoint DEF DeviceTaken, Rivals, Claimed,
     Starting, Joining, Actors, TaskStep, Acquire, GotoTask, End, StopQueued,
     MarkRunning, TrySetStatus, SetStatus, StopWriting, Killed, RetryMark,
     RetryDir, SetDir, Record, Unregister, CleanUp
<1>4. ASSUME NEW s \in Sessions, Exit(s)
      PROVE  DeviceTaken'
  BY <1>0, <1>4, <1>I, ActorsDisjoint DEF DeviceTaken, Rivals, Claimed,
     Starting, Joining, Actors, Exit, ExitWell, SetDir, End, GotoTask,
     ExitBadly, QuotaStop
<1>5. ASSUME NEW x \in Actors, StopProtocol(x)
      PROVE  DeviceTaken'
  BY <1>0, <1>5, <1>I, ActorsDisjoint DEF DeviceTaken, Rivals, Claimed,
     Starting, Joining, Actors, StopProtocol, TakeSender, Goto, MarkStopping,
     SetStatus, SendStop, AfterSend, MarkStopped, CleanFiles, SetDir,
     AfterClean
<1>6. ASSUME NEW r \in Stoppers, NEW s \in Sessions, StopRequest(r, s)
      PROVE  DeviceTaken'
  BY <1>0, <1>6, <1>I, ActorsDisjoint DEF DeviceTaken, Rivals, Claimed,
     Starting, Joining, Actors, StopRequest, Goto
<1>7. ASSUME NEW q \in Seekers, Seek(q)
      PROVE  DeviceTaken'
  BY <1>0, <1>7, <1>I, ActorsDisjoint DEF DeviceTaken, Rivals, Claimed,
     Starting, Joining, Actors, Seek, SeekRequest, TouchSession, Goto,
     EnterGeneration, ReadRow, Decide, Await, Publish, SetStatus, Prepare,
     MakeDir, SetDir, GenerationEnds, Permit, GiveUp, Generate, GenerateAgain,
     Scrap, RecordGeneration
<1>8. CASE Crash
  BY <1>C, <1>8 DEF DeviceTaken
<1>9. ASSUME NEW s \in Sessions, Reconcile(s)
      PROVE  DeviceTaken'
  BY <1>0, <1>9, <1>I, ActorsDisjoint DEF DeviceTaken, Rivals, Claimed,
     Starting, Joining, Actors, Reconcile, SetStatus, SetDir
<1>10. CASE Serve
  BY <1>0, <1>10, <1>I, ActorsDisjoint DEF DeviceTaken, Rivals, Claimed,
     Starting, Joining, Actors, Serve
<1>11. CASE UNCHANGED Core
  BY <1>0, <1>11, <1>I DEF Core, DeviceTaken, Rivals, Claimed, Starting,
     Joining, Actors
<1>12. ASSUME NEW x \in Actors, Vanish(x)
      PROVE  DeviceTaken'
  BY <1>0, <1>12, <1>I, ActorsDisjoint, <1>P DEF DeviceTaken, Rivals, Claimed,
     Starting, Joining, Actors, Intact, Undisturbed, Wanted, Live, Places,
     Vanish, Goto
<1> QED
  BY <1>2, <1>3, <1>4, <1>5, <1>6, <1>7, <1>8, <1>9, <1>10, <1>11, <1>12,
     QuietStep DEF Next

(* The list is empty when a start leaves the loop.                         *)
LEMMA AllDealtWithStep ==
    ASSUME IInv, [Next]_vars
    PROVE  AllDealtWith'
<1> USE DEF row, reg, job, req, sys
<1>0. /\ pc \in [Actors -> Labels] /\ target \in [Actors -> Sessions]
      /\ todo \in [Sessions -> SUBSET Sessions]
      /\ AllDealtWith
  BY DEF IInv, TypeOK
<1>2. ASSUME NEW s \in Sessions, Start(s)
      PROVE  AllDealtWith'
  BY <1>0, <1>2, ActorsDisjoint DEF AllDealtWith, Actors, Start, Begin, Goto,
     Reuse, Create, SetDir, Claim, SetStatus, Conflict, List, NextSuperseded,
     Register, Launch, GotoTask
<1>3. ASSUME NEW s \in Sessions, TaskStep(s)
      PROVE  AllDealtWith'
  BY <1>0, <1>3, ActorsDisjoint DEF AllDealtWith, Actors, TaskStep, Acquire,
     GotoTask, End, StopQueued, MarkRunning, TrySetStatus, SetStatus,
     StopWriting, Killed, RetryMark, RetryDir, SetDir, Record, Unregister,
     CleanUp
<1>4. ASSUME NEW s \in Sessions, Exit(s)
      PROVE  AllDealtWith'
  BY <1>0, <1>4, ActorsDisjoint DEF AllDealtWith, Actors, Exit, ExitWell,
     SetDir, End, GotoTask, ExitBadly, QuotaStop
<1>5. ASSUME NEW x \in Actors, StopProtocol(x)
      PROVE  AllDealtWith'
  BY <1>0, <1>5, ActorsDisjoint DEF AllDealtWith, Actors, StopProtocol,
     TakeSender, Goto, MarkStopping, SetStatus, SendStop, AfterSend,
     MarkStopped, CleanFiles, SetDir, AfterClean
<1>6. ASSUME NEW r \in Stoppers, NEW s \in Sessions, StopRequest(r, s)
      PROVE  AllDealtWith'
  BY <1>0, <1>6, ActorsDisjoint DEF AllDealtWith, Actors, StopRequest, Goto
<1>7. ASSUME NEW q \in Seekers, Seek(q)
      PROVE  AllDealtWith'
  BY <1>0, <1>7, ActorsDisjoint DEF AllDealtWith, Actors, Seek, SeekRequest,
     TouchSession, Goto, EnterGeneration, ReadRow, Decide, Await, Publish,
     SetStatus, Prepare, MakeDir, SetDir, GenerationEnds, Permit, GiveUp,
     Generate, GenerateAgain, Scrap, RecordGeneration
<1>8. CASE Crash
  BY <1>0, <1>8, ActorsDisjoint DEF AllDealtWith, Actors, Crash
<1>9. ASSUME NEW s \in Sessions, Reconcile(s)
      PROVE  AllDealtWith'
  BY <1>0, <1>9, ActorsDisjoint DEF AllDealtWith, Actors, Reconcile,
     SetStatus, SetDir
<1>10. CASE Serve
  BY <1>0, <1>10, ActorsDisjoint DEF AllDealtWith, Actors, Serve
<1>11. CASE UNCHANGED Core
  BY <1>0, <1>11 DEF Core, AllDealtWith, Actors
<1>12. ASSUME NEW x \in Actors, Vanish(x)
      PROVE  AllDealtWith'
  BY <1>0, <1>12, ActorsDisjoint DEF AllDealtWith, Actors, Vanish, Goto
<1> QED
  BY <1>2, <1>3, <1>4, <1>5, <1>6, <1>7, <1>8, <1>9, <1>10, <1>11, <1>12,
     QuietStep DEF Next

(* Types.                                                                  *)
LEMMA TypeOKStep ==
    ASSUME IInv, [Next]_vars
    PROVE  TypeOK'
<1> USE DEF row, reg, job, req, sys
<1>0. TypeOK
  BY DEF IInv
<1>1. Places /\ Outcomes
  BY DEF IInv
<1>2. ASSUME NEW s \in Sessions, Start(s)
      PROVE  TypeOK'
  <2>1. CASE Begin(s)
    BY <1>0, <1>2, <2>1 DEF TypeOK, Actors, Active, Terminal, Statuses,
       TaskLabels, Labels, Begin, Goto
  <2>2. CASE Reuse(s)
    BY <1>0, <1>2, <2>2 DEF TypeOK, Actors, Active, Terminal, Statuses,
       TaskLabels, Labels, Reuse, Goto
  <2>3. CASE Create(s)
    BY <1>0, <1>2, <2>3 DEF TypeOK, Actors, Active, Terminal, Statuses,
       TaskLabels, Labels, Create, SetDir, Goto
  <2>4. CASE Claim(s)
    BY <1>0, <1>2, <2>4 DEF TypeOK, Actors, Active, Terminal, Statuses,
       TaskLabels, Labels, Claim, SetStatus, Goto
  <2>5. CASE Conflict(s)
    BY <1>0, <1>2, <2>5 DEF TypeOK, Actors, Active, Terminal, Statuses,
       TaskLabels, Labels, Conflict, SetDir, Goto
  <2>6. CASE List(s)
    BY <1>0, <1>2, <2>6 DEF TypeOK, Actors, Active, Terminal, Statuses,
       TaskLabels, Labels, List, Goto, Superseded
  <2>7. CASE NextSuperseded(s)
    BY <1>0, <1>2, <2>7 DEF TypeOK, Actors, Active, Terminal, Statuses,
       TaskLabels, Labels, NextSuperseded, Goto
  <2>8. CASE Register(s)
    BY <1>0, <1>2, <2>8, <1>1 DEF TypeOK, Actors, Active, Terminal, Statuses,
       TaskLabels, Labels, Register, Goto, Places
  <2>9. CASE Launch(s)
    BY <1>0, <1>2, <2>9, <1>1 DEF TypeOK, Actors, Active, Terminal, Statuses,
       TaskLabels, Labels, Launch, GotoTask, Goto, Places
  <2> QED
    BY <1>2, <2>1, <2>2, <2>3, <2>4, <2>5, <2>6, <2>7, <2>8, <2>9 DEF Start
<1>3. ASSUME NEW s \in Sessions, TaskStep(s)
      PROVE  TypeOK'
  <2>1. CASE Acquire(s)
    BY <1>0, <1>3, <2>1 DEF TypeOK, Actors, Active, Terminal, Statuses,
       TaskLabels, Labels, Acquire, GotoTask, End
  <2>2. CASE StopQueued(s)
    BY <1>0, <1>3, <2>2 DEF TypeOK, Actors, Active, Terminal, Statuses,
       TaskLabels, Labels, StopQueued, GotoTask, End
  <2>3. CASE MarkRunning(s)
    BY <1>0, <1>3, <2>3 DEF TypeOK, Actors, Active, Terminal, Statuses,
       TaskLabels, Labels, MarkRunning, TrySetStatus, SetStatus, GotoTask
  <2>4. CASE StopWriting(s)
    BY <1>0, <1>3, <2>4 DEF TypeOK, Actors, Active, Terminal, Statuses,
       TaskLabels, Labels, StopWriting, GotoTask
  <2>5. CASE Killed(s)
    BY <1>0, <1>3, <2>5 DEF TypeOK, Actors, Active, Terminal, Statuses,
       TaskLabels, Labels, Killed, GotoTask, End
  <2>6. CASE RetryMark(s)
    BY <1>0, <1>3, <2>6 DEF TypeOK, Actors, Active, Terminal, Statuses,
       TaskLabels, Labels, RetryMark, TrySetStatus, SetStatus, GotoTask
  <2>7. CASE RetryDir(s)
    <3>1. dir' \in [Sessions -> {"absent", "bare", "full"}]
      BY <1>0, <1>3, <2>7 DEF TypeOK, RetryDir, SetDir
    <3>2. task' \in [Sessions -> TaskLabels]
      BY <1>0, <1>3, <2>7 DEF TypeOK, RetryDir, End, GotoTask, TaskLabels
    <3>3. /\ attempt' \in [Sessions \cup Seekers -> 1..2]
          /\ outcome' \in [Sessions \cup Seekers -> Terminal \cup {"none"}]
      BY <1>0, <1>3, <2>7 DEF TypeOK, RetryDir, End, Terminal
    <3> QED
      BY <1>0, <2>7, <3>1, <3>2, <3>3 DEF TypeOK, RetryDir
  <2>8. CASE Record(s)
    BY <1>0, <1>3, <2>8, <1>1 DEF TypeOK, Actors, Active, Terminal, Statuses,
       TaskLabels, Labels, Record, SetStatus, GotoTask, Outcomes
  <2>9. CASE Unregister(s)
    BY <1>0, <1>3, <2>9 DEF TypeOK, Actors, Active, Terminal, Statuses,
       TaskLabels, Labels, Unregister, GotoTask
  <2>10. CASE CleanUp(s)
    BY <1>0, <1>3, <2>10 DEF TypeOK, Actors, Active, Terminal, Statuses,
       TaskLabels, Labels, CleanUp, SetDir, GotoTask
  <2> QED
    BY <1>3, <2>1, <2>2, <2>3, <2>4, <2>5, <2>6, <2>7, <2>8, <2>9, <2>10 DEF
       TaskStep
<1>4. ASSUME NEW s \in Sessions, Exit(s)
      PROVE  TypeOK'
  <2>1. CASE ExitWell(s)
    BY <1>0, <1>4, <2>1 DEF TypeOK, Actors, Active, Terminal, Statuses,
       TaskLabels, Labels, ExitWell, SetDir, End, GotoTask
  <2>2. CASE ExitBadly(s)
    <3>1. /\ task' \in [Sessions -> TaskLabels]
          /\ attempt' \in [Sessions \cup Seekers -> 1..2]
          /\ outcome' \in [Sessions \cup Seekers -> Terminal \cup {"none"}]
      BY <1>0, <1>4, <2>2 DEF TypeOK, ExitBadly, End, GotoTask, TaskLabels,
         Terminal
    <3> QED
      BY <1>0, <2>2, <3>1 DEF TypeOK, ExitBadly
  <2>3. CASE QuotaStop(s)
    BY <1>0, <1>4, <2>3 DEF TypeOK, Actors, Active, Terminal, Statuses,
       TaskLabels, Labels, QuotaStop, End, GotoTask
  <2> QED
    BY <1>4, <2>1, <2>2, <2>3 DEF Exit
<1>5. ASSUME NEW s \in Sessions, Touch(s) \/ Age(s)
      PROVE  TypeOK'
  BY <1>0, <1>5 DEF TypeOK, Actors, Active, Terminal, Statuses, TaskLabels,
     Labels, Touch, TouchSession, Age
<1>6. ASSUME NEW x \in Actors, StopProtocol(x)
      PROVE  TypeOK'
  <2>1. CASE TakeSender(x)
    BY <1>0, <1>6, <2>1 DEF TypeOK, Actors, Active, Terminal, Statuses,
       TaskLabels, Labels, TakeSender, Goto
  <2>2. CASE MarkStopping(x)
    BY <1>0, <1>6, <2>2 DEF TypeOK, Actors, Active, Terminal, Statuses,
       TaskLabels, Labels, MarkStopping, SetStatus, Goto
  <2>3. CASE SendStop(x)
    BY <1>0, <1>6, <2>3, <1>1 DEF TypeOK, Actors, Active, Terminal, Statuses,
       TaskLabels, Labels, SendStop, Goto, AfterSend, Places, Holds
  <2>4. CASE MarkStopped(x)
    BY <1>0, <1>6, <2>4 DEF TypeOK, Actors, Active, Terminal, Statuses,
       TaskLabels, Labels, MarkStopped, SetStatus, Goto
  <2>5. CASE CleanFiles(x)
    BY <1>0, <1>6, <2>5 DEF TypeOK, Actors, Active, Terminal, Statuses,
       TaskLabels, Labels, CleanFiles, SetDir, Goto, AfterClean
  <2> QED
    BY <1>6, <2>1, <2>2, <2>3, <2>4, <2>5 DEF StopProtocol
<1>7. ASSUME NEW r \in Stoppers, NEW s \in Sessions, StopRequest(r, s)
      PROVE  TypeOK'
  BY <1>0, <1>7 DEF TypeOK, Actors, Active, Terminal, Statuses, TaskLabels,
     Labels, StopRequest, Goto
<1>8. ASSUME NEW q \in Seekers, Seek(q)
      PROVE  TypeOK'
  <2>1. ASSUME NEW s \in Sessions, SeekRequest(q, s)
        PROVE  TypeOK'
    BY <1>0, <1>8, <2>1 DEF TypeOK, Actors, Active, Terminal, Statuses,
       TaskLabels, Labels, SeekRequest, TouchSession, Goto
  <2>2. CASE EnterGeneration(q)
    BY <1>0, <1>8, <2>2 DEF TypeOK, Actors, Active, Terminal, Statuses,
       TaskLabels, Labels, EnterGeneration, Goto
  <2>3. CASE ReadRow(q)
    BY <1>0, <1>8, <2>3 DEF TypeOK, Actors, Active, Terminal, Statuses,
       TaskLabels, Labels, ReadRow, Goto
  <2>4. CASE Decide(q)
    BY <1>0, <1>8, <2>4 DEF TypeOK, Actors, Active, Terminal, Statuses,
       TaskLabels, Labels, Decide, Goto
  <2>5. CASE Await(q)
    BY <1>0, <1>8, <2>5 DEF TypeOK, Actors, Active, Terminal, Statuses,
       TaskLabels, Labels, Await, Goto
  <2>6. CASE Publish(q)
    <3>1. pc' \in [Actors -> Labels]
      BY <1>0, <1>8, <2>6 DEF TypeOK, Publish, Goto, Labels, Actors
    <3>2. status' \in [Sessions -> Statuses] /\ stranded' \subseteq Sessions
      BY <1>0, <1>8, <2>6 DEF TypeOK, Publish, SetStatus, Statuses, Active, Actors
    <3> QED
      BY <1>0, <2>6, <3>1, <3>2 DEF TypeOK, Publish
  <2>7. CASE Prepare(q)
    <3>1. pc' \in [Actors -> Labels]
      BY <1>0, <1>8, <2>7 DEF TypeOK, Prepare, GenerationEnds, Goto, Labels, Actors
    <3>2. dir' \in [Sessions -> {"absent", "bare", "full"}]
      BY <1>0, <1>8, <2>7 DEF TypeOK, Prepare, MakeDir, SetDir, Actors
    <3>3. /\ task' \in [Sessions -> TaskLabels]
          /\ attempt' \in [Sessions \cup Seekers -> 1..2]
          /\ outcome' \in [Sessions \cup Seekers -> Terminal \cup {"none"}]
      BY <1>0, <1>8, <2>7 DEF TypeOK, Prepare, GenerationEnds, Terminal
    <3> QED
      BY <1>0, <2>7, <3>1, <3>2, <3>3 DEF TypeOK, Prepare
  <2>8. CASE Permit(q)
    <3>1. pc' \in [Actors -> Labels] /\ stranded' \subseteq Sessions
      BY <1>0, <1>8, <2>8 DEF TypeOK, Permit, GiveUp, GenerationEnds, Goto, Labels, Actors
    <3>2. /\ task' \in [Sessions -> TaskLabels]
          /\ attempt' \in [Sessions \cup Seekers -> 1..2]
          /\ outcome' \in [Sessions \cup Seekers -> Terminal \cup {"none"}]
      BY <1>0, <1>8, <2>8 DEF TypeOK, Permit, GenerationEnds, Terminal
    <3> QED
      BY <1>0, <2>8, <3>1, <3>2 DEF TypeOK, Permit
  <2>9. CASE Generate(q)
    <3>1. pc' \in [Actors -> Labels]
      BY <1>0, <1>8, <2>9 DEF TypeOK, Generate, GenerationEnds, Goto, Labels, Actors
    <3>2. /\ task' \in [Sessions -> TaskLabels]
          /\ attempt' \in [Sessions \cup Seekers -> 1..2]
          /\ outcome' \in [Sessions \cup Seekers -> Terminal \cup {"none"}]
      BY <1>0, <1>8, <2>9 DEF TypeOK, Generate, GenerationEnds, Terminal
    <3> QED
      BY <1>0, <2>9, <3>1, <3>2 DEF TypeOK, Generate
  <2>10. CASE GenerateAgain(q)
    <3>1. /\ dir' \in [Sessions -> {"absent", "bare", "full"}]
          /\ pc' \in [Actors -> Labels]
          /\ attempt' \in [Sessions \cup Seekers -> 1..2]
          /\ stranded' \subseteq Sessions
      BY <1>0, <1>8, <2>10 DEF TypeOK, GenerateAgain, GiveUp, SetDir, Goto,
         Labels, Actors
    <3> QED
      BY <1>0, <2>10, <3>1 DEF TypeOK, GenerateAgain
  <2>11. CASE Scrap(q)
    BY <1>0, <1>8, <2>11 DEF TypeOK, Actors, Active, Terminal, Statuses,
       TaskLabels, Labels, Scrap, GiveUp, SetDir, Goto
  <2>12. CASE RecordGeneration(q)
    BY <1>0, <1>8, <2>12, <1>1 DEF TypeOK, Actors, Active, Terminal, Statuses,
       TaskLabels, Labels, RecordGeneration, SetStatus, Goto, Outcomes
  <2> QED
    BY <1>8, <2>1, <2>2, <2>3, <2>4, <2>5, <2>6, <2>7, <2>8, <2>9, <2>10,
       <2>11, <2>12 DEF Seek
<1>9. ASSUME NEW listed \in SUBSET Sessions, SweepList(listed)
      PROVE  TypeOK'
  BY <1>0, <1>9 DEF TypeOK, Actors, Active, Terminal, Statuses, TaskLabels,
     Labels, SweepList
<1>10. ASSUME NEW s \in Sessions, SweepClean(s) \/ SweepOrphan(s)
      PROVE  TypeOK'
  BY <1>0, <1>10 DEF TypeOK, Actors, Active, Terminal, Statuses, TaskLabels,
     Labels, SweepClean, SetDir, SweepOrphan
<1>11. CASE Crash
  <2>1. /\ access' \in [Sessions -> {"none", "fresh", "old"}]
        /\ task' \in [Sessions -> TaskLabels]
        /\ attempt' \in [Sessions \cup Seekers -> 1..2]
        /\ outcome' \in [Sessions \cup Seekers -> Terminal \cup {"none"}]
    BY <1>11 DEF Crash, TaskLabels
  <2>2. pc' \in [Actors -> Labels] /\ snap' \in [Actors -> Statuses]
    BY <1>0, <1>11 DEF Crash, TypeOK, Labels, Statuses
  <2>3. todo' \in [Sessions -> SUBSET Sessions] /\ crashes' \in Nat
    BY <1>0, <1>11 DEF Crash, TypeOK
  <2>4. up' \in BOOLEAN
    BY <1>11 DEF Crash
  <2> QED
    BY <1>0, <2>1, <2>2, <2>3, <2>4, <1>11 DEF TypeOK, Crash
<1>12. ASSUME NEW s \in Sessions, Reconcile(s)
      PROVE  TypeOK'
  BY <1>0, <1>12 DEF TypeOK, Actors, Active, Terminal, Statuses, TaskLabels,
     Labels, Reconcile, SetStatus, SetDir
<1>13. CASE Serve
  BY <1>0, <1>13 DEF TypeOK, Actors, Active, Terminal, Statuses, TaskLabels,
     Labels, Serve
<1>14. ASSUME NEW x \in Actors, Vanish(x)
      PROVE  TypeOK'
  <2>1. pc' \in [Actors -> Labels] /\ snap' \in [Actors -> Statuses]
    BY <1>0, <1>14 DEF TypeOK, Vanish, Goto, Labels, Statuses
  <2>2. todo' \in [Sessions -> SUBSET Sessions]
    BY <1>0, <1>14 DEF TypeOK, Vanish
  <2>3. told' \subseteq Sessions /\ stranded' \subseteq Sessions /\ sender \cap told' = {}
    BY <1>0, <1>1, <1>14 DEF TypeOK, Vanish, Places, Holds
  <2> QED
    BY <1>0, <1>14, <2>1, <2>2, <2>3 DEF TypeOK, Vanish
<1>15. CASE UNCHANGED vars
  BY <1>0, <1>15 DEF vars, TypeOK, Actors, Active, Terminal, Statuses,
     TaskLabels, Labels
<1> QED
  BY <1>2, <1>3, <1>4, <1>5, <1>6, <1>7, <1>8, <1>9, <1>10, <1>11, <1>12,
     <1>13, <1>14, <1>15 DEF Next


-----------------------------------------------------------------------------
(* The inductive invariant and what follows from it.                       *)

(* Before the first request there are no rows, tasks or senders, and every *)
(* request is idle or absent.                                              *)
LEMMA InitIInv == Init => IInv
<1> SUFFICES ASSUME Init
             PROVE  IInv
  OBVIOUS
<1>1. /\ pc \in [Actors -> {"idle", "absent"}]
      /\ want \in {c.want : c \in Casts} /\ crashes \in Nat /\ sweeps \in Nat
  BY CastsTyped DEF Init
<1>2. target \in [Actors -> Sessions]
  BY SomeSession DEF Init
<1>3. TypeOK
  BY <1>1, <1>2 DEF Init, TypeOK, Statuses, TaskLabels, Labels
<1>4. Intact = {}
  BY <1>1 DEF Init, Intact, Claimed, Starting, Wanted, Live, Actors
<1>5. Places /\ Outcomes /\ RowsExist
  BY <1>1 DEF Init, Places, Holds, Outcomes, RowsExist, Claimed, Unclaimed, Starting, Actors
<1>6. Registered /\ Stoppable /\ ActiveRowsOwned /\ IndexUnique
  BY <1>1 DEF Init, Registered, Stoppable, Live, ActiveRowsOwned, IndexUnique, Active, Actors
<1>7. IntactActive /\ DeviceListed /\ DeviceTaken
  BY <1>4 DEF IntactActive, DeviceListed, DeviceTaken
<1>8. MarkersKnow /\ SeekersKnow /\ LocksHeld /\ AllDealtWith
  BY <1>1, <1>4 DEF MarkersKnow, SeekersKnow, LocksHeld, Starting, AllDealtWith, Actors
<1> QED
  BY <1>3, <1>5, <1>6, <1>7, <1>8 DEF IInv

(* Every step of every request, task, sweep, crash and restart preserves   *)
(* the invariant.                                                          *)
LEMMA NextIInv == IInv /\ [Next]_vars => IInv'
<1> SUFFICES ASSUME IInv, [Next]_vars
             PROVE  IInv'
  OBVIOUS
<1>1. TypeOK' /\ Places' /\ Outcomes' /\ RowsExist'
  BY TypeOKStep, PlacesStep, OutcomesStep, RowsExistStep
<1>2. Registered' /\ Stoppable' /\ ActiveRowsOwned' /\ IndexUnique' /\ LocksHeld'
  BY RegisteredStep, StoppableStep, ActiveRowsOwnedStep, IndexUniqueStep, LocksHeldStep
<1>3. IntactActive' /\ MarkersKnow' /\ SeekersKnow'
  BY IntactActiveStep, MarkersKnowStep, SeekersKnowStep
<1>4. DeviceListed' /\ DeviceTaken' /\ AllDealtWith'
  BY DeviceListedStep, DeviceTakenStep, AllDealtWithStep
<1> QED
  BY <1>1, <1>2, <1>3, <1>4 DEF IInv

(* The strengthening holds in every reachable state, whatever requests     *)
(* arrive and however often the server crashes.                            *)
THEOREM SpecIInv == Spec => []IInv
<1> QED
  BY InitIInv, NextIInv, PTL DEF Spec

(* Types, and no stop sender is both registered and used.                  *)
THEOREM SpecTypeOK == Spec => []TypeOK
<1>1. IInv => TypeOK
  BY DEF IInv
<1> QED
  BY <1>1, SpecIInv, PTL

(* A task that can still run can be stopped: its sender is registered, in  *)
(* somebody's hands, or used (spawn_hls_transcode_task, the stop protocol, *)
(* unregister).                                                            *)
THEOREM SpecStoppable == Spec => []Stoppable
<1>1. IInv => Stoppable
  BY DEF IInv
<1> QED
  BY <1>1, SpecIInv, PTL

(* An active row has a start, a task, a generation or the reconciliation   *)
(* that settles it, unless a dropped start request or a generation that    *)
(* gave up left it and nobody has written it since (from                   *)
(* claim_transcode_session to tokio::spawn, generate_missing_hls_segment). *)
THEOREM SpecActiveRowsOwned == Spec => []ActiveRowsOwned
<1>1. IInv => ActiveRowsOwned
  BY DEF IInv
<1> QED
  BY <1>1, SpecIInv, PTL

(* No key and no device has two tasks that nobody is stopping: the partial *)
(* unique index keeps the keys apart, the listing and the locks the        *)
(* devices (claim, stop_superseded_device_transcode_sessions).             *)
THEOREM SpecNoDuplicateTranscode == Spec => []NoDuplicateTranscode
<1>1. IInv => NoDuplicateTranscode
  <2> SUFFICES ASSUME IInv, NEW s \in Sessions, NEW t \in Sessions, s # t,
                      Wanted(s), Wanted(t), s \notin overtaken, t \notin overtaken
               PROVE  want[s].key # want[t].key /\ want[s].device # want[t].device
    BY DEF NoDuplicateTranscode
  <2>1. s \in Intact /\ t \in Intact
    BY DEF Intact, Undisturbed, Wanted
  <2>2. want[s].key # want[t].key
    BY <2>1 DEF IInv, IntactActive, IndexUnique
  <2>3. ~Claimed(s) /\ ~Claimed(t)
    BY DEF IInv, Places, Claimed, Starting, Wanted, Live
  <2>4. want[s].device # want[t].device
    BY <2>1, <2>3 DEF IInv, DeviceTaken, Rivals
  <2> QED
    BY <2>2, <2>4
<1> QED
  BY <1>1, SpecIInv, PTL
=============================================================================
