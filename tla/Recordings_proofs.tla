------------------------- MODULE Recordings_proofs -------------------------
(***************************************************************************)
(* Proofs about Recordings for any timers, tasks and starters: the         *)
(* shutdown's barrier, the registries and the recording files stay right,  *)
(* however starts, failures, shutdowns and crashes interleave.             *)
(***************************************************************************)
EXTENDS Recordings, TLAPS

Labels == Starting \union Recording \union WindingUp
            \union {"unused", "gone", "idle", "checking", "reserving", "editing"}

(* From the creation of its file until it has looked at the file's size a  *)
(* task relies on the file being its own.                                  *)
Owning == {"created", "loaded", "copying", "ended", "finishing"}

(* Whoever works for a timer knows which one.                              *)
TimersKnown ==
    /\ \A k \in Tasks : pc[k] # "unused" => timer[k] \in Timers
    /\ \A s \in Starters : pc[s] \in {"checking", "reserving"} => timer[s] \in Timers

(* A process that has not started yet runs nothing.                        *)
BootQuiet ==
    phase = "boot" =>
        /\ \A k \in Tasks : pc[k] \in {"unused", "gone"}
        /\ \A s \in Starters : pc[s] = "idle"
        /\ \A t \in Timers : starting[t] = None /\ active[t] = None

(* Only a shutdown aborts tasks.                                           *)
AbortsInShutdown == \A k \in Tasks : pc[k] = "aborted" => ShutdownStarted

(* A file has one owner, and stays until the owner lets go of it.          *)
FilesOwned ==
    /\ \A k, j \in Tasks :
         pc[k] \in Owning /\ pc[j] \in Owning /\ timer[k] = timer[j] => k = j
    /\ \A k \in Tasks : pc[k] \in Owning => file[timer[k]] # "none"

(* The three parts of the inductive invariant.                             *)
Typed == TypeOK /\ pc \in [Actors -> Labels]

Registries ==
    /\ TimersKnown /\ BootQuiet /\ AbortsInShutdown
    /\ ShutdownBarrier /\ RegistriesHaveTasks

IInv == Typed /\ Registries /\ FilesOwned

-----------------------------------------------------------------------------
(* The edits of the livetv document keep its form.                         *)

(* The documents of a fresh installation.                                  *)
LEMMA EmptyTyped == Empty \in Documents
BY DEF Empty, Documents

(* Setting the status of one recording leaves a document.                  *)
LEMMA RecordingSet ==
    ASSUME NEW doc \in Documents, NEW k \in Tasks, NEW status \in {"none", "InProgress", "Completed"}
    PROVE  [doc EXCEPT !.recordings[k] = status] \in Documents
BY DEF Documents

(* Setting the status of one timer leaves a document.                      *)
LEMMA TimerSet ==
    ASSUME NEW doc \in Documents, NEW t \in Timers, NEW status \in {"none", "new", "done"}
    PROVE  [doc EXCEPT !.timers[t] = status] \in Documents
BY DEF Documents

(* Setting both leaves a document.                                         *)
LEMMA BothSet ==
    ASSUME NEW doc \in Documents, NEW k \in Tasks, NEW t \in Timers,
           NEW status \in {"none", "InProgress", "Completed"}, NEW timerStatus \in {"none", "new", "done"}
    PROVE  [doc EXCEPT !.recordings[k] = status, !.timers[t] = timerStatus] \in Documents
BY DEF Documents

(* Pruning the history leaves a document.                                  *)
LEMMA PrunedTyped ==
    ASSUME NEW doc \in Documents
    PROVE  Pruned(doc) \in Documents
BY DEF Documents, Pruned

(* So does every edit a request makes.                                     *)
LEMMA EditsTyped ==
    ASSUME NEW doc \in Documents, NEW e \in Edits(doc)
    PROVE  e \in Documents
<1>1. CASE e \in {doc, Pruned(doc)}
  BY <1>1, PrunedTyped
<1>2. CASE \E t \in Timers, status \in {"none", "new"} : e = [doc EXCEPT !.timers[t] = status]
  BY <1>2, TimerSet
<1> QED
  BY <1>1, <1>2 DEF Edits

-----------------------------------------------------------------------------
(* Every step keeps the types; documents read earlier are written back.    *)
LEMMA TypedStep ==
    ASSUME IInv, Next
    PROVE  Typed'
<1> USE RecordingsAssumption DEF IInv, Typed, TypeOK, Labels, Starting, Recording, WindingUp,
        Actors, Goto, disk, registries
<1>1. ASSUME NEW k \in Tasks, Launch(k)
      PROVE  Typed'
  BY <1>1 DEF Launch, WithoutGuard
<1>2. ASSUME NEW k \in Tasks, GiveUp(k)
      PROVE  Typed'
  BY <1>2 DEF GiveUp, WithoutGuard
<1>3. ASSUME NEW k \in Tasks, Promote(k)
      PROVE  Typed'
  BY <1>3 DEF Promote, WithoutGuard, MayPromote
<1>4. ASSUME NEW k \in Tasks, DropGuard(k)
      PROVE  Typed'
  BY <1>4 DEF DropGuard, WithoutGuard
<1>5. ASSUME NEW k \in Tasks, Abort(k)
      PROVE  Typed'
  BY <1>5 DEF Abort, Unregistered
<1>6. ASSUME NEW k \in Tasks, Create(k)
      PROVE  Typed'
  BY <1>6 DEF Create, MayCreate, Cancelled
<1>7. ASSUME NEW k \in Tasks, CreateFails(k)
      PROVE  Typed'
  BY <1>7 DEF CreateFails, Unregistered
<1>8. ASSUME NEW k \in Tasks, LoadConfig(k)
      PROVE  Typed'
  BY <1>8 DEF LoadConfig, Read
<1>9. ASSUME NEW k \in Tasks, PersistInProgress(k)
      PROVE  Typed'
  <2>1. [snapshot[k] EXCEPT !.recordings[k] = "InProgress"] \in Documents
    BY RecordingSet
  <2> QED
    BY <1>9, <2>1, EmptyTyped DEF PersistInProgress, Write
<1>10. ASSUME NEW k \in Tasks, CopyBytes(k)
       PROVE  Typed'
  BY <1>10 DEF CopyBytes
<1>11. ASSUME NEW k \in Tasks, StopCopying(k)
       PROVE  Typed'
  BY <1>11 DEF StopCopying
<1>12. ASSUME NEW k \in Tasks, Cleanup(k)
       PROVE  Typed'
  BY <1>12, EmptyTyped DEF Cleanup, Unregistered
<1>13. ASSUME NEW k \in Tasks, Unregister(k)
       PROVE  Typed'
  BY <1>13 DEF Unregister, Unregistered
<1>14. ASSUME NEW k \in Tasks, FinishLoad(k)
       PROVE  Typed'
  BY <1>14 DEF FinishLoad, Read
<1>15. ASSUME NEW k \in Tasks, SaveCompleted(k)
       PROVE  Typed'
  <2>1. timer[k] \in Timers
    BY <1>15 DEF Registries, TimersKnown, SaveCompleted
  <2>2. snapshot[k].recordings[k] \in {"none", "InProgress", "Completed"}
          /\ snapshot[k].timers[timer[k]] \in {"none", "new", "done"}
    BY <2>1 DEF Documents
  <2>3. config' \in Documents
    BY <1>15, <2>1, <2>2, BothSet DEF SaveCompleted, Write
  <2> QED
    BY <1>15, <2>3, EmptyTyped DEF SaveCompleted, Write
<1>16. ASSUME NEW k \in Tasks, SaveDiscarded(k)
       PROVE  Typed'
  <2>1. timer[k] \in Timers
    BY <1>16 DEF Registries, TimersKnown, SaveDiscarded
  <2>2. config' \in Documents
    BY <1>16, <2>1, BothSet DEF SaveDiscarded, Write
  <2> QED
    BY <1>16, <2>2, EmptyTyped DEF SaveDiscarded, Write
<1>17. ASSUME NEW k \in Tasks, ClearLoad(k)
       PROVE  Typed'
  BY <1>17 DEF ClearLoad, Read
<1>18. ASSUME NEW k \in Tasks, ClearSave(k)
       PROVE  Typed'
  <2>1. [snapshot[k] EXCEPT !.recordings[k] = "none"] \in Documents
    BY RecordingSet
  <2> QED
    BY <1>18, <2>1, EmptyTyped DEF ClearSave, Write
<1>19. ASSUME NEW s \in Starters, NEW t \in Timers, Due(s, t)
       PROVE  Typed'
  BY <1>19 DEF Due
<1>20. ASSUME NEW s \in Starters, NEW k \in Tasks, Reserve(s, k)
       PROVE  Typed'
  BY <1>20 DEF Reserve
<1>21. ASSUME NEW s \in Starters, CheckActive(s)
       PROVE  Typed'
  BY <1>21 DEF CheckActive
<1>22. ASSUME NEW s \in Starters, NotReserved(s)
       PROVE  Typed'
  BY <1>22 DEF NotReserved
<1>23. ASSUME NEW s \in Starters, EditLoad(s)
       PROVE  Typed'
  BY <1>23 DEF EditLoad, Read
<1>24. ASSUME NEW s \in Starters, EditSave(s)
       PROVE  Typed'
  <2>1. config' \in Documents
    BY <1>24, EditsTyped DEF EditSave, Write
  <2> QED
    BY <1>24, <2>1, EmptyTyped DEF EditSave, Write
<1>25. ASSUME NEW t \in Timers, WindowEnds(t)
       PROVE  Typed'
  BY <1>25 DEF WindowEnds
<1>26. CASE BeginShutdown
  BY <1>26 DEF BeginShutdown
<1>27. CASE SweepStarting
  BY <1>27 DEF SweepStarting
<1>28. CASE SweepActive
  BY <1>28 DEF SweepActive
<1>29. CASE Exit
  BY <1>29, EmptyTyped DEF Exit, Stopped
<1>30. CASE Reconcile
  <2>1. [config EXCEPT !.recordings = [k \in Tasks |-> IF k \in Stale THEN "none" ELSE config.recordings[k]]] \in Documents
    BY DEF Documents
  <2>2. config' \in Documents
    BY <1>30, <2>1, PrunedTyped DEF Reconcile
  <2> QED
    BY <1>30, <2>2 DEF Reconcile
<1> QED
  BY <1>1, <1>2, <1>3, <1>4, <1>5, <1>6, <1>7, <1>8, <1>9, <1>10, <1>11,
     <1>12, <1>13, <1>14, <1>15, <1>16, <1>17, <1>18, <1>19, <1>20, <1>21,
     <1>22, <1>23, <1>24, <1>25, <1>26, <1>27, <1>28, <1>29, <1>30 DEF Next, TaskStep

(* Every step keeps the registries in order: whoever stops being a task of *)
(* a registry takes its own entry out, or a sweep is about to.             *)
LEMMA RegistriesStep ==
    ASSUME IInv, Next
    PROVE  Registries'
<1> USE RecordingsAssumption DEF IInv, Typed, TypeOK, Labels, Starting, Recording, WindingUp,
        Actors, Goto, disk, registries, ShutdownStarted, Running, Registries, TimersKnown,
        BootQuiet, AbortsInShutdown, ShutdownBarrier, RegistriesHaveTasks, ReservationsHaveTasks
<1>1. ASSUME NEW k \in Tasks, Launch(k)
      PROVE  Registries'
  BY <1>1 DEF Launch, WithoutGuard
<1>2. ASSUME NEW k \in Tasks, GiveUp(k)
      PROVE  Registries'
  BY <1>2 DEF GiveUp, WithoutGuard
<1>3. ASSUME NEW k \in Tasks, Promote(k)
      PROVE  Registries'
  BY <1>3 DEF Promote, WithoutGuard, MayPromote
<1>4. ASSUME NEW k \in Tasks, DropGuard(k)
      PROVE  Registries'
  BY <1>4 DEF DropGuard, WithoutGuard
<1>5. ASSUME NEW k \in Tasks, Abort(k)
      PROVE  Registries'
  BY <1>5 DEF Abort, Unregistered
<1>6. ASSUME NEW k \in Tasks, Create(k)
      PROVE  Registries'
  BY <1>6 DEF Create, MayCreate, Cancelled
<1>7. ASSUME NEW k \in Tasks, CreateFails(k)
      PROVE  Registries'
  BY <1>7 DEF CreateFails, Unregistered
<1>8. ASSUME NEW k \in Tasks, LoadConfig(k)
      PROVE  Registries'
  BY <1>8 DEF LoadConfig, Read
<1>9. ASSUME NEW k \in Tasks, PersistInProgress(k)
      PROVE  Registries'
  BY <1>9 DEF PersistInProgress, Write
<1>10. ASSUME NEW k \in Tasks, CopyBytes(k)
       PROVE  Registries'
  BY <1>10 DEF CopyBytes
<1>11. ASSUME NEW k \in Tasks, StopCopying(k)
       PROVE  Registries'
  BY <1>11 DEF StopCopying
<1>12. ASSUME NEW k \in Tasks, Cleanup(k)
       PROVE  Registries'
  BY <1>12 DEF Cleanup, Unregistered
<1>13. ASSUME NEW k \in Tasks, Unregister(k)
       PROVE  Registries'
  BY <1>13 DEF Unregister, Unregistered
<1>14. ASSUME NEW k \in Tasks, FinishLoad(k)
       PROVE  Registries'
  BY <1>14 DEF FinishLoad, Read
<1>15. ASSUME NEW k \in Tasks, SaveCompleted(k)
       PROVE  Registries'
  BY <1>15 DEF SaveCompleted, Write
<1>16. ASSUME NEW k \in Tasks, SaveDiscarded(k)
       PROVE  Registries'
  BY <1>16 DEF SaveDiscarded, Write
<1>17. ASSUME NEW k \in Tasks, ClearLoad(k)
       PROVE  Registries'
  BY <1>17 DEF ClearLoad, Read
<1>18. ASSUME NEW k \in Tasks, ClearSave(k)
       PROVE  Registries'
  BY <1>18 DEF ClearSave, Write
<1>19. ASSUME NEW s \in Starters, NEW t \in Timers, Due(s, t)
       PROVE  Registries'
  BY <1>19 DEF Due
<1>20. ASSUME NEW s \in Starters, NEW k \in Tasks, Reserve(s, k)
       PROVE  Registries'
  BY <1>20 DEF Reserve
<1>21. ASSUME NEW s \in Starters, CheckActive(s)
       PROVE  Registries'
  BY <1>21 DEF CheckActive
<1>22. ASSUME NEW s \in Starters, NotReserved(s)
       PROVE  Registries'
  BY <1>22 DEF NotReserved
<1>23. ASSUME NEW s \in Starters, EditLoad(s)
       PROVE  Registries'
  BY <1>23 DEF EditLoad, Read
<1>24. ASSUME NEW s \in Starters, EditSave(s)
       PROVE  Registries'
  BY <1>24 DEF EditSave, Write
<1>25. ASSUME NEW t \in Timers, WindowEnds(t)
       PROVE  Registries'
  BY <1>25 DEF WindowEnds
<1>26. CASE BeginShutdown
  BY <1>26 DEF BeginShutdown
<1>27. CASE SweepStarting
  BY <1>27 DEF SweepStarting
<1>28. CASE SweepActive
  BY <1>28 DEF SweepActive
<1>29. CASE Exit
  BY <1>29 DEF Exit, Stopped
<1>30. CASE Reconcile
  BY <1>30 DEF Reconcile
<1> QED
  BY <1>1, <1>2, <1>3, <1>4, <1>5, <1>6, <1>7, <1>8, <1>9, <1>10, <1>11,
     <1>12, <1>13, <1>14, <1>15, <1>16, <1>17, <1>18, <1>19, <1>20, <1>21,
     <1>22, <1>23, <1>24, <1>25, <1>26, <1>27, <1>28, <1>29, <1>30 DEF Next, TaskStep

(* Every step leaves each file to its owner: only Create makes an owner,   *)
(* and only when there is no file, and only an owner removes a file.       *)
LEMMA FilesStep ==
    ASSUME IInv, Next
    PROVE  FilesOwned'
<1> USE RecordingsAssumption DEF IInv, Typed, TypeOK, Labels, Starting, Recording, WindingUp,
        Owning, Actors, Goto, disk, registries, Registries, TimersKnown, BootQuiet, FilesOwned
<1>1. ASSUME NEW k \in Tasks, Launch(k)
      PROVE  FilesOwned'
  BY <1>1 DEF Launch, WithoutGuard
<1>2. ASSUME NEW k \in Tasks, GiveUp(k)
      PROVE  FilesOwned'
  BY <1>2 DEF GiveUp, WithoutGuard
<1>3. ASSUME NEW k \in Tasks, Promote(k)
      PROVE  FilesOwned'
  BY <1>3 DEF Promote, WithoutGuard, MayPromote
<1>4. ASSUME NEW k \in Tasks, DropGuard(k)
      PROVE  FilesOwned'
  BY <1>4 DEF DropGuard, WithoutGuard
<1>5. ASSUME NEW k \in Tasks, Abort(k)
      PROVE  FilesOwned'
  BY <1>5 DEF Abort, Unregistered
<1>6. ASSUME NEW k \in Tasks, Create(k)
      PROVE  FilesOwned'
  BY <1>6 DEF Create, MayCreate, Cancelled
<1>7. ASSUME NEW k \in Tasks, CreateFails(k)
      PROVE  FilesOwned'
  BY <1>7 DEF CreateFails, Unregistered
<1>8. ASSUME NEW k \in Tasks, LoadConfig(k)
      PROVE  FilesOwned'
  BY <1>8 DEF LoadConfig, Read
<1>9. ASSUME NEW k \in Tasks, PersistInProgress(k)
      PROVE  FilesOwned'
  BY <1>9 DEF PersistInProgress, Write
<1>10. ASSUME NEW k \in Tasks, CopyBytes(k)
       PROVE  FilesOwned'
  BY <1>10 DEF CopyBytes
<1>11. ASSUME NEW k \in Tasks, StopCopying(k)
       PROVE  FilesOwned'
  BY <1>11 DEF StopCopying
<1>12. ASSUME NEW k \in Tasks, Cleanup(k)
       PROVE  FilesOwned'
  BY <1>12 DEF Cleanup, Unregistered
<1>13. ASSUME NEW k \in Tasks, Unregister(k)
       PROVE  FilesOwned'
  BY <1>13 DEF Unregister, Unregistered
<1>14. ASSUME NEW k \in Tasks, FinishLoad(k)
       PROVE  FilesOwned'
  BY <1>14 DEF FinishLoad, Read
<1>15. ASSUME NEW k \in Tasks, SaveCompleted(k)
       PROVE  FilesOwned'
  BY <1>15 DEF SaveCompleted, Write
<1>16. ASSUME NEW k \in Tasks, SaveDiscarded(k)
       PROVE  FilesOwned'
  BY <1>16 DEF SaveDiscarded, Write
<1>17. ASSUME NEW k \in Tasks, ClearLoad(k)
       PROVE  FilesOwned'
  BY <1>17 DEF ClearLoad, Read
<1>18. ASSUME NEW k \in Tasks, ClearSave(k)
       PROVE  FilesOwned'
  BY <1>18 DEF ClearSave, Write
<1>19. ASSUME NEW s \in Starters, NEW t \in Timers, Due(s, t)
       PROVE  FilesOwned'
  BY <1>19 DEF Due
<1>20. ASSUME NEW s \in Starters, NEW k \in Tasks, Reserve(s, k)
       PROVE  FilesOwned'
  BY <1>20 DEF Reserve
<1>21. ASSUME NEW s \in Starters, CheckActive(s)
       PROVE  FilesOwned'
  BY <1>21 DEF CheckActive
<1>22. ASSUME NEW s \in Starters, NotReserved(s)
       PROVE  FilesOwned'
  BY <1>22 DEF NotReserved
<1>23. ASSUME NEW s \in Starters, EditLoad(s)
       PROVE  FilesOwned'
  BY <1>23 DEF EditLoad, Read
<1>24. ASSUME NEW s \in Starters, EditSave(s)
       PROVE  FilesOwned'
  BY <1>24 DEF EditSave, Write
<1>25. ASSUME NEW t \in Timers, WindowEnds(t)
       PROVE  FilesOwned'
  BY <1>25 DEF WindowEnds
<1>26. CASE BeginShutdown
  BY <1>26 DEF BeginShutdown
<1>27. CASE SweepStarting
  BY <1>27 DEF SweepStarting
<1>28. CASE SweepActive
  BY <1>28 DEF SweepActive
<1>29. CASE Exit
  BY <1>29 DEF Exit, Stopped
<1>30. CASE Reconcile
  BY <1>30 DEF Reconcile
<1> QED
  BY <1>1, <1>2, <1>3, <1>4, <1>5, <1>6, <1>7, <1>8, <1>9, <1>10, <1>11,
     <1>12, <1>13, <1>14, <1>15, <1>16, <1>17, <1>18, <1>19, <1>20, <1>21,
     <1>22, <1>23, <1>24, <1>25, <1>26, <1>27, <1>28, <1>29, <1>30 DEF Next, TaskStep

(* The invariant holds at the start.                                       *)
LEMMA InitIInv == Init => IInv
BY RecordingsAssumption, EmptyTyped
   DEF Init, IInv, Typed, TypeOK, Labels, Starting, Recording, WindingUp, Owning, Actors,
       Registries, TimersKnown, BootQuiet, AbortsInShutdown, ShutdownBarrier,
       RegistriesHaveTasks, ReservationsHaveTasks, FilesOwned

(* Every step keeps it.                                                    *)
LEMMA NextIInv == IInv /\ [Next]_vars => IInv'
<1> SUFFICES ASSUME IInv, [Next]_vars
             PROVE  IInv'
  OBVIOUS
<1>1. CASE Next
  BY <1>1, TypedStep, RegistriesStep, FilesStep DEF IInv
<1>2. CASE UNCHANGED vars
  BY <1>2 DEF vars, IInv, Typed, TypeOK, Registries, TimersKnown, BootQuiet, AbortsInShutdown,
              ShutdownStarted, ShutdownBarrier, RegistriesHaveTasks, ReservationsHaveTasks, FilesOwned
<1> QED
  BY <1>1, <1>2

-----------------------------------------------------------------------------
(* The inductive invariant holds in every reachable state.                 *)
THEOREM SpecIInv == Spec => []IInv
BY InitIInv, NextIInv, PTL DEF Spec

(* The state of the recorder is well-typed, whatever documents were read   *)
(* and written back in between.                                            *)
THEOREM SpecTypeOK == Spec => []TypeOK
<1>1. IInv => TypeOK
  BY DEF IInv, Typed
<1> QED
  BY <1>1, SpecIInv, PTL

(* After the sweep of the shutdown there is neither a starting nor an      *)
(* active recording, and none appears any more.                            *)
THEOREM SpecShutdownBarrier == Spec => []ShutdownBarrier
<1>1. IInv => ShutdownBarrier
  BY DEF IInv, Registries
<1> QED
  BY <1>1, SpecIInv, PTL

(* Reservations and cancel handles belong to tasks that are there, however *)
(* many tasks a timer has had.                                             *)
THEOREM SpecRegistriesHaveTasks == Spec => []RegistriesHaveTasks
<1>1. IInv => RegistriesHaveTasks
  BY DEF IInv, Registries
<1> QED
  BY <1>1, SpecIInv, PTL

(* Two tasks of a timer never write the same file.                         *)
THEOREM SpecOneWriterPerFile == Spec => []OneWriterPerFile
<1>1. IInv => OneWriterPerFile
  BY DEF IInv, FilesOwned, Owning, OneWriterPerFile
<1> QED
  BY <1>1, SpecIInv, PTL
=============================================================================
