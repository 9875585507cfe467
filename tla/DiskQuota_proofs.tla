-------------------------- MODULE DiskQuota_proofs --------------------------
(***************************************************************************)
(* Proofs about DiskQuota for any number of writers and observers, any     *)
(* quota and headroom and any id space larger than the number of writers:  *)
(* the books agree with the active writers, there is a monitor whenever    *)
(* there is one, and a breach on the books reaches the writers and stays.  *)
(***************************************************************************)
EXTENDS DiskQuota, FiniteSetTheorems, TLAPS

-----------------------------------------------------------------------------
(* The strengthening.                                                      *)

(* Whoever is inside a refresh holds the gate, and nobody else does.       *)
GateHeld == \A a \in Actors : pc[a] \in RefreshSteps <=> gate = a

(* Only writers are admitted.                                              *)
WritersAdmitted == \A a \in Actors : pc[a] \in {"admit", "active"} => a \in Writers

(* A missing root is resolved before the measurement is recorded.          *)
FoundResolved == \A a \in Actors : pc[a] = "record" => found # Missing

(* A breach on the books is signalled or about to be, writers or not, and  *)
(* what is about to be sent does not take it back.                         *)
BreachOnBooks ==
    /\ exceeded => signal \/ \E a \in Actors : pc[a] \in {"read", "send"}
    /\ \A a \in Actors : pc[a] = "send" /\ exceeded => toSend

IInv ==
    /\ TypeOK /\ GateHeld /\ WritersAdmitted /\ FoundResolved
    /\ Accounting /\ Watched /\ BreachOnBooks

-----------------------------------------------------------------------------
(* Quota, headroom and ids.                                                *)

(* What the constructor makes of the configuration: both at least one, the *)
(* headroom at most the quota.                                             *)
LEMMA Sizes == Quota \in Nat /\ Headroom \in Nat /\ Headroom >= 1 /\ Headroom <= Quota
  BY QuotaAssumption DEF Quota, Headroom, Max, Min

(* There are finitely many active writers, no more than writers.           *)
LEMMA ActiveFinite ==
    /\ IsFiniteSet(Active)
    /\ Cardinality(Active) \in Nat
    /\ Cardinality(Active) <= Cardinality(Writers)
<1>1. Active \in SUBSET Writers
  BY DEF Active
<1> QED
  BY <1>1, QuotaAssumption, FS_Subset, FS_CardinalityType

(* Fewer ids are in use than there are.                                    *)
LEMMA SomeIdFree ==
    ASSUME reservations = {idOf[w] : w \in Active}, idOf \in [Writers -> Ids]
    PROVE  \E i \in Ids : i \notin reservations
<1> SUFFICES ASSUME Ids \subseteq reservations
             PROVE  FALSE
  OBVIOUS
<1> DEFINE owner == [i \in Ids |-> CHOOSE w \in Active : idOf[w] = i]
<1>1. \A i \in Ids : owner[i] \in Active /\ idOf[owner[i]] = i
  OBVIOUS
<1>2. owner \in Injection(Ids, Active)
  <2>1. owner \in [Ids -> Active]
    BY <1>1
  <2> HIDE DEF owner
  <2> QED
    BY <1>1, <2>1 DEF Injection, IsInjective
<1>3. Cardinality(Ids) <= Cardinality(Active)
  BY <1>2, ActiveFinite, FS_Injection
<1>4. Cardinality(Ids) = IdSpace
  <2>1. IdSpace \in Nat /\ IdSpace > 0
    BY QuotaAssumption, FS_CardinalityType
  <2>2. Cardinality(0..(IdSpace - 1)) = IF 0 > IdSpace - 1 THEN 0 ELSE (IdSpace - 1) - 0 + 1
    BY <2>1, FS_Interval, IdSpace - 1 \in Int, 0 \in Int
  <2> QED
    BY <2>1, <2>2 DEF Ids
<1> QED
  BY <1>3, <1>4, ActiveFinite, QuotaAssumption, FS_CardinalityType

(* The next free id, counted from next_reservation_id around the id space, *)
(* exists and is free.                                                     *)
LEMMA FreeIdIsFree ==
    ASSUME nextId \in Ids, \E i \in Ids : i \notin reservations
    PROVE  FreeId \in Ids \ reservations
<1> DEFINE rank(i) == (i - nextId) % IdSpace
           free == {i \in Ids : i \notin reservations}
           below(i) == {j \in free : rank(j) < rank(i)}
           T == {below(i) : i \in free}
<1>1. \A i \in Ids : rank(i) \in Nat
  BY QuotaAssumption DEF Ids
<1>2. IsFiniteSet(Ids)
  BY QuotaAssumption, FS_Interval, IdSpace - 1 \in Int DEF Ids
<1>3. T \subseteq FiniteSubsetsOf(Ids) /\ T # {}
  <2>1. FiniteSubsetsOf(Ids) = SUBSET Ids
    BY <1>2, FS_FiniteSubsetsOfFinite
  <2>2. T \subseteq SUBSET Ids /\ T # {}
    OBVIOUS
  <2> HIDE DEF T
  <2> QED
    BY <2>1, <2>2
<1>4. PICK t \in T : \A u \in T : <<u, t>> \notin StrictSubsetOrdering(Ids)
  <2> HIDE DEF T
  <2> QED
    BY <1>3, WFMin, FS_StrictSubsetOrderingWellFounded
<1>5. PICK i \in free : t = below(i)
  OBVIOUS
<1>6. ASSUME NEW j \in free
      PROVE  ~(rank(j) < rank(i))
  <2> SUFFICES ASSUME rank(j) < rank(i)
               PROVE  FALSE
    OBVIOUS
  <2>1. below(j) \subseteq below(i)
    <3> HIDE DEF rank
    <3> QED
      BY <1>1
  <2>2. j \in below(i) /\ j \notin below(j)
    <3> HIDE DEF rank
    <3> QED
      BY <1>1
  <2>3. below(j) \in T /\ below(i) \in SUBSET Ids /\ below(j) \in SUBSET Ids
    OBVIOUS
  <2> HIDE DEF below, T
  <2>4. <<below(j), t>> \in StrictSubsetOrdering(Ids)
    BY <1>5, <2>1, <2>2, <2>3 DEF StrictSubsetOrdering
  <2> QED
    BY <1>4, <2>3, <2>4
<1>7. /\ i \in Ids /\ i \notin reservations
      /\ \A j \in Ids : rank(j) < rank(i) => j \in reservations
  BY <1>6
<1> QED
  BY <1>7 DEF FreeId

(* The gate is taken when it is free and left with the refresh.            *)
LEMMA GateHeldStep ==
    ASSUME IInv, [Next]_vars
    PROVE  GateHeld'
<1> USE DEF store, refresh
<1>0. /\ pc \in [Actors -> {"idle", "gate", "active", "off"} \union RefreshSteps]
      /\ GateHeld
      /\ WritersAdmitted
  BY DEF IInv, TypeOK
<1>1. ASSUME NEW a \in Actors, AskGate(a) \/ Cancel(a)
      PROVE  GateHeld'
  BY <1>0, <1>1, QuotaAssumption DEF GateHeld, RefreshSteps, Actors,
     AskGate, Goto, Cancel, LeaveGate
<1>2. ASSUME NEW a \in Actors, RefreshStep(a)
      PROVE  GateHeld'
  <2>1. CASE TakeGate(a)
    BY <1>0, <1>2, <2>1, QuotaAssumption DEF GateHeld, RefreshSteps, Actors,
       TakeGate, Goto
  <2>2. CASE UseCache(a)
    BY <1>0, <1>2, <2>2, QuotaAssumption DEF GateHeld, RefreshSteps, Actors,
       UseCache, Goto, LeaveGate
  <2>3. CASE StartScan(a)
    BY <1>0, <1>2, <2>3, QuotaAssumption DEF GateHeld, RefreshSteps, Actors,
       StartScan, Goto
  <2>4. CASE Measure(a)
    BY <1>0, <1>2, <2>4, QuotaAssumption DEF GateHeld, RefreshSteps, Actors,
       Measure, Goto
  <2>5. CASE Resolve(a)
    BY <1>0, <1>2, <2>5, QuotaAssumption DEF GateHeld, RefreshSteps, Actors,
       Resolve, Goto
  <2>6. CASE Record(a)
    BY <1>0, <1>2, <2>6, QuotaAssumption DEF GateHeld, RefreshSteps, Actors,
       Record, NoteUsage, Goto
  <2>7. CASE RecordFailure(a)
    BY <1>0, <1>2, <2>7, QuotaAssumption DEF GateHeld, RefreshSteps, Actors,
       RecordFailure, Goto
  <2>8. CASE ReadExceeded(a)
    BY <1>0, <1>2, <2>8, QuotaAssumption DEF GateHeld, RefreshSteps, Actors,
       ReadExceeded, Goto
  <2>9. CASE Send(a)
    BY <1>0, <1>2, <2>9, QuotaAssumption DEF GateHeld, RefreshSteps, Actors,
       Send, Goto, LeaveGate
  <2> QED
    BY <1>2, <2>1, <2>2, <2>3, <2>4, <2>5, <2>6, <2>7, <2>8, <2>9 DEF
       RefreshStep
<1>3. ASSUME NEW w \in Writers, Admit(w)
      PROVE  GateHeld'
  BY <1>0, <1>3, QuotaAssumption DEF GateHeld, RefreshSteps, Actors, Admit
<1>4. ASSUME NEW w \in Writers, Refuse(w)
      PROVE  GateHeld'
  BY <1>0, <1>4, QuotaAssumption DEF GateHeld, RefreshSteps, Actors, Refuse,
     LeaveGate, Goto
<1>5. ASSUME NEW w \in Writers, Release(w)
      PROVE  GateHeld'
  BY <1>0, <1>5, QuotaAssumption DEF GateHeld, RefreshSteps, Actors,
     Release, Goto
<1>6. CASE Wake
  BY <1>0, <1>6, QuotaAssumption DEF GateHeld, RefreshSteps, Actors, Wake,
     Goto
<1>7. CASE (\E w \in Writers : Write(w)) \/ CleanUp \/ Age \/ UNCHANGED vars
  BY <1>0, <1>7 DEF GateHeld, RefreshSteps, Actors, Write, CleanUp, Age,
     vars
<1> QED
  BY <1>1, <1>2, <1>3, <1>4, <1>5, <1>6, <1>7 DEF Next

(* Only writers go on to their admission.                                  *)
LEMMA WritersAdmittedStep ==
    ASSUME IInv, [Next]_vars
    PROVE  WritersAdmitted'
<1> USE DEF store, refresh
<1>0. /\ pc \in [Actors -> {"idle", "gate", "active", "off"} \union RefreshSteps]
      /\ WritersAdmitted
  BY DEF IInv, TypeOK
<1>1. ASSUME NEW a \in Actors, AskGate(a) \/ Cancel(a)
      PROVE  WritersAdmitted'
  BY <1>0, <1>1 DEF WritersAdmitted, RefreshSteps, Actors, AskGate, Goto,
     Cancel, LeaveGate
<1>2. ASSUME NEW a \in Actors, RefreshStep(a)
      PROVE  WritersAdmitted'
  BY <1>0, <1>2 DEF WritersAdmitted, RefreshSteps, Actors, RefreshStep,
     TakeGate, Goto, UseCache, LeaveGate, StartScan, Measure, Resolve, Record,
     NoteUsage, RecordFailure, ReadExceeded, Send
<1>3. ASSUME NEW w \in Writers, Admit(w)
      PROVE  WritersAdmitted'
  BY <1>0, <1>3 DEF WritersAdmitted, RefreshSteps, Actors, Admit
<1>4. ASSUME NEW w \in Writers, Refuse(w)
      PROVE  WritersAdmitted'
  BY <1>0, <1>4 DEF WritersAdmitted, RefreshSteps, Actors, Refuse,
     LeaveGate, Goto
<1>5. ASSUME NEW w \in Writers, Release(w)
      PROVE  WritersAdmitted'
  BY <1>0, <1>5 DEF WritersAdmitted, RefreshSteps, Actors, Release, Goto
<1>6. CASE Wake
  BY <1>0, <1>6 DEF WritersAdmitted, RefreshSteps, Actors, Wake, Goto
<1>7. CASE (\E w \in Writers : Write(w)) \/ CleanUp \/ Age \/ UNCHANGED vars
  BY <1>0, <1>7 DEF WritersAdmitted, RefreshSteps, Actors, Write, CleanUp,
     Age, vars
<1> QED
  BY <1>1, <1>2, <1>3, <1>4, <1>5, <1>6, <1>7 DEF Next

(* Nobody else touches the measurement of a refresh under way.             *)
LEMMA FoundResolvedStep ==
    ASSUME IInv, [Next]_vars
    PROVE  FoundResolved'
<1> USE DEF store, refresh
<1>0. /\ pc \in [Actors -> {"idle", "gate", "active", "off"} \union RefreshSteps]
      /\ found \in 0..MaxDisk \union {Missing, Failed}
      /\ GateHeld
      /\ FoundResolved
  BY DEF IInv, TypeOK
<1>1. ASSUME NEW a \in Actors, AskGate(a) \/ Cancel(a)
      PROVE  FoundResolved'
  BY <1>0, <1>1, QuotaAssumption DEF FoundResolved, GateHeld, RefreshSteps,
     Actors, AskGate, Goto, Cancel, LeaveGate
<1>2. ASSUME NEW a \in Actors, RefreshStep(a)
      PROVE  FoundResolved'
  BY <1>0, <1>2, QuotaAssumption DEF FoundResolved, GateHeld, RefreshSteps,
     Actors, RefreshStep, TakeGate, Goto, UseCache, LeaveGate, StartScan,
     Measure, Resolve, Record, NoteUsage, RecordFailure, ReadExceeded, Send
<1>3. ASSUME NEW w \in Writers, Admit(w)
      PROVE  FoundResolved'
  BY <1>0, <1>3, QuotaAssumption DEF FoundResolved, GateHeld, RefreshSteps,
     Actors, Admit
<1>4. ASSUME NEW w \in Writers, Refuse(w)
      PROVE  FoundResolved'
  BY <1>0, <1>4, QuotaAssumption DEF FoundResolved, GateHeld, RefreshSteps,
     Actors, Refuse, LeaveGate, Goto
<1>5. ASSUME NEW w \in Writers, Release(w)
      PROVE  FoundResolved'
  BY <1>0, <1>5, QuotaAssumption DEF FoundResolved, GateHeld, RefreshSteps,
     Actors, Release, Goto
<1>6. CASE Wake
  BY <1>0, <1>6, QuotaAssumption DEF FoundResolved, GateHeld, RefreshSteps,
     Actors, Wake, Goto
<1>7. CASE (\E w \in Writers : Write(w)) \/ CleanUp \/ Age \/ UNCHANGED vars
  BY <1>0, <1>7 DEF FoundResolved, GateHeld, RefreshSteps, Actors, Write,
     CleanUp, Age, vars
<1> QED
  BY <1>1, <1>2, <1>3, <1>4, <1>5, <1>6, <1>7 DEF Next

(* Only the holder of the gate puts a breach on the books, and it signals  *)
(* what it finds there.                                                    *)
LEMMA BreachOnBooksStep ==
    ASSUME IInv, [Next]_vars
    PROVE  BreachOnBooks'
<1> USE DEF store, refresh
<1>0. /\ pc \in [Actors -> {"idle", "gate", "active", "off"} \union RefreshSteps]
      /\ GateHeld
      /\ BreachOnBooks
  BY DEF IInv, TypeOK
<1>1. ASSUME NEW a \in Actors, AskGate(a) \/ Cancel(a)
      PROVE  BreachOnBooks'
  BY <1>0, <1>1, QuotaAssumption DEF BreachOnBooks, GateHeld, RefreshSteps,
     Actors, AskGate, Goto, Cancel, LeaveGate
<1>2. ASSUME NEW a \in Actors, RefreshStep(a)
      PROVE  BreachOnBooks'
  <2>1. CASE TakeGate(a)
    BY <1>0, <1>2, <2>1, QuotaAssumption DEF BreachOnBooks, GateHeld,
       RefreshSteps, Actors, TakeGate, Goto
  <2>2. CASE UseCache(a)
    BY <1>0, <1>2, <2>2, QuotaAssumption DEF BreachOnBooks, GateHeld,
       RefreshSteps, Actors, UseCache, Goto, LeaveGate
  <2>3. CASE StartScan(a)
    BY <1>0, <1>2, <2>3, QuotaAssumption DEF BreachOnBooks, GateHeld,
       RefreshSteps, Actors, StartScan, Goto
  <2>4. CASE Measure(a)
    BY <1>0, <1>2, <2>4, QuotaAssumption DEF BreachOnBooks, GateHeld,
       RefreshSteps, Actors, Measure, Goto
  <2>5. CASE Resolve(a)
    BY <1>0, <1>2, <2>5, QuotaAssumption DEF BreachOnBooks, GateHeld,
       RefreshSteps, Actors, Resolve, Goto
  <2>6. CASE Record(a)
    BY <1>0, <1>2, <2>6, QuotaAssumption DEF BreachOnBooks, GateHeld,
       RefreshSteps, Actors, Record, NoteUsage, Goto
  <2>7. CASE RecordFailure(a)
    BY <1>0, <1>2, <2>7, QuotaAssumption DEF BreachOnBooks, GateHeld,
       RefreshSteps, Actors, RecordFailure, Goto
  <2>8. CASE ReadExceeded(a)
    BY <1>0, <1>2, <2>8, QuotaAssumption DEF BreachOnBooks, GateHeld,
       RefreshSteps, Actors, ReadExceeded, Goto
  <2>9. CASE Send(a)
    BY <1>0, <1>2, <2>9, QuotaAssumption DEF BreachOnBooks, GateHeld,
       RefreshSteps, Actors, Send, Goto, LeaveGate
  <2> QED
    BY <1>2, <2>1, <2>2, <2>3, <2>4, <2>5, <2>6, <2>7, <2>8, <2>9 DEF
       RefreshStep
<1>3. ASSUME NEW w \in Writers, Admit(w)
      PROVE  BreachOnBooks'
  BY <1>0, <1>3, QuotaAssumption DEF BreachOnBooks, GateHeld, RefreshSteps,
     Actors, Admit
<1>4. ASSUME NEW w \in Writers, Refuse(w)
      PROVE  BreachOnBooks'
  BY <1>0, <1>4, QuotaAssumption DEF BreachOnBooks, GateHeld, RefreshSteps,
     Actors, Refuse, LeaveGate, Goto
<1>5. ASSUME NEW w \in Writers, Release(w)
      PROVE  BreachOnBooks'
  BY <1>0, <1>5, QuotaAssumption DEF BreachOnBooks, GateHeld, RefreshSteps,
     Actors, Release, Goto
<1>6. CASE Wake
  BY <1>0, <1>6, QuotaAssumption DEF BreachOnBooks, GateHeld, RefreshSteps,
     Actors, Wake, Goto
<1>7. CASE (\E w \in Writers : Write(w)) \/ CleanUp \/ Age \/ UNCHANGED vars
  BY <1>0, <1>7 DEF BreachOnBooks, GateHeld, RefreshSteps, Actors, Write,
     CleanUp, Age, vars
<1> QED
  BY <1>1, <1>2, <1>3, <1>4, <1>5, <1>6, <1>7 DEF Next

(* The admission that finds no monitor starts one, and the monitor leaves  *)
(* only when nothing is reserved.                                          *)
LEMMA WatchedStep ==
    ASSUME IInv, [Next]_vars
    PROVE  Watched'
<1> USE DEF store, refresh
<1>0. /\ pc \in [Actors -> {"idle", "gate", "active", "off"} \union RefreshSteps]
      /\ Accounting
      /\ Watched
  BY DEF IInv, TypeOK
<1>1. ASSUME NEW a \in Actors, AskGate(a) \/ Cancel(a)
      PROVE  Watched'
  BY <1>0, <1>1, QuotaAssumption DEF Watched, Active, RefreshSteps, Actors,
     AskGate, Goto, Cancel, LeaveGate
<1>2. ASSUME NEW a \in Actors, RefreshStep(a)
      PROVE  Watched'
  <2>1. CASE TakeGate(a)
    BY <1>0, <1>2, <2>1, QuotaAssumption DEF Watched, Active, RefreshSteps,
       Actors, TakeGate, Goto
  <2>2. CASE UseCache(a)
    BY <1>0, <1>2, <2>2, QuotaAssumption DEF Watched, Active, RefreshSteps,
       Actors, UseCache, Goto, LeaveGate
  <2>3. CASE StartScan(a)
    BY <1>0, <1>2, <2>3, QuotaAssumption DEF Watched, Active, RefreshSteps,
       Actors, StartScan, Goto
  <2>4. CASE Measure(a)
    BY <1>0, <1>2, <2>4, QuotaAssumption DEF Watched, Active, RefreshSteps,
       Actors, Measure, Goto
  <2>5. CASE Resolve(a)
    BY <1>0, <1>2, <2>5, QuotaAssumption DEF Watched, Active, RefreshSteps,
       Actors, Resolve, Goto
  <2>6. CASE Record(a)
    BY <1>0, <1>2, <2>6, QuotaAssumption DEF Watched, Active, RefreshSteps,
       Actors, Record, NoteUsage, Goto
  <2>7. CASE RecordFailure(a)
    BY <1>0, <1>2, <2>7, QuotaAssumption DEF Watched, Active, RefreshSteps,
       Actors, RecordFailure, Goto
  <2>8. CASE ReadExceeded(a)
    BY <1>0, <1>2, <2>8, QuotaAssumption DEF Watched, Active, RefreshSteps,
       Actors, ReadExceeded, Goto
  <2>9. CASE Send(a)
    BY <1>0, <1>2, <2>9, QuotaAssumption DEF Watched, Active, RefreshSteps,
       Actors, Send, Goto, LeaveGate
  <2> QED
    BY <1>2, <2>1, <2>2, <2>3, <2>4, <2>5, <2>6, <2>7, <2>8, <2>9 DEF
       RefreshStep
<1>3. ASSUME NEW w \in Writers, Admit(w)
      PROVE  Watched'
  BY <1>0, <1>3, QuotaAssumption DEF Watched, Active, RefreshSteps, Actors,
     Admit
<1>4. ASSUME NEW w \in Writers, Refuse(w)
      PROVE  Watched'
  BY <1>0, <1>4, QuotaAssumption DEF Watched, Active, RefreshSteps, Actors,
     Refuse, LeaveGate, Goto
<1>5. ASSUME NEW w \in Writers, Release(w)
      PROVE  Watched'
  BY <1>0, <1>5, QuotaAssumption DEF Watched, Active, RefreshSteps, Actors,
     Release, Goto
<1>6. CASE Wake
  <2>1. reservations = {} => Active = {}
    BY <1>0 DEF Accounting
  <2>2. Active' = Active
    BY <1>0, <1>6, QuotaAssumption DEF Wake, Goto, Active, Actors
  <2>3. monitorRunning' <=> pc'[Monitor] # "off"
    BY <1>0, <1>6 DEF Wake, Goto, Watched, Actors
  <2>4. Active' # {} => monitorRunning'
    BY <1>0, <1>6, <2>1, <2>2 DEF Wake, Watched
  <2> QED
    BY <2>3, <2>4 DEF Watched
<1>7. CASE (\E w \in Writers : Write(w)) \/ CleanUp \/ Age \/ UNCHANGED vars
  BY <1>0, <1>7 DEF Watched, Active, RefreshSteps, Actors, Write, CleanUp,
     Age, vars
<1> QED
  BY <1>1, <1>2, <1>3, <1>4, <1>5, <1>6, <1>7 DEF Next

(* A step that leaves the books and the set of active writers alone.       *)
LEMMA AccountingFrame ==
    ASSUME Accounting, Active' = Active, UNCHANGED <<reservations, reserved, idOf>>
    PROVE  Accounting'
<1>1. \A w \in Active : idOf'[w] = idOf[w]
  OBVIOUS
<1> QED
  BY <1>1 DEF Accounting

(* The books follow the active writers: an admission adds a free id and    *)
(* one headroom that fits, a release removes the writer's own id and the   *)
(* headroom it was promised.                                               *)
LEMMA AccountingStep ==
    ASSUME IInv, [Next]_vars
    PROVE  Accounting'
<1> USE DEF store, refresh
<1>0. /\ pc \in [Actors -> {"idle", "gate", "active", "off"} \union RefreshSteps]
      /\ idOf \in [Writers -> Ids] /\ nextId \in Ids /\ usage \in 0..MaxDisk \union {NoUsage}
      /\ WritersAdmitted /\ Accounting
  BY DEF IInv, TypeOK
<1>1. ASSUME NEW a \in Actors, AskGate(a) \/ Cancel(a) \/ RefreshStep(a)
      PROVE  Accounting'
  <2>1. Active' = Active
    BY <1>0, <1>1 DEF Active, Actors, RefreshSteps, AskGate, Cancel, RefreshStep, TakeGate, UseCache,
       StartScan, Measure, Resolve, Record, RecordFailure, ReadExceeded, Send, LeaveGate, Goto
  <2>2. UNCHANGED <<reservations, reserved, idOf>>
    BY <1>1 DEF AskGate, Cancel, RefreshStep, TakeGate, UseCache, StartScan, Measure, Resolve,
       Record, RecordFailure, ReadExceeded, Send
  <2> QED
    BY <1>0, <2>1, <2>2, AccountingFrame
<1>2. ASSUME NEW w \in Writers, Admit(w)
      PROVE  Accounting'
  <2>1. FreeId \in Ids \ reservations
    BY <1>0, SomeIdFree, FreeIdIsFree DEF Accounting
  <2>2. Active' = Active \union {w} /\ w \notin Active
    BY <1>0, <1>2, QuotaAssumption DEF Admit, Active, Actors
  <2> DEFINE i == FreeId
  <2>3. /\ idOf' = [idOf EXCEPT ![w] = i]
        /\ reservations' = reservations \union {i} /\ reserved' = reserved + Headroom
    BY <1>2 DEF Admit
  <2>4. i \notin {idOf[v] : v \in Active}
    BY <1>0, <2>1 DEF Accounting
  <2>5. Active \subseteq Writers
    BY DEF Active
  <2> HIDE DEF i
  <2>6. reservations' = {idOf'[v] : v \in Active'}
    BY <1>0, <2>2, <2>3, <2>5 DEF Accounting
  <2>7. \A u, v \in Active' : idOf'[u] = idOf'[v] => u = v
    BY <1>0, <2>2, <2>3, <2>4, <2>5 DEF Accounting
  <2>8. Cardinality(Active') = Cardinality(Active) + 1
    BY <2>2, ActiveFinite, FS_AddElement
  <2>9. reserved' = Headroom * Cardinality(Active')
    <3>1. reserved = Headroom * Cardinality(Active)
      BY <1>0 DEF Accounting
    <3> QED
      BY <3>1, <2>3, <2>8, ActiveFinite, Sizes
  <2>10. reserved' <= Quota
    <3>1. reserved \in Nat
      BY <1>0, ActiveFinite, Sizes DEF Accounting
    <3>2. Measured \in Nat
      BY <1>0, QuotaAssumption DEF Measured
    <3>3. Measured + reserved + Headroom <= Quota
      BY <1>2 DEF Admit, Fits
    <3> QED
      BY <3>1, <3>2, <3>3, <2>3, Sizes
  <2> QED
    BY <2>6, <2>7, <2>9, <2>10 DEF Accounting
<1>3. ASSUME NEW w \in Writers, Refuse(w)
      PROVE  Accounting'
  <2>1. Active' = Active
    BY <1>0, <1>3 DEF Active, Actors, Refuse, LeaveGate, Goto
  <2> QED
    BY <1>0, <1>3, <2>1, AccountingFrame DEF Refuse
<1>4. ASSUME NEW w \in Writers, Release(w)
      PROVE  Accounting'
  <2>1. Active' = Active \ {w} /\ w \in Active
    BY <1>0, <1>4 DEF Release, Goto, Active, Actors
  <2>2. /\ idOf' = idOf
        /\ reservations' = reservations \ {idOf[w]} /\ reserved' = Max(reserved - Headroom, 0)
    BY <1>4 DEF Release
  <2>3. reservations' = {idOf'[v] : v \in Active'}
    BY <1>0, <2>1, <2>2 DEF Accounting
  <2>4. \A u, v \in Active' : idOf'[u] = idOf'[v] => u = v
    BY <1>0, <2>1, <2>2 DEF Accounting
  <2>5. Cardinality(Active') = Cardinality(Active) - 1 /\ Cardinality(Active) > 0
    BY <2>1, ActiveFinite, FS_RemoveElement, FS_EmptySet
  <2>6. reserved = Headroom * Cardinality(Active) /\ reserved <= Quota
    BY <1>0 DEF Accounting
  <2>7. reserved - Headroom = Headroom * Cardinality(Active') /\ Headroom * Cardinality(Active') \in Nat
    BY <2>5, <2>6, ActiveFinite, Sizes
  <2>8. reserved' = Headroom * Cardinality(Active')
    BY <2>2, <2>7 DEF Max
  <2>9. reserved' <= Quota
    BY <2>6, <2>7, <2>8, Sizes, ActiveFinite
  <2> QED
    BY <2>3, <2>4, <2>8, <2>9 DEF Accounting
<1>5. CASE Wake
  <2>1. Active' = Active
    BY <1>0, <1>5, QuotaAssumption DEF Active, Actors, Wake, Goto
  <2> QED
    BY <1>0, <1>5, <2>1, AccountingFrame DEF Wake
<1>6. CASE (\E w \in Writers : Write(w)) \/ CleanUp \/ Age \/ UNCHANGED vars
  <2>1. Active' = Active /\ UNCHANGED <<reservations, reserved, idOf>>
    BY <1>6 DEF Active, Write, CleanUp, Age, vars
  <2> QED
    BY <1>0, <2>1, AccountingFrame
<1> QED
  BY <1>1, <1>2, <1>3, <1>4, <1>5, <1>6 DEF Next

(* Types: the id drawn is an id, a recorded measurement is a number, and   *)
(* the disk never holds more than the bound.                               *)
LEMMA TypeOKStep ==
    ASSUME IInv, [Next]_vars
    PROVE  TypeOK'
<1> USE DEF store, refresh
<1>0. TypeOK /\ FoundResolved /\ Accounting
  BY DEF IInv
<1>1. ASSUME NEW a \in Actors, AskGate(a) \/ Cancel(a)
      PROVE  TypeOK'
  BY <1>0, <1>1, QuotaAssumption DEF TypeOK, AskGate, Cancel, LeaveGate, Goto
<1>2. ASSUME NEW a \in Actors, RefreshStep(a)
      PROVE  TypeOK'
  <2>1. CASE TakeGate(a)
    BY <1>0, <1>2, <2>1, QuotaAssumption DEF TypeOK, TakeGate, Goto,
       RefreshSteps
  <2>2. CASE UseCache(a)
    BY <1>0, <1>2, <2>2, QuotaAssumption DEF TypeOK, UseCache, Goto,
       LeaveGate, RefreshSteps
  <2>3. CASE StartScan(a)
    BY <1>0, <1>2, <2>3, QuotaAssumption DEF TypeOK, StartScan, Goto,
       RefreshSteps
  <2>4. CASE Measure(a)
    BY <1>0, <1>2, <2>4, QuotaAssumption DEF TypeOK, Measure, Goto,
       RefreshSteps
  <2>5. CASE Resolve(a)
    BY <1>0, <1>2, <2>5, QuotaAssumption DEF TypeOK, Resolve, Goto,
       RefreshSteps
  <2>6. CASE Record(a)
    <3>1. usage' \in 0..MaxDisk
      BY <1>0, <1>2, <2>6 DEF TypeOK, Record, FoundResolved
    <3>2. exceeded' \in BOOLEAN
      <4>1. found \in Nat
        BY <1>0, <1>2, <2>6, QuotaAssumption DEF TypeOK, Record, FoundResolved
      <4>2. (found >= Quota) \in BOOLEAN
        BY <4>1, Sizes
      <4>3. exceeded' = (found >= Quota) \/ exceeded' = (exceeded \/ found >= Quota)
        BY <2>6 DEF Record, NoteUsage
      <4> QED
        BY <4>2, <4>3
    <3> QED
      BY <1>0, <1>2, <2>6, <3>1, <3>2 DEF TypeOK, Record, Goto, RefreshSteps
  <2>7. CASE RecordFailure(a)
    BY <1>0, <1>2, <2>7, QuotaAssumption DEF TypeOK, RecordFailure, Goto,
       RefreshSteps
  <2>8. CASE ReadExceeded(a)
    BY <1>0, <1>2, <2>8, QuotaAssumption DEF TypeOK, ReadExceeded, Goto,
       RefreshSteps
  <2>9. CASE Send(a)
    BY <1>0, <1>2, <2>9, QuotaAssumption DEF TypeOK, Send, Goto, LeaveGate,
       RefreshSteps
  <2> QED
    BY <1>2, <2>1, <2>2, <2>3, <2>4, <2>5, <2>6, <2>7, <2>8, <2>9 DEF
       RefreshStep
<1>3. ASSUME NEW w \in Writers, Admit(w)
      PROVE  TypeOK'
  <2>1. FreeId \in Ids \ reservations
    BY <1>0, SomeIdFree, FreeIdIsFree DEF Accounting, TypeOK
  <2>2. IdAfter(FreeId) \in Ids
    <3>1. IdSpace \in Nat /\ IdSpace > 0
      BY QuotaAssumption, FS_CardinalityType
    <3> QED
      BY <2>1, <3>1 DEF IdAfter, Ids
  <2>3. pc' \in [Actors -> {"idle", "gate", "active", "off"} \union RefreshSteps]
    BY <1>0, <1>3 DEF TypeOK, Admit, Actors
  <2>4. reserved' \in Nat
    BY <1>0, <1>3, Sizes DEF TypeOK, Admit
  <2>5. reservations' \subseteq Ids /\ idOf' \in [Writers -> Ids]
    BY <1>0, <1>3, <2>1 DEF TypeOK, Admit
  <2>6. monitorRunning' \in BOOLEAN
    BY <1>3 DEF Admit
  <2> QED
    BY <1>0, <1>3, <2>2, <2>3, <2>4, <2>5, <2>6 DEF TypeOK, Admit
<1>4. ASSUME NEW w \in Writers, Refuse(w)
      PROVE  TypeOK'
  BY <1>0, <1>4 DEF TypeOK, Refuse, LeaveGate, Goto, Actors
<1>5. ASSUME NEW w \in Writers, Release(w)
      PROVE  TypeOK'
  <2>1. exceeded' \in BOOLEAN /\ signal' \in BOOLEAN
    BY <1>0, <1>5 DEF TypeOK, Release
  <2>2. reserved' \in Nat
    BY <1>0, <1>5, Sizes DEF TypeOK, Release, Max
  <2> QED
    BY <1>0, <1>5, <2>1, <2>2 DEF TypeOK, Release, Goto, Actors
<1>6. CASE Wake
  <2>1. monitorRunning' \in BOOLEAN
    BY <1>0, <1>6 DEF TypeOK, Wake
  <2> QED
    BY <1>0, <1>6, <2>1 DEF TypeOK, Wake, Goto, Actors
<1>7. ASSUME NEW w \in Writers, Write(w)
      PROVE  TypeOK'
  BY <1>0, <1>7, QuotaAssumption DEF TypeOK, Write, Occupied
<1>8. CASE CleanUp
  BY <1>0, <1>8 DEF TypeOK, CleanUp
<1>9. CASE Age
  BY <1>0, <1>9 DEF TypeOK, Age
<1>10. CASE UNCHANGED vars
  BY <1>0, <1>10 DEF TypeOK, vars
<1> QED
  BY <1>1, <1>2, <1>3, <1>4, <1>5, <1>6, <1>7, <1>8, <1>9, <1>10 DEF Next

-----------------------------------------------------------------------------
(* The inductive invariant and what follows from it.                       *)

(* At the start nothing is reserved and nobody refreshes.                  *)
LEMMA InitIInv == Init => IInv
<1> SUFFICES ASSUME Init
             PROVE  IInv
  OBVIOUS
<1>1. pc \in [Actors -> {"idle", "off"}] /\ (\A a \in Actors : pc[a] = "off" <=> a = Monitor)
  BY DEF Init
<1>2. Active = {}
  BY <1>1 DEF Active, Actors
<1>3. TypeOK
  <2>1. 0 \in Ids /\ 0 \in 0..MaxDisk
    BY QuotaAssumption, FS_CardinalityType DEF Ids
  <2> QED
    BY <1>1, <2>1 DEF Init, TypeOK
<1>4. GateHeld /\ WritersAdmitted /\ FoundResolved /\ BreachOnBooks
  BY <1>1, QuotaAssumption DEF Init, GateHeld, RefreshSteps, WritersAdmitted, FoundResolved, BreachOnBooks
<1>5. Accounting
  BY <1>2, FS_EmptySet, Sizes DEF Init, Accounting
<1>6. Watched
  BY <1>1, <1>2 DEF Init, Watched, Actors
<1> QED
  BY <1>3, <1>4, <1>5, <1>6 DEF IInv

(* Every step of a refresh, an admission, a release, the monitor and the   *)
(* disk preserves the invariant.                                           *)
LEMMA NextIInv == IInv /\ [Next]_vars => IInv'
<1> SUFFICES ASSUME IInv, [Next]_vars
             PROVE  IInv'
  OBVIOUS
<1>1. TypeOK' /\ GateHeld' /\ WritersAdmitted' /\ FoundResolved'
  BY TypeOKStep, GateHeldStep, WritersAdmittedStep, FoundResolvedStep
<1>2. Accounting' /\ Watched' /\ BreachOnBooks'
  BY AccountingStep, WatchedStep, BreachOnBooksStep
<1> QED
  BY <1>1, <1>2 DEF IInv

(* The strengthening holds in every reachable state.                       *)
THEOREM SpecIInv == Spec => []IInv
  BY InitIInv, NextIInv, PTL DEF Spec

(* Types; above all, reserved_bytes never goes below zero and ids stay in  *)
(* their space.                                                            *)
THEOREM SpecTypeOK == Spec => []TypeOK
<1>1. IInv => TypeOK
  BY DEF IInv
<1> QED
  BY <1>1, SpecIInv, PTL

(* Headroom is never promised twice and never exceeds the quota, whatever  *)
(* the order of admissions, releases and id reuse (try_reserve, Drop of    *)
(* the reservation).                                                       *)
THEOREM SpecAccounting == Spec => []Accounting
<1>1. IInv => Accounting
  BY DEF IInv
<1> QED
  BY <1>1, SpecIInv, PTL

(* There is a monitor whenever there is a writer, and monitor_running says *)
(* whether there is one.                                                   *)
THEOREM SpecWatched == Spec => []Watched
<1>1. IInv => Watched
  BY DEF IInv
<1> QED
  BY <1>1, SpecIInv, PTL

(* A breach on the books is in the signal or about to be sent.             *)
THEOREM SpecBreachReported == Spec => []BreachReported
<1>1. IInv => BreachReported
  BY DEF IInv, BreachOnBooks, BreachReported
<1> QED
  BY <1>1, SpecIInv, PTL

(* While a writer is active no step takes a breach off the books, and none *)
(* takes the signal back: a record is sticky, a release of another writer  *)
(* leaves the map non-empty, and a late send repeats what the books say.   *)
LEMMA StopIsFinalStep ==
    ASSUME IInv, [Next]_vars, NEW w \in Writers, pc[w] = "active", pc'[w] = "active", exceeded
    PROVE  exceeded' /\ (signal => signal')
<1> USE DEF store, refresh
<1>0. /\ pc \in [Actors -> {"idle", "gate", "active", "off"} \union RefreshSteps]
      /\ Accounting /\ BreachOnBooks
  BY DEF IInv, TypeOK
<1>1. w \in Active /\ idOf[w] \in reservations
  BY <1>0 DEF Active, Accounting
<1>2. ASSUME NEW a \in Actors, Record(a) \/ RecordFailure(a)
      PROVE  exceeded' /\ signal' = signal
  BY <1>1, <1>2 DEF Record, NoteUsage, RecordFailure
<1>3. ASSUME NEW a \in Actors, Send(a)
      PROVE  exceeded' /\ signal'
  BY <1>0, <1>3 DEF Send, BreachOnBooks
<1>4. ASSUME NEW v \in Writers, Release(v)
      PROVE  exceeded' /\ signal' = signal
  <2>1. v # w
    BY <1>0, <1>4 DEF Release, Goto, Actors
  <2>2. v \in Active
    BY <1>4 DEF Release, Active
  <2>3. idOf[v] # idOf[w]
    BY <1>0, <1>1, <2>1, <2>2 DEF Accounting
  <2>4. idOf[w] \in reservations'
    BY <1>1, <1>4, <2>3 DEF Release
  <2> QED
    BY <1>4, <2>4 DEF Release
<1>5. CASE \/ \E a \in Actors : AskGate(a) \/ Cancel(a) \/ TakeGate(a) \/ UseCache(a) \/ StartScan(a)
                                \/ Measure(a) \/ Resolve(a) \/ ReadExceeded(a)
           \/ \E v \in Writers : Admit(v) \/ Refuse(v) \/ Write(v)
           \/ Wake \/ CleanUp \/ Age \/ UNCHANGED vars
  <2>1. exceeded' = exceeded /\ signal' = signal
    BY <1>5 DEF AskGate, Cancel, TakeGate, UseCache, StartScan, Measure, Resolve, ReadExceeded,
       Admit, Refuse, Write, Wake, CleanUp, Age, vars
  <2> QED
    BY <2>1
<1> QED
  BY <1>2, <1>3, <1>4, <1>5 DEF Next, RefreshStep

(* StopIsFinal for every number of writers and every quota: a slow watcher *)
(* of the signal cannot miss that it has to stop.                          *)
THEOREM SpecStopIsFinal == Spec => StopIsFinal
<1>1. IInv /\ [Next]_vars =>
        [\A w \in Writers :
            pc[w] = "active" /\ pc'[w] = "active" /\ exceeded =>
                exceeded' /\ (signal => signal')]_vars
  BY StopIsFinalStep
<1> QED
  BY <1>1, SpecIInv, PTL DEF Spec, StopIsFinal
=============================================================================
