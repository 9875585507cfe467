----------------------- MODULE FfmpegAdmission_proofs -----------------------
(***************************************************************************)
(* Proofs about FfmpegAdmission for any set of requests, any limits and    *)
(* any queue sizes: no permit is lost, the limits hold, and nobody waits   *)
(* for a permit that is there.                                             *)
(***************************************************************************)
EXTENDS FfmpegAdmission, FiniteSetTheorems, TLAPS

(* Which permits a request owns follows from where it is.                  *)
HeldMatchesPc ==
    \A j \in Jobs :
        /\ pc[j] \in {"new", "try_lane", "try_slot", "lane", "lane_wait", "done"}
            => "lane" \notin held[j] /\ "total" \notin held[j]
        /\ pc[j] \in {"try_total", "undo_try", "total", "total_wait"}
            => "lane" \in held[j] /\ "total" \notin held[j]
        /\ pc[j] \in {"admitted", "running"}
            => "lane" \in held[j] /\ "total" \in held[j]
        /\ "total" \in held[j] => "lane" \in held[j]

IInv == TypeOK /\ HeldMatchesPc /\ PermitsConserved

(* What a permit of semaphore s is called in held.                         *)
Permit(s) == IF s = Total THEN "total" ELSE "lane"

-----------------------------------------------------------------------------
(* Finitely many requests hold permits.                                    *)
LEMMA HoldersFinite == ASSUME NEW s PROVE IsFiniteSet(Holders(s))
<1>1. Holders(s) \subseteq Jobs
  BY DEF Holders
<1> QED
  BY <1>1, FS_Subset, AdmissionAssumption

(* Every limit is a number.                                                *)
LEMMA CapNat == \A s \in Sems : Cap(s) \in Nat
BY AdmissionAssumption DEF Cap

(* Take and Return are used for the request's own lane and the aggregate.  *)
LEMMA OwnSems ==
    ASSUME NEW j \in Jobs
    PROVE  Lane(j) \in Sems /\ Total \in Sems /\ Lane(j) # Total /\ Lane(j) \in Kinds
BY AdmissionAssumption DEF Lane, Sems, Kinds, Total

(* Taking a permit moves it from the counter to a request.                 *)
LEMMA TakeConserves ==
    ASSUME IInv, NEW j \in Jobs, NEW s \in {Lane(j), Total},
           avail[s] > 0, Permit(s) \notin held[j], Take(s, j, Permit(s))
    PROVE  PermitsConserved' /\ avail' \in [Sems -> Nat]
<1>1. s \in Sems /\ Lane(j) \in Sems /\ Lane(j) # Total
  BY OwnSems
<1>2. ASSUME NEW t \in Sems
      PROVE  avail'[t] \in Nat /\ avail'[t] + Cardinality(Holders(t)') = Cap(t)
  <2>0. /\ avail[t] \in Nat /\ Cap(t) \in Nat /\ avail[t] + Cardinality(Holders(t)) = Cap(t)
        /\ IsFiniteSet(Holders(t))
    BY HoldersFinite, CapNat DEF IInv, TypeOK, PermitsConserved
  <2>1. CASE t = s
    <3>1. Holders(t)' = Holders(t) \union {j} /\ j \notin Holders(t)
      BY <2>1, <1>1 DEF Holders, Take, Permit, IInv, TypeOK
    <3>2. avail'[t] = avail[t] - 1
      BY <2>1, <1>1 DEF Take, IInv, TypeOK
    <3>3. Cardinality(Holders(t)') = Cardinality(Holders(t)) + 1
      BY <2>0, <3>1, FS_AddElement
    <3>4. Cardinality(Holders(t)) \in Nat
      BY <2>0, FS_CardinalityType
    <3> QED
      BY <2>0, <2>1, <3>2, <3>3, <3>4
  <2>2. CASE t # s
    <3>1. Holders(t)' = Holders(t)
      <4>1. \A i \in Jobs : held'[i] = IF i = j THEN held[j] \union {Permit(s)} ELSE held[i]
        BY DEF Take, IInv, TypeOK
      <4>2. CASE t = Total
        BY <4>1, <4>2, <2>2 DEF Holders, Permit
      <4>3. CASE t # Total
        BY <4>1, <4>3, <2>2 DEF Holders, Permit
      <4> QED
        BY <4>2, <4>3
    <3>2. avail'[t] = avail[t]
      BY <2>2 DEF Take, IInv, TypeOK
    <3> QED
      BY <2>0, <3>1, <3>2
  <2> QED
    BY <2>1, <2>2
<1>3. avail' \in [Sems -> Nat]
  BY <1>1, <1>2 DEF Take, IInv, TypeOK
<1> QED
  BY <1>2, <1>3 DEF PermitsConserved, Cap

(* Dropping one moves it to a waiter or back to the counter.               *)
LEMMA ReturnConserves ==
    ASSUME IInv, NEW j \in Jobs, NEW s \in {Lane(j), Total}, NEW label,
           Permit(s) \in held[j], Return(s, j, Permit(s), label)
    PROVE  PermitsConserved' /\ avail' \in [Sems -> Nat]
<1>1. s \in Sems /\ Lane(j) \in Sems /\ Lane(j) # Total
  BY OwnSems
<1>a. /\ s = Total => Permit(s) = "total"
      /\ s # Total => Permit(s) = "lane" /\ Lane(j) = s
  BY DEF Permit
<1>2. CASE Waiters(s) = {}
  <2>1. /\ avail' = [avail EXCEPT ![s] = @ + 1]
        /\ held' = [held EXCEPT ![j] = @ \ {Permit(s)}]
    BY <1>2 DEF Return
  <2>2. ASSUME NEW t \in Sems
        PROVE  avail'[t] \in Nat /\ avail'[t] + Cardinality(Holders(t)') = Cap(t)
    <3>0. /\ avail[t] \in Nat /\ Cap(t) \in Nat /\ avail[t] + Cardinality(Holders(t)) = Cap(t)
          /\ IsFiniteSet(Holders(t))
      BY HoldersFinite, CapNat DEF IInv, TypeOK, PermitsConserved
    <3>1. CASE t = s
      <4>1. Holders(t)' = Holders(t) \ {j} /\ j \in Holders(t)
        BY <2>1, <3>1, <1>1, <1>a DEF Holders, IInv, TypeOK
      <4>2. avail'[t] = avail[t] + 1
        BY <2>1, <3>1, <1>1 DEF IInv, TypeOK
      <4>3. Cardinality(Holders(t)') = Cardinality(Holders(t)) - 1
        BY <3>0, <4>1, FS_RemoveElement
      <4>4. Cardinality(Holders(t)) \in Nat
        BY <3>0, FS_CardinalityType
      <4> QED
        BY <3>0, <4>2, <4>3, <4>4
    <3>2. CASE t # s
      <4>1. Holders(t)' = Holders(t)
        <5>1. \A i \in Jobs : held'[i] = IF i = j THEN held[j] \ {Permit(s)} ELSE held[i]
          BY <2>1 DEF IInv, TypeOK
        <5>2. CASE t = Total
          BY <5>1, <5>2, <3>2, <1>a DEF Holders
        <5>3. CASE t # Total
          BY <5>1, <5>3, <3>2, <1>a DEF Holders
        <5> QED
          BY <5>2, <5>3
      <4>2. avail'[t] = avail[t]
        BY <2>1, <3>2 DEF IInv, TypeOK
      <4> QED
        BY <3>0, <4>1, <4>2
    <3> QED
      BY <3>1, <3>2
  <2>3. avail' \in [Sems -> Nat]
    BY <1>1, <2>1, <2>2 DEF IInv, TypeOK
  <2> QED
    BY <2>2, <2>3 DEF PermitsConserved, Cap
<1>3. ASSUME NEW w \in Waiters(s),
             held' = [[held EXCEPT ![j] = @ \ {Permit(s)}]
                        EXCEPT ![w] = @ \union {Permit(s)}],
             UNCHANGED avail
      PROVE  PermitsConserved' /\ avail' \in [Sems -> Nat]
  <2>1. /\ w \in Jobs
        /\ s = Total => pc[w] = "total_wait"
        /\ s # Total => pc[w] = "lane_wait" /\ Lane(w) = s
    BY <1>3 DEF Waiters
  <2>2. Permit(s) \notin held[w] /\ w # j
    BY <2>1, <1>a DEF IInv, HeldMatchesPc
  <2>3. ASSUME NEW t \in Sems
        PROVE  avail'[t] + Cardinality(Holders(t)') = Cap(t)
    <3>0. /\ avail[t] \in Nat /\ Cap(t) \in Nat /\ avail[t] + Cardinality(Holders(t)) = Cap(t)
          /\ IsFiniteSet(Holders(t))
      BY HoldersFinite, CapNat DEF IInv, TypeOK, PermitsConserved
    <3>1. CASE t = s
      <4>1. /\ Holders(t)' = (Holders(t) \ {j}) \union {w}
            /\ j \in Holders(t) /\ w \notin Holders(t)
        BY <1>3, <2>1, <2>2, <3>1, <1>1, <1>a DEF Holders, IInv, TypeOK
      <4>2. /\ IsFiniteSet(Holders(t) \ {j})
            /\ Cardinality(Holders(t) \ {j}) = Cardinality(Holders(t)) - 1
        BY <3>0, <4>1, FS_RemoveElement
      <4>3. Cardinality(Holders(t)') = Cardinality(Holders(t) \ {j}) + 1
        BY <4>1, <4>2, FS_AddElement
      <4>4. Cardinality(Holders(t)) \in Nat
        BY <3>0, FS_CardinalityType
      <4> QED
        BY <1>3, <3>0, <4>2, <4>3, <4>4
    <3>2. CASE t # s
      <4>1. Holders(t)' = Holders(t)
        <5>1. \A i \in Jobs : held'[i] = IF i = j THEN held[j] \ {Permit(s)} ELSE
                                        IF i = w THEN held[w] \union {Permit(s)} ELSE held[i]
          <6>1. held \in [Jobs -> SUBSET {"lane", "total", "slot"}]
            BY DEF IInv, TypeOK
          <6> DEFINE h == [held EXCEPT ![j] = @ \ {Permit(s)}]
          <6>2. DOMAIN h = Jobs /\ h[w] = held[w] /\ \A i \in Jobs :
                    h[i] = IF i = j THEN held[j] \ {Permit(s)} ELSE held[i]
            BY <6>1, <2>1, <2>2
          <6>3. held' = [h EXCEPT ![w] = h[w] \union {Permit(s)}]
            BY <1>3
          <6> HIDE DEF h
          <6> QED
            BY <6>2, <6>3, <2>1, <2>2
        <5>2. CASE t = Total
          BY <5>1, <5>2, <3>2, <1>a DEF Holders
        <5>3. CASE t # Total
          BY <5>1, <5>3, <3>2, <1>a, <2>1 DEF Holders
        <5> QED
          BY <5>2, <5>3
      <4> QED
        BY <1>3, <3>0, <4>1
    <3> QED
      BY <3>1, <3>2
  <2> QED
    BY <1>3, <2>3 DEF PermitsConserved, Cap, IInv, TypeOK
<1> QED
  BY <1>2, <1>3 DEF Return

(* Steps that move no lane and no aggregate permit.                        *)
LEMMA OthersConserve ==
    ASSUME IInv, UNCHANGED avail,
           \A i \in Jobs : /\ "lane" \in held'[i] <=> "lane" \in held[i]
                           /\ "total" \in held'[i] <=> "total" \in held[i]
    PROVE  PermitsConserved'
<1>1. \A s : Holders(s)' = Holders(s)
  BY DEF Holders
<1> QED
  BY <1>1 DEF IInv, PermitsConserved, Cap

(* Every request has a queue.                                              *)
LEMMA QueueOfType == \A j \in Jobs : QueueOf(j) \in Queues
BY DEF QueueOf, Queues

(* Metrics are counted by numbers.                                         *)
LEMMA CountType ==
    ASSUME TypeOK, NEW j \in Jobs, NEW m \in Counters, Count(j, m)
    PROVE  metrics' \in [Counters -> Nat]
BY DEF TypeOK, Count

(* At the start every permit is in its counter.                            *)
LEMMA InitIInv == Init => IInv
<1> SUFFICES ASSUME Init PROVE IInv
  OBVIOUS
<1>1. TypeOK
  BY CapNat, AdmissionAssumption DEF Init, TypeOK, Counters
<1>2. HeldMatchesPc
  BY DEF Init, HeldMatchesPc
<1>3. PermitsConserved
  <2>1. \A s \in Sems : Holders(s) = {}
    BY DEF Init, Holders
  <2>2. Cardinality({}) = 0
    BY FS_EmptySet
  <2> QED
    BY <2>1, <2>2, CapNat DEF Init, PermitsConserved
<1> QED
  BY <1>1, <1>2, <1>3 DEF IInv

(* Block, Begin, the failed tries and the entry into the wait queue.       *)
LEMMA EntryIInv ==
    ASSUME IInv, NEW j \in Jobs,
           \/ Block(j) \/ Begin(j) \/ TryLaneFails(j) \/ TryTotalFails(j)
           \/ EnterQueue(j) \/ QueueFull(j)
    PROVE  IInv'
<1> USE DEF Goto, Answer
<1>0. "rejected" \in Counters
  BY DEF Counters
<1>1. CASE Block(j)
  BY <1>1, OthersConserve DEF Block, IInv, TypeOK, HeldMatchesPc
<1>2. CASE Begin(j)
  BY <1>2, OthersConserve DEF Begin, IInv, TypeOK, HeldMatchesPc
<1>3. CASE TryLaneFails(j)
  <2>1. metrics' \in [Counters -> Nat]
    BY <1>3, <1>0, CountType DEF TryLaneFails, RefuseIfRetried, IInv, TypeOK
  <2>2. TypeOK'
    BY <1>3, <2>1 DEF TryLaneFails, RefuseIfRetried, AfterFailedTry, IInv, TypeOK
  <2>3. HeldMatchesPc'
    BY <1>3 DEF TryLaneFails, AfterFailedTry, IInv, TypeOK, HeldMatchesPc
  <2> QED
    BY <1>3, <2>2, <2>3, OthersConserve DEF TryLaneFails, IInv
<1>4. CASE TryTotalFails(j)
  BY <1>4, OthersConserve DEF TryTotalFails, IInv, TypeOK, HeldMatchesPc
<1>5. CASE EnterQueue(j)
  <2>1. TypeOK'
    BY <1>5, QueueOfType DEF EnterQueue, IInv, TypeOK
  <2>2. HeldMatchesPc'
    <3>1. /\ pc[j] = "try_slot" /\ pc' = [pc EXCEPT ![j] = "lane"]
          /\ held' = [held EXCEPT ![j] = @ \union {"slot"}]
      BY <1>5 DEF EnterQueue
    <3> QED
      BY <3>1 DEF IInv, TypeOK, HeldMatchesPc
  <2>3. PermitsConserved'
    BY <1>5, OthersConserve DEF EnterQueue, IInv, TypeOK
  <2> QED
    BY <2>1, <2>2, <2>3 DEF IInv
<1>6. CASE QueueFull(j)
  <2>1. TypeOK'
    BY <1>6 DEF QueueFull, IInv, TypeOK
  <2>2. HeldMatchesPc'
    <3>1. /\ pc[j] = "try_slot" /\ UNCHANGED held
          /\ \E l \in {"try_lane", "done"} : pc' = [pc EXCEPT ![j] = l]
      BY <1>6 DEF QueueFull
    <3> QED
      BY <3>1 DEF IInv, TypeOK, HeldMatchesPc
  <2>3. PermitsConserved'
    BY <1>6, OthersConserve DEF QueueFull
  <2> QED
    BY <2>1, <2>2, <2>3 DEF IInv
<1> QED
  BY <1>1, <1>2, <1>3, <1>4, <1>5, <1>6

(* The steps that take a permit from a counter.                            *)
LEMMA TakingIInv ==
    ASSUME IInv, NEW j \in Jobs,
           TryLane(j) \/ TryTotal(j) \/ AcquireLane(j) \/ AcquireTotal(j)
    PROVE  IInv'
<1> USE DEF Goto, Answer
<1>0. Permit(Lane(j)) = "lane" /\ Permit(Total) = "total" /\ "immediate" \in Counters
  BY OwnSems DEF Permit, Counters
<1>1. ASSUME NEW s \in {Lane(j), Total}, avail[s] > 0, Take(s, j, Permit(s)),
             Permit(s) \notin held[j]
      PROVE  /\ PermitsConserved' /\ avail' \in [Sems -> Nat]
             /\ held' \in [Jobs -> SUBSET {"lane", "total", "slot"}]
  <2>1. Permit(s) \in {"lane", "total"}
    BY DEF Permit
  <2>2. held' \in [Jobs -> SUBSET {"lane", "total", "slot"}]
    BY <1>1, <2>1 DEF Take, IInv, TypeOK
  <2> QED
    BY <1>1, <2>2, TakeConserves
<1>2. CASE TryLane(j)
  <2>1. "lane" \notin held[j]
    BY <1>2 DEF TryLane, IInv, HeldMatchesPc
  <2>2. /\ PermitsConserved' /\ avail' \in [Sems -> Nat]
        /\ held' \in [Jobs -> SUBSET {"lane", "total", "slot"}]
    BY <1>0, <1>1, <1>2, <2>1 DEF TryLane
  <2>3. HeldMatchesPc'
    BY <1>2 DEF TryLane, Take, IInv, TypeOK, HeldMatchesPc
  <2> QED
    BY <1>2, <2>2, <2>3 DEF TryLane, IInv, TypeOK
<1>3. CASE TryTotal(j)
  <2>1. "total" \notin held[j]
    BY <1>3 DEF TryTotal, IInv, HeldMatchesPc
  <2>2. /\ PermitsConserved' /\ avail' \in [Sems -> Nat]
        /\ held' \in [Jobs -> SUBSET {"lane", "total", "slot"}]
    BY <1>0, <1>1, <1>3, <2>1 DEF TryTotal
  <2>3. HeldMatchesPc'
    BY <1>3 DEF TryTotal, Take, IInv, TypeOK, HeldMatchesPc
  <2>4. metrics' \in [Counters -> Nat]
    BY <1>0, <1>3, CountType DEF TryTotal, IInv
  <2> QED
    BY <1>3, <2>2, <2>3, <2>4 DEF TryTotal, IInv, TypeOK
<1>4. CASE AcquireLane(j)
  <2>1. "lane" \notin held[j] /\ pc[j] = "lane"
    BY <1>4 DEF AcquireLane, IInv, HeldMatchesPc
  <2>2. CASE avail[Lane(j)] > 0
    <3>0. Take(Lane(j), j, "lane") /\ Goto(j, "total")
      BY <1>4, <2>2 DEF AcquireLane
    <3>1. /\ PermitsConserved' /\ avail' \in [Sems -> Nat]
          /\ held' \in [Jobs -> SUBSET {"lane", "total", "slot"}]
      BY <1>0, <1>1, <2>1, <2>2, <3>0
    <3>2. HeldMatchesPc'
      BY <2>1, <3>0 DEF Take, IInv, TypeOK, HeldMatchesPc
    <3> QED
      BY <1>4, <3>0, <3>1, <3>2 DEF AcquireLane, IInv, TypeOK
  <2>3. CASE ~(avail[Lane(j)] > 0)
    <3>0. Goto(j, "lane_wait") /\ UNCHANGED <<avail, held>>
      BY <1>4, <2>3 DEF AcquireLane
    <3>1. PermitsConserved'
      BY <3>0, OthersConserve
    <3> QED
      BY <1>4, <2>1, <3>0, <3>1 DEF AcquireLane, IInv, TypeOK, HeldMatchesPc
  <2> QED
    BY <2>2, <2>3
<1>5. CASE AcquireTotal(j)
  <2>1. "lane" \in held[j] /\ "total" \notin held[j] /\ pc[j] = "total"
    BY <1>5 DEF AcquireTotal, IInv, HeldMatchesPc
  <2>2. CASE avail[Total] > 0
    <3>0. Take(Total, j, "total") /\ Goto(j, "admitted")
      BY <1>5, <2>2 DEF AcquireTotal
    <3>1. /\ PermitsConserved' /\ avail' \in [Sems -> Nat]
          /\ held' \in [Jobs -> SUBSET {"lane", "total", "slot"}]
      BY <1>0, <1>1, <2>1, <2>2, <3>0
    <3>2. HeldMatchesPc'
      BY <2>1, <3>0 DEF Take, IInv, TypeOK, HeldMatchesPc
    <3> QED
      BY <1>5, <3>0, <3>1, <3>2 DEF AcquireTotal, IInv, TypeOK
  <2>3. CASE ~(avail[Total] > 0)
    <3>0. Goto(j, "total_wait") /\ UNCHANGED <<avail, held>>
      BY <1>5, <2>3 DEF AcquireTotal
    <3>1. PermitsConserved'
      BY <3>0, OthersConserve
    <3> QED
      BY <1>5, <2>1, <3>0, <3>1 DEF AcquireTotal, IInv, TypeOK, HeldMatchesPc
  <2> QED
    BY <2>2, <2>3
<1> QED
  BY <1>2, <1>3, <1>4, <1>5

(* A permit dropped by j: whoever waits for it is past its await.          *)
LEMMA ReturnHeld ==
    ASSUME IInv, NEW j \in Jobs, NEW s \in {Lane(j), Total},
           NEW label \in {"unwind", "done", "try_slot"},
           Permit(s) \in held[j], Return(s, j, Permit(s), label),
           s = Total => label = "unwind",
           s # Total => "total" \notin held[j]
    PROVE  /\ HeldMatchesPc'
           /\ held' \in [Jobs -> SUBSET {"lane", "total", "slot"}]
           /\ pc' \in [Jobs -> {"new", "try_lane", "try_total", "undo_try", "try_slot",
                        "lane", "lane_wait", "total", "total_wait", "admitted",
                        "running", "unwind", "done"}]
<1>0. /\ s = Total => Permit(s) = "total"
      /\ s # Total => Permit(s) = "lane"
  BY DEF Permit
<1> DEFINE h == [held EXCEPT ![j] = @ \ {Permit(s)}]
           p == [pc EXCEPT ![j] = label]
<1>1. /\ h \in [Jobs -> SUBSET {"lane", "total", "slot"}]
      /\ p \in [Jobs -> {"new", "try_lane", "try_total", "undo_try", "try_slot",
                        "lane", "lane_wait", "total", "total_wait", "admitted",
                        "running", "unwind", "done"}]
      /\ h[j] = held[j] \ {Permit(s)} /\ p[j] = label
      /\ \A i \in Jobs : i # j => h[i] = held[i] /\ p[i] = pc[i]
  BY DEF IInv, TypeOK
<1>2. CASE Waiters(s) = {} /\ held' = h /\ pc' = p
  <2> HIDE DEF h, p
  <2> QED
    BY <1>0, <1>1, <1>2 DEF IInv, HeldMatchesPc
<1>3. ASSUME NEW w \in Waiters(s),
             held' = [h EXCEPT ![w] = @ \union {Permit(s)}],
             pc' = [p EXCEPT ![w] = IF s = Total THEN "admitted" ELSE "total"]
      PROVE  /\ HeldMatchesPc'
             /\ held' \in [Jobs -> SUBSET {"lane", "total", "slot"}]
             /\ pc' \in [Jobs -> {"new", "try_lane", "try_total", "undo_try", "try_slot",
                        "lane", "lane_wait", "total", "total_wait", "admitted",
                        "running", "unwind", "done"}]
  <2>1. /\ w \in Jobs
        /\ s = Total => pc[w] = "total_wait"
        /\ s # Total => pc[w] = "lane_wait"
    BY <1>3 DEF Waiters
  <2>2. w # j
    BY <2>1, <1>0 DEF IInv, HeldMatchesPc
  <2>3. /\ h[w] = held[w] /\ p[w] = pc[w]
    BY <1>1, <2>1, <2>2
  <2> HIDE DEF h, p
  <2>4. CASE s = Total
    BY <1>0, <1>1, <1>3, <2>1, <2>2, <2>3, <2>4 DEF IInv, HeldMatchesPc
  <2>5. CASE s # Total
    BY <1>0, <1>1, <1>3, <2>1, <2>2, <2>3, <2>5 DEF IInv, HeldMatchesPc
  <2> QED
    BY <2>4, <2>5
<1> QED
  BY <1>2, <1>3 DEF Return

(* The steps that drop a permit.                                           *)
LEMMA ReturningIInv ==
    ASSUME IInv, NEW j \in Jobs, UndoTry(j) \/ DropTotal(j) \/ DropLane(j)
    PROVE  IInv'
<1>0. /\ Permit(Lane(j)) = "lane" /\ Permit(Total) = "total" /\ "rejected" \in Counters
      /\ Lane(j) # Total
  BY OwnSems DEF Permit, Counters
<1>1. CASE UndoTry(j)
  <2>1. /\ "lane" \in held[j] /\ "total" \notin held[j]
        /\ AfterFailedTry(j) \in {"unwind", "done", "try_slot"}
        /\ Return(Lane(j), j, "lane", AfterFailedTry(j))
    BY <1>1 DEF UndoTry, AfterFailedTry, IInv, HeldMatchesPc
  <2>2. PICK l \in {"unwind", "done", "try_slot"} : Return(Lane(j), j, "lane", l)
    BY <2>1
  <2>3. PermitsConserved' /\ avail' \in [Sems -> Nat]
    BY <1>0, <2>1, <2>2, ReturnConserves
  <2>4. HeldMatchesPc' /\ held' \in [Jobs -> SUBSET {"lane", "total", "slot"}]
        /\ pc' \in [Jobs -> {"new", "try_lane", "try_total", "undo_try", "try_slot",
                        "lane", "lane_wait", "total", "total_wait", "admitted",
                        "running", "unwind", "done"}]
    BY <1>0, <2>1, <2>2, ReturnHeld
  <2>5. metrics' \in [Counters -> Nat]
    BY <1>0, <1>1, CountType DEF UndoTry, RefuseIfRetried, IInv, TypeOK
  <2> QED
    BY <1>1, <2>3, <2>4, <2>5 DEF UndoTry, RefuseIfRetried, Answer, IInv, TypeOK
<1>2. CASE DropTotal(j)
  <2>3. PermitsConserved' /\ avail' \in [Sems -> Nat]
    BY <1>0, <1>2, ReturnConserves DEF DropTotal
  <2>4. HeldMatchesPc' /\ held' \in [Jobs -> SUBSET {"lane", "total", "slot"}]
        /\ pc' \in [Jobs -> {"new", "try_lane", "try_total", "undo_try", "try_slot",
                        "lane", "lane_wait", "total", "total_wait", "admitted",
                        "running", "unwind", "done"}]
    BY <1>0, <1>2, ReturnHeld DEF DropTotal
  <2> QED
    BY <1>2, <2>3, <2>4 DEF DropTotal, IInv, TypeOK
<1>3. CASE DropLane(j)
  <2>3. PermitsConserved' /\ avail' \in [Sems -> Nat]
    BY <1>0, <1>3, ReturnConserves DEF DropLane
  <2>4. HeldMatchesPc' /\ held' \in [Jobs -> SUBSET {"lane", "total", "slot"}]
        /\ pc' \in [Jobs -> {"new", "try_lane", "try_total", "undo_try", "try_slot",
                        "lane", "lane_wait", "total", "total_wait", "admitted",
                        "running", "unwind", "done"}]
    BY <1>0, <1>3, ReturnHeld DEF DropLane
  <2> QED
    BY <1>3, <2>3, <2>4 DEF DropLane, IInv, TypeOK
<1> QED
  BY <1>1, <1>2, <1>3

(* The ends of a wait and of a process, and the drop of the queue slot.    *)
LEMMA LeavingIInv ==
    ASSUME IInv, NEW j \in Jobs,
           \/ Admit(j) \/ TimeOut(j) \/ Cancel(j) \/ Finish(j)
           \/ DropSlot(j) \/ Unwound(j)
    PROVE  IInv'
<1> USE DEF Goto, Answer
<1>0. "queued" \in Counters /\ "timed_out" \in Counters
  BY DEF Counters
<1>1. CASE Admit(j)
  <2>1. metrics' \in [Counters -> Nat]
    BY <1>0, <1>1, CountType DEF Admit, IInv
  <2>2. TypeOK'
    BY <1>1, <2>1, QueueOfType DEF Admit, IInv, TypeOK
  <2>3. HeldMatchesPc'
    BY <1>1 DEF Admit, IInv, TypeOK, HeldMatchesPc
  <2>4. PermitsConserved'
    BY <1>1, OthersConserve DEF Admit, IInv, TypeOK
  <2> QED
    BY <2>2, <2>3, <2>4 DEF IInv
<1>2. CASE TimeOut(j)
  <2>1. metrics' \in [Counters -> Nat]
    BY <1>0, <1>2, CountType DEF TimeOut, IInv
  <2>2. TypeOK'
    BY <1>2, <2>1 DEF TimeOut, IInv, TypeOK
  <2>3. HeldMatchesPc'
    BY <1>2 DEF TimeOut, IInv, TypeOK, HeldMatchesPc
  <2> QED
    BY <1>2, <2>2, <2>3, OthersConserve DEF TimeOut, IInv
<1>3. CASE Cancel(j)
  BY <1>3, OthersConserve DEF Cancel, IInv, TypeOK, HeldMatchesPc
<1>4. CASE Finish(j)
  BY <1>4, OthersConserve DEF Finish, IInv, TypeOK, HeldMatchesPc
<1>5. CASE DropSlot(j)
  <2>1. TypeOK'
    BY <1>5, QueueOfType DEF DropSlot, IInv, TypeOK
  <2>2. HeldMatchesPc'
    BY <1>5 DEF DropSlot, IInv, TypeOK, HeldMatchesPc
  <2>3. PermitsConserved'
    BY <1>5, OthersConserve DEF DropSlot, IInv, TypeOK
  <2> QED
    BY <2>1, <2>2, <2>3 DEF IInv
<1>6. CASE Unwound(j)
  BY <1>6, OthersConserve DEF Unwound, IInv, TypeOK, HeldMatchesPc
<1> QED
  BY <1>1, <1>2, <1>3, <1>4, <1>5, <1>6

(* Every step keeps the invariant.                                         *)
THEOREM SpecIInv == Spec => []IInv
<1>1. IInv /\ [Next]_vars => IInv'
  <2> SUFFICES ASSUME IInv, [Next]_vars PROVE IInv'
    OBVIOUS
  <2>1. ASSUME NEW j \in Jobs, Admission(j) \/ TimeOut(j) \/ Cancel(j) \/ Release(j)
        PROVE  IInv'
    BY <2>1, EntryIInv, TakingIInv, ReturningIInv, LeavingIInv DEF Admission, Release
  <2>2. CASE UNCHANGED vars
    BY <2>2, OthersConserve DEF vars, IInv, TypeOK, HeldMatchesPc
  <2> QED
    BY <2>1, <2>2 DEF Next, Quiet
<1> QED
  BY InitIInv, <1>1, PTL DEF Spec

(* No permit is ever lost or made up, for any requests and any limits.     *)
THEOREM SpecPermitsConserved == Spec => [](TypeOK /\ PermitsConserved)
BY SpecIInv, PTL DEF IInv

(* No more processes run than the limits allow.                            *)
THEOREM SpecCapsRespected == Spec => []CapsRespected
<1>1. IInv => CapsRespected
  <2> SUFFICES ASSUME IInv PROVE CapsRespected
    OBVIOUS
  <2>1. ASSUME NEW s \in Sems, NEW R, R \subseteq Holders(s)
        PROVE  Cardinality(R) <= Cap(s)
    <3>1. IsFiniteSet(Holders(s))
      BY HoldersFinite
    <3>2. /\ Cardinality(R) <= Cardinality(Holders(s))
          /\ Cardinality(R) \in Nat /\ Cardinality(Holders(s)) \in Nat
      BY <2>1, <3>1, FS_Subset, FS_CardinalityType
    <3>3. avail[s] \in Nat /\ avail[s] + Cardinality(Holders(s)) = Cap(s) /\ Cap(s) \in Nat
      BY CapNat DEF IInv, TypeOK, PermitsConserved
    <3> QED
      BY <3>2, <3>3
  <2>2. Running \subseteq Holders(Total) /\ Total \in Sems
    BY DEF Running, Holders, IInv, HeldMatchesPc, Sems
  <2>3. Cardinality(Running) <= Cap(Total)
    BY <2>1, <2>2
  <2>4. ASSUME NEW k \in Kinds
        PROVE  Cardinality({j \in Running : KindOf[j] = k}) <= Cap(k)
    <3>1. k \in Sems /\ k # Total
      BY DEF Sems, Kinds, Total
    <3>2. {j \in Running : KindOf[j] = k} \subseteq Holders(k)
      BY <3>1 DEF Running, Holders, Lane, IInv, HeldMatchesPc
    <3> QED
      BY <2>1, <3>1, <3>2
  <2> QED
    BY <2>3, <2>4 DEF CapsRespected
<1> QED
  BY SpecIInv, <1>1, PTL

(* A configured limit of zero never shuts a lane.                          *)
THEOREM SpecLanesOpen == Spec => []LanesOpen
<1>1. IInv => LanesOpen
  <2> SUFFICES ASSUME IInv, NEW k \in Kinds, Holders(k) = {} PROVE avail[k] > 0
    BY DEF LanesOpen
  <2>1. Cardinality(Holders(k)) = 0
    BY FS_EmptySet
  <2>2. k \in Sems /\ Cap(k) >= 1
    BY AdmissionAssumption DEF Sems, Cap
  <2> QED
    BY <2>1, <2>2, CapNat DEF IInv, TypeOK, PermitsConserved
<1> QED
  BY SpecIInv, <1>1, PTL

(* Types: no counter of a semaphore or of a wait queue goes below zero.    *)
THEOREM SpecTypeOK == Spec => []TypeOK
BY SpecIInv, PTL DEF IInv

-----------------------------------------------------------------------------
(* Waiting.  WaitersJustified needs to know where a request has a place in *)
(* its wait queue, and that places are conserved as permits are.           *)

Queued == {"lane", "lane_wait", "total", "total_wait", "admitted"}
Waits == {"lane_wait", "total_wait"}

(* A request has a place in its queue from EnterQueue until it is admitted *)
(* or has unwound.                                                         *)
SlotMatchesPc ==
    \A j \in Jobs :
        /\ pc[j] \in Queued => "slot" \in held[j]
        /\ pc[j] \notin Queued \union {"unwind"} => "slot" \notin held[j]

SlotHolders(q) == {j \in Jobs : QueueOf(j) = q /\ "slot" \in held[j]}
SlotsConserved == \A q \in Queues : slots[q] + Cardinality(SlotHolders(q)) = QueueLimit[q]

WInv == SlotMatchesPc /\ SlotsConserved /\ NoLostPermit

(* What a step does to places and positions: request j moves to label.     *)
Moves(j, label) == pc' = [pc EXCEPT ![j] = label]
SameSlots ==
    UNCHANGED slots /\ \A i \in Jobs : "slot" \in held'[i] <=> "slot" \in held[i]

(* A permit dropped by j moves j, and the waiter that gets it, and leaves  *)
(* the places alone.                                                       *)
LEMMA ReturnEffect ==
    ASSUME IInv, NEW j \in Jobs, NEW s \in {Lane(j), Total}, NEW what \in {"lane", "total"}, NEW label,
           pc[j] \notin Waits, Return(s, j, what, label)
    PROVE  /\ \A i \in Jobs : "slot" \in held'[i] <=> "slot" \in held[i]
           /\ pc'[j] = label
           /\ \/ /\ Waiters(s) = {} /\ avail' = [avail EXCEPT ![s] = @ + 1]
                 /\ \A i \in Jobs : i # j => pc'[i] = pc[i]
              \/ /\ UNCHANGED avail
                 /\ \E w \in Jobs :
                      /\ pc[w] \in Waits /\ pc'[w] \in {"total", "admitted"}
                      /\ \A i \in Jobs : i # j /\ i # w => pc'[i] = pc[i]
<1>0. held \in [Jobs -> SUBSET {"lane", "total", "slot"}] /\ DOMAIN pc = Jobs
  BY DEF IInv, TypeOK
<1> DEFINE h == [held EXCEPT ![j] = @ \ {what}]
           p == [pc EXCEPT ![j] = label]
<1>1. /\ DOMAIN h = Jobs /\ h[j] = held[j] \ {what} /\ \A i \in Jobs : i # j => h[i] = held[i]
      /\ DOMAIN p = Jobs /\ p[j] = label /\ \A i \in Jobs : i # j => p[i] = pc[i]
  BY <1>0
<1>2. CASE Waiters(s) = {} /\ avail' = [avail EXCEPT ![s] = @ + 1] /\ held' = h /\ pc' = p
  <2> HIDE DEF h, p
  <2> QED
    BY <1>1, <1>2
<1>3. ASSUME NEW w \in Waiters(s), UNCHANGED avail,
             held' = [h EXCEPT ![w] = @ \union {what}],
             pc' = [p EXCEPT ![w] = IF s = Total THEN "admitted" ELSE "total"]
      PROVE  /\ \A i \in Jobs : "slot" \in held'[i] <=> "slot" \in held[i]
             /\ pc'[j] = label /\ w \in Jobs
             /\ pc[w] \in Waits /\ pc'[w] \in {"total", "admitted"}
             /\ \A i \in Jobs : i # j /\ i # w => pc'[i] = pc[i]
  <2>1. w \in Jobs /\ pc[w] \in Waits /\ w # j
    BY <1>3 DEF Waiters, Waits
  <2> HIDE DEF h, p
  <2> QED
    BY <1>1, <1>3, <2>1
<1> QED
  BY <1>2, <1>3 DEF Return

(* Places are conserved: what is not in the counter, a request has.        *)
LEMMA SlotsStep ==
    ASSUME IInv, SlotsConserved, NEW j \in Jobs,
           \/ SameSlots
           \/ /\ "slot" \notin held[j] /\ slots' = [slots EXCEPT ![QueueOf(j)] = @ - 1]
              /\ "slot" \in held'[j] /\ \A i \in Jobs : i # j => held'[i] = held[i]
           \/ /\ "slot" \in held[j] /\ slots' = [slots EXCEPT ![QueueOf(j)] = @ + 1]
              /\ "slot" \notin held'[j] /\ \A i \in Jobs : i # j => held'[i] = held[i]
    PROVE  SlotsConserved'
<1> SUFFICES ASSUME NEW q \in Queues
             PROVE  slots'[q] + Cardinality(SlotHolders(q)') = QueueLimit[q]
  BY DEF SlotsConserved
<1>1. /\ slots \in [Queues -> Nat] /\ QueueOf(j) \in Queues
      /\ slots[q] + Cardinality(SlotHolders(q)) = QueueLimit[q]
  BY QueueOfType DEF IInv, TypeOK, SlotsConserved
<1>2. IsFiniteSet(SlotHolders(q)) /\ Cardinality(SlotHolders(q)) \in Nat
  BY AdmissionAssumption, FS_Subset, FS_CardinalityType DEF SlotHolders
<1>3. CASE SameSlots
  <2>1. SlotHolders(q)' = SlotHolders(q)
    BY <1>3 DEF SameSlots, SlotHolders
  <2> QED
    BY <1>1, <1>3, <2>1 DEF SameSlots
<1>4. CASE /\ "slot" \notin held[j] /\ slots' = [slots EXCEPT ![QueueOf(j)] = @ - 1]
           /\ "slot" \in held'[j] /\ \A i \in Jobs : i # j => held'[i] = held[i]
  <2>1. CASE q = QueueOf(j)
    <3>1. SlotHolders(q)' = SlotHolders(q) \union {j} /\ j \notin SlotHolders(q)
      BY <1>4, <2>1 DEF SlotHolders
    <3>2. Cardinality(SlotHolders(q)') = Cardinality(SlotHolders(q)) + 1
      BY <1>2, <3>1, FS_AddElement
    <3>3. slots'[q] = slots[q] - 1 /\ slots[q] \in Nat
      BY <1>1, <1>4, <2>1
    <3> QED
      BY <1>1, <1>2, <3>2, <3>3
  <2>2. CASE q # QueueOf(j)
    <3>1. SlotHolders(q)' = SlotHolders(q)
      BY <1>4, <2>2 DEF SlotHolders
    <3>2. slots'[q] = slots[q]
      BY <1>1, <1>4, <2>2
    <3> QED
      BY <1>1, <3>1, <3>2
  <2> QED
    BY <2>1, <2>2
<1>5. CASE /\ "slot" \in held[j] /\ slots' = [slots EXCEPT ![QueueOf(j)] = @ + 1]
           /\ "slot" \notin held'[j] /\ \A i \in Jobs : i # j => held'[i] = held[i]
  <2>1. CASE q = QueueOf(j)
    <3>1. SlotHolders(q)' = SlotHolders(q) \ {j} /\ j \in SlotHolders(q)
      BY <1>5, <2>1 DEF SlotHolders
    <3>2. Cardinality(SlotHolders(q)') = Cardinality(SlotHolders(q)) - 1
      BY <1>2, <3>1, FS_RemoveElement
    <3>3. slots'[q] = slots[q] + 1 /\ slots[q] \in Nat
      BY <1>1, <1>5, <2>1
    <3> QED
      BY <1>1, <1>2, <3>2, <3>3
  <2>2. CASE q # QueueOf(j)
    <3>1. SlotHolders(q)' = SlotHolders(q)
      BY <1>5, <2>2 DEF SlotHolders
    <3>2. slots'[q] = slots[q]
      BY <1>1, <1>5, <2>2
    <3> QED
      BY <1>1, <3>1, <3>2
  <2> QED
    BY <2>1, <2>2
<1> QED
  BY <1>3, <1>4, <1>5

(* A step that returns nothing to a counter and adds nobody to a wait list *)
(* loses no permit.                                                        *)
LEMMA NoNewWaiter ==
    ASSUME NoLostPermit, avail \in [Sems -> Nat], NEW j \in Jobs,
           pc'[j] \notin Waits, \A i \in Jobs : i # j => pc'[i] = pc[i] \/ pc'[i] \notin Waits,
           \/ UNCHANGED avail
           \/ \E s \in Sems : avail[s] > 0 /\ avail' = [avail EXCEPT ![s] = @ - 1]
           \/ \E s \in Sems : Waiters(s) = {} /\ avail' = [avail EXCEPT ![s] = @ + 1]
    PROVE  NoLostPermit'
<1>1. \A s \in Sems : Waiters(s)' \subseteq Waiters(s)
  BY DEF Waiters, Waits
<1> SUFFICES ASSUME NEW t \in Sems, Waiters(t)' # {}
             PROVE  avail'[t] = 0
  BY DEF NoLostPermit
<1>2. Waiters(t) # {} /\ avail[t] = 0
  BY <1>1 DEF NoLostPermit
<1>3. ASSUME NEW s \in Sems, avail[s] > 0, avail' = [avail EXCEPT ![s] = @ - 1]
      PROVE  avail'[t] = avail[t]
  BY <1>2, <1>3
<1>4. ASSUME NEW s \in Sems, Waiters(s) = {}, avail' = [avail EXCEPT ![s] = @ + 1]
      PROVE  avail'[t] = avail[t]
  BY <1>2, <1>4
<1> QED
  BY <1>2, <1>3, <1>4

(* Who joins a wait list has found the counter at zero.                    *)
LEMMA OneNewWaiter ==
    ASSUME NoLostPermit, DOMAIN pc = Jobs, NEW j \in Jobs, NEW s \in {Lane(j), Total}, avail[s] = 0,
           UNCHANGED avail, Moves(j, IF s = Total THEN "total_wait" ELSE "lane_wait")
    PROVE  NoLostPermit'
<1> SUFFICES ASSUME NEW t \in Sems, Waiters(t)' # {}
             PROVE  avail[t] = 0
  BY DEF NoLostPermit
<1>1. Lane(j) # Total /\ \A i \in Jobs : i # j => pc'[i] = pc[i]
  BY OwnSems DEF Moves
<1>2. pc'[j] = IF s = Total THEN "total_wait" ELSE "lane_wait"
  BY DEF Moves
<1>3. CASE t = s
  BY <1>3
<1>4. CASE t # s
  <2>1. j \notin Waiters(t)'
    BY <1>1, <1>2, <1>4 DEF Waiters
  <2>2. Waiters(t)' \subseteq Waiters(t)
    BY <1>1, <2>1 DEF Waiters
  <2> QED
    BY <2>2 DEF NoLostPermit
<1> QED
  BY <1>3, <1>4

(* Where places stay where they are, it is enough to look at the request   *)
(* that moves; a waiter that is handed a permit keeps its place.           *)
LEMMA SameSlotsStep ==
    ASSUME IInv, WInv, NEW j \in Jobs, SameSlots,
           pc'[j] \in Queued => "slot" \in held[j],
           pc'[j] \notin Queued \union {"unwind"} => "slot" \notin held[j],
           \A i \in Jobs : i # j => \/ pc'[i] = pc[i]
                                    \/ pc[i] \in Waits /\ pc'[i] \in {"total", "admitted"}
    PROVE  SlotMatchesPc' /\ SlotsConserved'
<1>1. SlotsConserved'
  BY SlotsStep DEF WInv
<1>2. ASSUME NEW i \in Jobs
      PROVE  /\ pc'[i] \in Queued => "slot" \in held'[i]
             /\ pc'[i] \notin Queued \union {"unwind"} => "slot" \notin held'[i]
  <2>1. "slot" \in held'[i] <=> "slot" \in held[i]
    BY DEF SameSlots
  <2>2. CASE i = j
    BY <2>1, <2>2
  <2>3. CASE i # j /\ pc'[i] = pc[i]
    BY <2>1, <2>3 DEF WInv, SlotMatchesPc
  <2>4. CASE pc[i] \in Waits /\ pc'[i] \in {"total", "admitted"}
    BY <2>1, <2>4 DEF WInv, SlotMatchesPc, Waits, Queued
  <2> QED
    BY <2>2, <2>3, <2>4
<1> QED
  BY <1>1, <1>2 DEF SlotMatchesPc

(* The steps that only move a request.                                     *)
LEMMA MovingWInv ==
    ASSUME IInv, WInv, NEW j \in Jobs,
           \/ Block(j) \/ Begin(j) \/ TryLaneFails(j) \/ TryTotalFails(j) \/ QueueFull(j)
           \/ TimeOut(j) \/ Cancel(j) \/ Finish(j) \/ Unwound(j)
    PROVE  WInv'
<1>0. DOMAIN pc = Jobs /\ avail \in [Sems -> Nat]
  BY DEF IInv, TypeOK
<1>1. PICK label : /\ Moves(j, label) /\ UNCHANGED <<avail, slots, held>>
                   /\ label \notin Queued
                   /\ label # "unwind" =>
                        \/ pc[j] \in {"new", "try_lane", "try_total", "try_slot"}
                        \/ held[j] = {}
  BY DEF Block, Begin, TryLaneFails, TryTotalFails, QueueFull, TimeOut, Cancel, Finish, Unwound,
         Goto, AfterFailedTry, Moves, Queued
<1>2. label # "unwind" => "slot" \notin held[j]
  BY <1>1 DEF WInv, SlotMatchesPc, Queued
<1>3. pc'[j] = label /\ \A i \in Jobs : i # j => pc'[i] = pc[i]
  BY <1>0, <1>1 DEF Moves
<1>4. SlotMatchesPc' /\ SlotsConserved'
  BY <1>1, <1>2, <1>3, SameSlotsStep DEF SameSlots
<1>5. NoLostPermit'
  BY <1>0, <1>1, <1>3, NoNewWaiter DEF WInv, Waits, Queued
<1> QED
  BY <1>4, <1>5 DEF WInv

(* The steps that take a permit, or join its wait list.                    *)
LEMMA TakingWInv ==
    ASSUME IInv, WInv, NEW j \in Jobs,
           TryLane(j) \/ TryTotal(j) \/ AcquireLane(j) \/ AcquireTotal(j)
    PROVE  WInv'
<1>0. /\ DOMAIN pc = Jobs /\ avail \in [Sems -> Nat]
      /\ held \in [Jobs -> SUBSET {"lane", "total", "slot"}]
      /\ Lane(j) \in Sems /\ Total \in Sems /\ Lane(j) # Total
  BY OwnSems DEF IInv, TypeOK
<1>1. ASSUME NEW s \in Sems, avail[s] > 0, NEW what \in {"lane", "total"}, Take(s, j, what),
             NEW label, label \notin Waits, Moves(j, label), UNCHANGED slots,
             label \in Queued <=> pc[j] \in Queued, label # "unwind", pc[j] # "unwind"
      PROVE  WInv'
  <2>1. pc'[j] = label /\ \A i \in Jobs : i # j => pc'[i] = pc[i]
    BY <1>0, <1>1 DEF Moves
  <2>2. SameSlots
    BY <1>0, <1>1 DEF Take, SameSlots
  <2>3. /\ label \in Queued => "slot" \in held[j]
        /\ label \notin Queued => "slot" \notin held[j]
    BY <1>1 DEF WInv, SlotMatchesPc
  <2>4. SlotMatchesPc' /\ SlotsConserved'
    BY <2>1, <2>2, <2>3, SameSlotsStep
  <2>5. avail' = [avail EXCEPT ![s] = @ - 1]
    BY <1>1 DEF Take
  <2>6. NoLostPermit'
    BY <1>0, <1>1, <2>1, <2>5, NoNewWaiter DEF WInv
  <2> QED
    BY <2>4, <2>6 DEF WInv
<1>2. ASSUME NEW s \in {Lane(j), Total}, ~(avail[s] > 0), UNCHANGED <<avail, held, slots>>,
             Moves(j, IF s = Total THEN "total_wait" ELSE "lane_wait"), pc[j] \in Queued
      PROVE  WInv'
  <2>1. avail[s] = 0
    BY <1>0, <1>2
  <2>2. NoLostPermit'
    BY <1>0, <1>2, <2>1, OneNewWaiter DEF WInv
  <2>3. pc'[j] \in Queued /\ \A i \in Jobs : i # j => pc'[i] = pc[i]
    BY <1>0, <1>2 DEF Moves, Queued
  <2>4. "slot" \in held[j]
    BY <1>2 DEF WInv, SlotMatchesPc
  <2>5. SlotMatchesPc' /\ SlotsConserved'
    BY <1>2, <2>3, <2>4, SameSlotsStep DEF SameSlots
  <2> QED
    BY <2>2, <2>5 DEF WInv
<1>3. CASE TryLane(j)
  BY <1>0, <1>1, <1>3 DEF TryLane, Goto, Moves, Queued, Waits
<1>4. CASE TryTotal(j)
  BY <1>0, <1>1, <1>4 DEF TryTotal, Goto, Moves, Queued, Waits
<1>5. CASE AcquireLane(j)
  <2>1. CASE avail[Lane(j)] > 0
    BY <1>0, <1>1, <1>5, <2>1 DEF AcquireLane, Goto, Moves, Queued, Waits
  <2>2. CASE ~(avail[Lane(j)] > 0)
    BY <1>0, <1>2, <1>5, <2>2 DEF AcquireLane, Goto, Moves, Queued
  <2> QED
    BY <2>1, <2>2
<1>6. CASE AcquireTotal(j)
  <2>1. CASE avail[Total] > 0
    BY <1>0, <1>1, <1>6, <2>1 DEF AcquireTotal, Goto, Moves, Queued, Waits
  <2>2. CASE ~(avail[Total] > 0)
    BY <1>0, <1>2, <1>6, <2>2 DEF AcquireTotal, Goto, Moves, Queued
  <2> QED
    BY <2>1, <2>2
<1> QED
  BY <1>3, <1>4, <1>5, <1>6

(* The steps that drop a permit: it goes to a waiter if there is one, so   *)
(* nobody waits beside a counter that is not zero.                         *)
LEMMA ReturningWInv ==
    ASSUME IInv, WInv, NEW j \in Jobs, UndoTry(j) \/ DropTotal(j) \/ DropLane(j)
    PROVE  WInv'
<1>0. /\ avail \in [Sems -> Nat] /\ Lane(j) \in Sems /\ Total \in Sems
  BY OwnSems DEF IInv, TypeOK
<1>1. PICK s \in {Lane(j), Total}, what \in {"lane", "total"}, label \in {"unwind", "done", "try_slot"} :
        /\ Return(s, j, what, label) /\ pc[j] \in {"undo_try", "unwind"}
        /\ label # "unwind" => pc[j] = "undo_try"
        /\ UNCHANGED slots
  BY DEF UndoTry, DropTotal, DropLane, AfterFailedTry
<1>2. pc[j] \notin Waits
  BY <1>1 DEF Waits
<1>3. /\ \A i \in Jobs : "slot" \in held'[i] <=> "slot" \in held[i]
      /\ pc'[j] = label
      /\ \A i \in Jobs : i # j => \/ pc'[i] = pc[i]
                                  \/ pc[i] \in Waits /\ pc'[i] \in {"total", "admitted"}
      /\ \/ UNCHANGED avail
         \/ Waiters(s) = {} /\ avail' = [avail EXCEPT ![s] = @ + 1]
  BY <1>1, <1>2, ReturnEffect
<1>4. label \notin Queued /\ label \notin Waits /\ (label # "unwind" => "slot" \notin held[j])
  BY <1>1 DEF WInv, SlotMatchesPc, Queued, Waits
<1>5. SlotMatchesPc' /\ SlotsConserved'
  BY <1>1, <1>3, <1>4, SameSlotsStep DEF SameSlots
<1>6. \A i \in Jobs : i # j => pc'[i] = pc[i] \/ pc'[i] \notin Waits
  BY <1>3 DEF Waits
<1>7. NoLostPermit'
  BY <1>0, <1>1, <1>3, <1>4, <1>6, NoNewWaiter DEF WInv
<1> QED
  BY <1>5, <1>7 DEF WInv

(* The steps that take or give back a place in a wait queue.               *)
LEMMA QueueingWInv ==
    ASSUME IInv, WInv, NEW j \in Jobs, EnterQueue(j) \/ Admit(j) \/ DropSlot(j)
    PROVE  WInv'
<1>0. /\ DOMAIN pc = Jobs /\ avail \in [Sems -> Nat] /\ UNCHANGED avail
      /\ held \in [Jobs -> SUBSET {"lane", "total", "slot"}]
  BY DEF IInv, TypeOK, EnterQueue, Admit, DropSlot
<1>1. CASE EnterQueue(j)
  <2>1. /\ pc'[j] = "lane" /\ \A i \in Jobs : i # j => pc'[i] = pc[i] /\ held'[i] = held[i]
        /\ "slot" \in held'[j] /\ slots' = [slots EXCEPT ![QueueOf(j)] = @ - 1]
    BY <1>0, <1>1 DEF EnterQueue, Goto
  <2>2. "slot" \notin held[j]
    BY <1>1 DEF EnterQueue, WInv, SlotMatchesPc, Queued
  <2>3. SlotsConserved'
    BY <2>1, <2>2, SlotsStep DEF WInv
  <2>4. SlotMatchesPc'
    BY <2>1 DEF WInv, SlotMatchesPc, Queued
  <2>5. NoLostPermit'
    BY <1>0, <2>1, NoNewWaiter DEF WInv, Waits
  <2> QED
    BY <2>3, <2>4, <2>5 DEF WInv
<1>2. CASE Admit(j) \/ DropSlot(j)
  <2>1. /\ pc'[j] \in {"running", "done"} /\ \A i \in Jobs : i # j => pc'[i] = pc[i] /\ held'[i] = held[i]
        /\ "slot" \notin held'[j] /\ slots' = [slots EXCEPT ![QueueOf(j)] = @ + 1]
    BY <1>0, <1>2 DEF Admit, DropSlot, Goto
  <2>2. "slot" \in held[j]
    BY <1>2 DEF Admit, DropSlot, WInv, SlotMatchesPc, Queued
  <2>3. SlotsConserved'
    BY <2>1, <2>2, SlotsStep DEF WInv
  <2>4. SlotMatchesPc'
    BY <2>1 DEF WInv, SlotMatchesPc, Queued
  <2>5. NoLostPermit'
    BY <1>0, <2>1, NoNewWaiter DEF WInv, Waits
  <2> QED
    BY <2>3, <2>4, <2>5 DEF WInv
<1> QED
  BY <1>1, <1>2

(* At the start nobody waits and every place is free.                      *)
LEMMA InitWInv == Init => WInv
<1> SUFFICES ASSUME Init PROVE WInv
  OBVIOUS
<1>1. SlotMatchesPc
  BY DEF Init, SlotMatchesPc, Queued
<1>2. NoLostPermit
  BY DEF Init, NoLostPermit, Waiters
<1>3. SlotsConserved
  <2> SUFFICES ASSUME NEW q \in Queues
               PROVE  slots[q] + Cardinality(SlotHolders(q)) = QueueLimit[q]
    BY DEF SlotsConserved
  <2>1. SlotHolders(q) = {}
    BY DEF Init, SlotHolders
  <2>2. Cardinality(SlotHolders(q)) = 0
    BY <2>1, FS_EmptySet
  <2>3. slots[q] = QueueLimit[q] /\ QueueLimit[q] \in Nat
    BY AdmissionAssumption DEF Init
  <2> QED
    BY <2>2, <2>3
<1> QED
  BY <1>1, <1>2, <1>3 DEF WInv

(* The part of the invariant about waiting holds in every behaviour.       *)
THEOREM SpecWInv == Spec => []WInv
<1>1. IInv /\ WInv /\ [Next]_vars => WInv'
  <2> SUFFICES ASSUME IInv, WInv, [Next]_vars PROVE WInv'
    OBVIOUS
  <2>1. ASSUME NEW j \in Jobs, Admission(j) \/ TimeOut(j) \/ Cancel(j) \/ Release(j)
        PROVE  WInv'
    BY <2>1, MovingWInv, TakingWInv, ReturningWInv, QueueingWInv DEF Admission, Release
  <2>2. CASE UNCHANGED vars
    BY <2>2 DEF vars, WInv, SlotMatchesPc, SlotsConserved, SlotHolders, NoLostPermit, Waiters
  <2> QED
    BY <2>1, <2>2 DEF Next, Quiet
<1> QED
  BY InitWInv, SpecIInv, <1>1, PTL DEF Spec

(* WaitersJustified for any requests, limits and queue sizes: nobody waits *)
(* for a permit that is there, whichever of grant, time-out and            *)
(* cancellation comes first; the bounded queues bound the waiters; the     *)
(* aggregate is held only together with the lane.                          *)
THEOREM SpecWaitersJustified == Spec => []WaitersJustified
<1>1. IInv /\ WInv => WaitersJustified
  <2> SUFFICES ASSUME IInv, WInv PROVE WaitersJustified
    OBVIOUS
  <2>1. QueuesBounded
    <3> SUFFICES ASSUME NEW q \in Queues
                 PROVE  Cardinality(SlotHolders(q)) <= QueueLimit[q]
      BY DEF QueuesBounded, SlotHolders
    <3>1. IsFiniteSet(SlotHolders(q)) /\ Cardinality(SlotHolders(q)) \in Nat
      BY AdmissionAssumption, FS_Subset, FS_CardinalityType DEF SlotHolders
    <3>2. slots[q] \in Nat /\ slots[q] + Cardinality(SlotHolders(q)) = QueueLimit[q]
      BY DEF IInv, TypeOK, WInv, SlotsConserved
    <3> QED
      BY <3>1, <3>2
  <2>2. \A s \in Sems : \A j \in Waiters(s) : "slot" \in held[j]
    BY DEF WInv, SlotMatchesPc, Queued, Waiters
  <2>3. \A j \in Running : "slot" \notin held[j]
    BY DEF WInv, SlotMatchesPc, Queued, Running
  <2>4. \A j \in Jobs : "total" \in held[j] => "lane" \in held[j] /\ pc[j] # "lane_wait"
    BY DEF IInv, HeldMatchesPc
  <2> QED
    BY <2>1, <2>2, <2>3, <2>4 DEF WaitersJustified, WInv
<1> QED
  BY SpecIInv, SpecWInv, <1>1, PTL
=============================================================================
