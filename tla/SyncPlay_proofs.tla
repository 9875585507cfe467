-------------------------- MODULE SyncPlay_proofs --------------------------
(***************************************************************************)
(* Proofs about SyncPlay for any sessions, users, devices, group ids and   *)
(* requests: memberships stay exclusive, owners stay present, types are    *)
(* kept and the numbers of commands restore their order.                   *)
(***************************************************************************)
EXTENDS SyncPlay, WellFoundedInduction, TLAPS

(* The inductive invariant: the groups are consistent and what the         *)
(* requests ask for is well-typed.                                         *)
AskTyped == \A r \in Requests : ask[r].by \in Sessions /\ ask[r].group \in GroupIds
IInv == Consistent(groups) /\ AskTyped

-----------------------------------------------------------------------------
(* Any participants have a first one.                                      *)
LEMMA FirstIn ==
    ASSUME NEW S, S \subseteq Sessions, S # {}
    PROVE  First(S) \in S
<1> DEFINE T == {Rank[s] : s \in S}
           R == {ss \in Nat \X Nat : ss[1] < ss[2]}
<1>1. T \subseteq Nat /\ T # {}
  BY RankOrders
<1>2. IsWellFoundedOn(R, Nat)
  BY NatLessThanWellFounded DEF OpToRel
<1>3. PICK x \in T : \A y \in T : ~(<<y, x>> \in R)
  <2> HIDE DEF R, T
  <2> QED
    BY <1>1, <1>2, WFMin
<1>4. PICK s \in S : x = Rank[s]
  OBVIOUS
<1>5. ASSUME NEW t \in S
      PROVE  Rank[s] <= Rank[t]
  <2>1. Rank[s] \in Nat /\ Rank[t] \in Nat /\ Rank[t] \in T
    BY <1>1
  <2>2. ~(<<Rank[t], Rank[s]>> \in R)
    BY <1>3, <1>4, <2>1
  <2> QED
    BY <2>1, <2>2
<1> QED
  BY <1>4, <1>5 DEF First

(* Removing participants keeps groups consistent, and the rest of their    *)
(* members stay.                                                           *)
LEMMA PruneConsistent ==
    ASSUME NEW gs, Consistent(gs), NEW gone,
           \A i \in DOMAIN gs : gone[i] \subseteq DOMAIN gs[i].members
    PROVE  /\ Consistent(Prune(gs, gone))
           /\ DOMAIN Prune(gs, gone) \subseteq DOMAIN gs
           /\ \A i \in DOMAIN gs :
                gone[i] = {} => i \in DOMAIN Prune(gs, gone)
           /\ \A i \in DOMAIN Prune(gs, gone) :
                DOMAIN Prune(gs, gone)[i].members = DOMAIN gs[i].members \ gone[i]
<1> DEFINE ps == Prune(gs, gone)
<1>1. DOMAIN ps = {i \in DOMAIN gs : ~ DOMAIN gs[i].members \subseteq gone[i]}
  BY DEF Prune
<1>2. ASSUME NEW i \in DOMAIN gs, gone[i] = {}
      PROVE  i \in DOMAIN ps
  BY <1>1, <1>2 DEF Consistent
<1>3. ASSUME NEW i \in DOMAIN ps
      PROVE  /\ {"members", "owner"} \subseteq DOMAIN ps[i]
             /\ DOMAIN ps[i].members = DOMAIN gs[i].members \ gone[i]
             /\ DOMAIN ps[i].members \subseteq Sessions
             /\ \E s \in DOMAIN ps[i].members : UserOf[s] = ps[i].owner
  <2>1. CASE gone[i] = {}
    BY <1>1, <1>3, <2>1 DEF Prune, Consistent
  <2>2. CASE gone[i] # {}
    <3> DEFINE g == gs[i]
               left == DOMAIN g.members \ gone[i]
    <3>1. /\ {"members", "owner"} \subseteq DOMAIN g /\ DOMAIN g.members \subseteq Sessions
          /\ \E s \in DOMAIN g.members : UserOf[s] = g.owner
      BY <1>1 DEF Consistent
    <3>2. ps[i] = Without(g, gone[i])
      BY <1>1, <2>2 DEF Prune
    <3>3. First(left) \in left
      BY <1>1, <3>1, FirstIn
    <3>4. /\ Without(g, gone[i]).members = [s \in left |-> g.members[s]]
          /\ Without(g, gone[i]).owner =
                IF \E s \in gone[i] : UserOf[s] = g.owner THEN UserOf[First(left)] ELSE g.owner
          /\ DOMAIN Without(g, gone[i]) = DOMAIN g
      BY <3>1 DEF Without, Keep
    <3> HIDE DEF g
    <3>5. DOMAIN ps[i].members = left
      BY <3>2, <3>4
    <3>6. \E s \in left : UserOf[s] = ps[i].owner
      <4>1. CASE \E s \in gone[i] : UserOf[s] = g.owner
        BY <3>2, <3>3, <3>4, <4>1
      <4>2. CASE ~ \E s \in gone[i] : UserOf[s] = g.owner
        BY <3>1, <3>2, <3>4, <4>2
      <4> QED
        BY <4>1, <4>2
    <3> QED
      BY <3>1, <3>2, <3>4, <3>5, <3>6 DEF g
  <2> QED
    BY <2>1, <2>2
<1>4. Consistent(ps)
  <2> HIDE DEF ps
  <2> QED
    BY <1>1, <1>3 DEF Consistent
<1> QED
  BY <1>1, <1>2, <1>3, <1>4

(* A group put in among groups none of which shares a participant with it. *)
LEMMA PutConsistent ==
    ASSUME NEW gs, Consistent(gs), NEW i \in GroupIds, NEW g,
           {"members", "owner"} \subseteq DOMAIN g,
           DOMAIN g.members \subseteq Sessions,
           \E s \in DOMAIN g.members : UserOf[s] = g.owner,
           \A j \in DOMAIN gs \ {i} : DOMAIN gs[j].members \cap DOMAIN g.members = {}
    PROVE  Consistent(Put(gs, i, g))
<1> DEFINE ps == Put(gs, i, g)
<1>1. /\ DOMAIN ps = DOMAIN gs \cup {i}
      /\ ps[i] = g
      /\ \A j \in DOMAIN gs \ {i} : ps[j] = gs[j]
  BY DEF Put
<1> HIDE DEF ps
<1>2. DOMAIN ps \subseteq GroupIds
  BY <1>1 DEF Consistent
<1>3. ASSUME NEW j \in DOMAIN ps
      PROVE  /\ {"members", "owner"} \subseteq DOMAIN ps[j]
             /\ DOMAIN ps[j].members \subseteq Sessions
             /\ \E s \in DOMAIN ps[j].members : UserOf[s] = ps[j].owner
  <2>1. CASE j = i
    BY <1>1, <2>1
  <2>2. CASE j # i
    BY <1>1, <2>2 DEF Consistent
  <2> QED
    BY <2>1, <2>2
<1>4. ASSUME NEW j \in DOMAIN ps, NEW k \in DOMAIN ps,
             NEW s \in DOMAIN ps[j].members, s \in DOMAIN ps[k].members
      PROVE  j = k
  <2>1. CASE j = i
    BY <1>1, <1>4, <2>1
  <2>2. CASE k = i
    BY <1>1, <1>4, <2>2
  <2>3. CASE j # i /\ k # i
    BY <1>1, <1>4, <2>3 DEF Consistent
  <2> QED
    BY <2>1, <2>2, <2>3
<1> QED
  BY <1>2, <1>3, <1>4 DEF Consistent, ps

(* Consistency depends on owners and memberships only.                     *)
LEMMA SameShape ==
    ASSUME NEW gs, Consistent(gs), NEW hs, DOMAIN hs = DOMAIN gs,
           \A i \in DOMAIN gs : /\ DOMAIN hs[i] = DOMAIN gs[i]
                                /\ hs[i].owner = gs[i].owner
                                /\ DOMAIN hs[i].members = DOMAIN gs[i].members
    PROVE  Consistent(hs)
BY DEF Consistent

(* Detaching a session: it is taken out of every group not excepted.       *)
LEMMA LeavingRemoves ==
    ASSUME NEW s, NEW except, NEW i \in DOMAIN groups
    PROVE  /\ Leaving(s, except)[i] \subseteq DOMAIN groups[i].members
           /\ i \in except => Leaving(s, except)[i] = {}
           /\ i \notin except => s \notin DOMAIN groups[i].members \ Leaving(s, except)[i]
BY DEF Leaving

(* Refreshing participants changes no membership.                          *)
LEMMA RefreshShape ==
    ASSUME NEW g, NEW S, {"members", "owner"} \subseteq DOMAIN g
    PROVE  /\ DOMAIN Refresh(g, S) = DOMAIN g
           /\ Refresh(g, S).owner = g.owner
           /\ DOMAIN Refresh(g, S).members = DOMAIN g.members
BY DEF Refresh

(* Nor does a command.                                                     *)
LEMMA CommandedShape ==
    ASSUME NEW g, NEW a, {"members", "owner"} \subseteq DOMAIN g
    PROVE  /\ DOMAIN Commanded(g, a) = DOMAIN g
           /\ Commanded(g, a).owner = g.owner
           /\ DOMAIN Commanded(g, a).members = DOMAIN g.members
<1> DEFINE f == Refresh(g, {a.by})
<1>1. /\ DOMAIN f = DOMAIN g /\ f.owner = g.owner
      /\ DOMAIN f.members = DOMAIN g.members
  BY RefreshShape
<1> HIDE DEF f
<1>2. Commanded(g, a) = [f EXCEPT !.members[a.by] = ApplyToParticipant(@, a.verb, a.flag),
                                  !.seq = Number(g, a.verb), !.play = PlayState(g, a.verb)]
  BY DEF Commanded, f
<1> QED
  BY <1>1, <1>2

(* Whoever makes room for a session has its user, so an owner stays.       *)
LEMMA InsertShape ==
    ASSUME NEW g, {"members", "owner"} \subseteq DOMAIN g,
           DOMAIN g.members \subseteq Sessions,
           \E t \in DOMAIN g.members : UserOf[t] = g.owner,
           NEW s \in Sessions
    PROVE  /\ {"members", "owner"} \subseteq DOMAIN Insert(g, s)
           /\ DOMAIN Insert(g, s).members \subseteq DOMAIN g.members \cup {s}
           /\ \E t \in DOMAIN Insert(g, s).members : UserOf[t] = Insert(g, s).owner
<1> DEFINE others == {t \in DOMAIN g.members \ {s} : UserOf[t] # UserOf[s] \/ DeviceOf[t] # DeviceOf[s]}
<1>1. /\ DOMAIN Insert(g, s) = DOMAIN g
      /\ Insert(g, s).owner = g.owner
      /\ Insert(g, s).members = Put(Keep(g.members, others), s, Participant(g.seq))
  BY DEF Insert
<1>2. DOMAIN Insert(g, s).members = others \cup {s}
  BY <1>1 DEF Put, Keep
<1>3. PICK t \in DOMAIN g.members : UserOf[t] = g.owner
  OBVIOUS
<1>4. t \in others \/ UserOf[s] = g.owner
  BY <1>3
<1> QED
  BY <1>1, <1>2, <1>3, <1>4

-----------------------------------------------------------------------------
(* The actions that change groups.                                         *)

(* The removal of stale participants.                                      *)
LEMMA SweepStep ==
    ASSUME IInv, NEW r \in Requests, Sweep(r)
    PROVE  Consistent(groups')
<1>1. \A i \in DOMAIN groups : Stale[i] \subseteq DOMAIN groups[i].members
  BY DEF Stale
<1>2. groups' = Prune(groups, Stale)
  BY DEF Sweep
<1> QED
  BY <1>1, <1>2, PruneConsistent DEF IInv

(* A session leaves, or logs out.                                          *)
LEMMA LeaveStep ==
    ASSUME IInv, NEW r \in Requests, Leave(r)
    PROVE  Consistent(groups')
<1>1. \A i \in DOMAIN groups : Leaving(By(r), {})[i] \subseteq DOMAIN groups[i].members
  BY LeavingRemoves
<1>2. groups' = Prune(groups, Leaving(By(r), {}))
  BY DEF Leave
<1> QED
  BY <1>1, <1>2, PruneConsistent DEF IInv

(* The creator of a group has left all others.                             *)
LEMMA NewStep ==
    ASSUME IInv, NEW r \in Requests, New(r)
    PROVE  Consistent(groups')
<1> DEFINE s == By(r)
           gone == Leaving(s, {})
           left == Prune(groups, gone)
           g == [born |-> r, owner |-> UserOf[s], seq |-> 0, play |-> "Idle",
                 members |-> [t \in {s} |-> Participant(0)]]
<1>1. s \in Sessions /\ ask[r].group \in GroupIds
  BY DEF IInv, AskTyped, By
<1>2. groups' = Put(left, ask[r].group, g)
  BY DEF New
<1>3. {"members", "owner"} \subseteq DOMAIN g /\ DOMAIN g.members = {s} /\ g.owner = UserOf[s]
  OBVIOUS
<1>4. \A i \in DOMAIN groups : gone[i] \subseteq DOMAIN groups[i].members
  BY LeavingRemoves
<1> HIDE DEF g, gone, left
<1>5. /\ Consistent(left) /\ DOMAIN left \subseteq DOMAIN groups
      /\ \A i \in DOMAIN left : DOMAIN left[i].members = DOMAIN groups[i].members \ gone[i]
  BY <1>4, PruneConsistent DEF IInv, left
<1>6. \A i \in DOMAIN left : s \notin DOMAIN left[i].members
  BY <1>5, LeavingRemoves DEF gone
<1> QED
  BY <1>1, <1>2, <1>3, <1>5, <1>6, PutConsistent

(* A session that joins has left all groups but the one it joins.          *)
LEMMA JoinStep ==
    ASSUME IInv, NEW r \in Requests, Join(r)
    PROVE  Consistent(groups')
<1> DEFINE s == By(r)
           id == ask[r].group
           gone == Leaving(s, {id})
           left == Prune(groups, gone)
           g == Insert(left[id], s)
<1>1. s \in Sessions /\ id \in GroupIds
  BY DEF IInv, AskTyped, By
<1>2. CASE id \notin DOMAIN groups
  BY <1>2 DEF Join, JoinTo, IInv
<1>3. CASE id \in DOMAIN groups
  <2>1. groups' = Put(left, id, g)
    BY <1>3 DEF Join, JoinTo
  <2>2. \A i \in DOMAIN groups : gone[i] \subseteq DOMAIN groups[i].members
    BY LeavingRemoves
  <2>3. gone[id] = {} /\ \A i \in DOMAIN groups \ {id} : s \notin DOMAIN groups[i].members \ gone[i]
    BY <1>3 DEF Leaving
  <2> HIDE DEF g, gone, left
  <2>4. /\ Consistent(left) /\ DOMAIN left \subseteq DOMAIN groups /\ id \in DOMAIN left
        /\ \A i \in DOMAIN left : DOMAIN left[i].members = DOMAIN groups[i].members \ gone[i]
    BY <1>3, <2>2, <2>3, PruneConsistent DEF IInv, left
  <2>5. /\ {"members", "owner"} \subseteq DOMAIN left[id] /\ DOMAIN left[id].members \subseteq Sessions
        /\ \E t \in DOMAIN left[id].members : UserOf[t] = left[id].owner
    BY <2>4 DEF Consistent
  <2>6. /\ {"members", "owner"} \subseteq DOMAIN g
        /\ DOMAIN g.members \subseteq DOMAIN left[id].members \cup {s}
        /\ \E t \in DOMAIN g.members : UserOf[t] = g.owner
    BY <1>1, <2>5, InsertShape DEF g
  <2>7. ASSUME NEW j \in DOMAIN left \ {id}
        PROVE  DOMAIN left[j].members \cap DOMAIN g.members = {}
    <3>1. s \notin DOMAIN left[j].members
      BY <2>3, <2>4
    <3>2. DOMAIN left[j].members \cap DOMAIN left[id].members = {}
      BY <2>4 DEF Consistent
    <3> QED
      BY <2>6, <3>1, <3>2
  <2>8. DOMAIN g.members \subseteq Sessions
    BY <1>1, <2>5, <2>6
  <2> QED
    BY <1>1, <2>1, <2>4, <2>6, <2>7, <2>8, PutConsistent
<1> QED
  BY <1>2, <1>3

(* A ping changes no membership.                                           *)
LEMMA PingStep ==
    ASSUME IInv, NEW r \in Requests, Ping(r)
    PROVE  Consistent(groups')
<1>1. groups' = [i \in DOMAIN groups |->
                    IF Member(i, By(r)) THEN Refresh(groups[i], Refreshed(By(r), groups[i]))
                                        ELSE groups[i]]
  BY DEF Ping, PingOf
<1>2. DOMAIN groups' = DOMAIN groups
  BY <1>1
<1>3. ASSUME NEW i \in DOMAIN groups
      PROVE  /\ DOMAIN groups'[i] = DOMAIN groups[i]
             /\ groups'[i].owner = groups[i].owner
             /\ DOMAIN groups'[i].members = DOMAIN groups[i].members
  <2>1. {"members", "owner"} \subseteq DOMAIN groups[i]
    BY DEF IInv, Consistent
  <2>2. CASE Member(i, By(r))
    <3>1. groups'[i] = Refresh(groups[i], Refreshed(By(r), groups[i]))
      BY <1>1, <2>2
    <3> QED
      BY <2>1, <3>1, RefreshShape
  <2>3. CASE ~Member(i, By(r))
    BY <1>1, <2>3
  <2> QED
    BY <2>2, <2>3
<1> QED
  BY <1>2, <1>3, SameShape DEF IInv

(* A command changes none either.                                          *)
LEMMA CommandStep ==
    ASSUME IInv, NEW r \in Requests, Command(r)
    PROVE  Consistent(groups')
<1>1. CASE groups' = groups
  BY <1>1 DEF IInv
<1>2. ASSUME NEW i \in DOMAIN groups, groups' = [groups EXCEPT ![i] = Commanded(@, ask[r])]
      PROVE  Consistent(groups')
  <2>1. {"members", "owner"} \subseteq DOMAIN groups[i]
    BY DEF IInv, Consistent
  <2>2. /\ DOMAIN groups' = DOMAIN groups
        /\ groups'[i] = Commanded(groups[i], ask[r])
        /\ \A j \in DOMAIN groups \ {i} : groups'[j] = groups[j]
    BY <1>2
  <2>3. \A j \in DOMAIN groups : /\ DOMAIN groups'[j] = DOMAIN groups[j]
                                 /\ groups'[j].owner = groups[j].owner
                                 /\ DOMAIN groups'[j].members = DOMAIN groups[j].members
    BY <2>1, <2>2, CommandedShape
  <2> QED
    BY <2>2, <2>3, SameShape DEF IInv
<1>3. groups' = groups \/ \E i \in DOMAIN groups : groups' = [groups EXCEPT ![i] = Commanded(@, ask[r])]
  BY DEF Command
<1> QED
  BY <1>1, <1>2, <1>3

(* Nor does time.                                                          *)
LEMMA AgeStep ==
    ASSUME IInv, NEW s \in Sessions, Age(s)
    PROVE  Consistent(groups')
<1>1. PICK i \in DOMAIN groups : groups' = [groups EXCEPT ![i].members[s].stale = TRUE]
  BY DEF Age
<1>2. {"members", "owner"} \subseteq DOMAIN groups[i]
  BY DEF IInv, Consistent
<1>3. /\ DOMAIN groups' = DOMAIN groups
      /\ \A j \in DOMAIN groups : /\ DOMAIN groups'[j] = DOMAIN groups[j]
                                  /\ groups'[j].owner = groups[j].owner
                                  /\ DOMAIN groups'[j].members = DOMAIN groups[j].members
  BY <1>1, <1>2
<1> QED
  BY <1>3, SameShape DEF IInv

-----------------------------------------------------------------------------
(* The groups at the start are consistent.                                 *)
LEMMA InitIInv == Init => IInv
BY CastsTyped DEF Init, IInv, AskTyped

(* Every section under the lock keeps them so.                             *)
LEMMA NextIInv == IInv /\ [Next]_vars => IInv'
<1> SUFFICES ASSUME IInv, [Next]_vars PROVE IInv'
  OBVIOUS
<1>1. ask' = ask
  BY DEF Next, Step, vars, Authenticate, Send, Again, Sweep, New, Join, JoinTo, Leave, Revoke,
         Ping, PingOf, Command, Age
<1>2. Consistent(groups')
  <2>1. ASSUME NEW r \in Requests, Step(r)
        PROVE  Consistent(groups')
    <3>1. CASE Authenticate(r) \/ Send(r) \/ Again(r) \/ Revoke(r)
      BY <3>1 DEF Authenticate, Send, Again, Revoke, IInv
    <3> QED
      BY <2>1, <3>1, SweepStep, NewStep, JoinStep, LeaveStep, PingStep, CommandStep DEF Step
  <2>2. ASSUME NEW s \in Sessions, Age(s)
        PROVE  Consistent(groups')
    BY <2>2, AgeStep
  <2>3. CASE UNCHANGED vars
    BY <2>3 DEF vars, IInv
  <2> QED
    BY <2>1, <2>2, <2>3 DEF Next
<1> QED
  BY <1>1, <1>2 DEF IInv, AskTyped

(* Groups stay consistent: the registry's inductive invariant.             *)
THEOREM SpecIInv == Spec => []IInv
BY InitIInv, NextIInv, PTL DEF Spec

(* A session takes part in at most one group, for any number of sessions,  *)
(* groups and requests.                                                    *)
THEOREM SpecOneGroupPerSession == Spec => []OneGroupPerSession
<1>1. IInv => OneGroupPerSession
  BY DEF IInv, Consistent, OneGroupPerSession, Member
<1> QED
  BY <1>1, SpecIInv, PTL

(* No group is without participants or with an owner who has gone.         *)
THEOREM SpecOwnerPresent == Spec => []OwnerPresent
<1>1. IInv => OwnerPresent
  BY DEF IInv, Consistent, OwnerPresent
<1> QED
  BY <1>1, SpecIInv, PTL

-----------------------------------------------------------------------------
(* Types, and what the handlers do to the course of a group.               *)

(* h is g later on: the same group at the same command, whose participants *)
(* were there before or have come in just now.                             *)
SameCourse(h, g) ==
    /\ h.born = g.born /\ h.seq = g.seq /\ h.play = g.play
    /\ \A s \in DOMAIN h.members :
        \/ h.members[s].since = g.seq
        \/ s \in DOMAIN g.members /\ h.members[s].since = g.members[s].since

(* The components of a group.                                              *)
LEMMA GroupFields ==
    ASSUME NEW g, SyncPlayGroup(g)
    PROVE  /\ DOMAIN g = {"born", "owner", "seq", "play", "members"}
           /\ g.born \in Requests /\ g.owner \in Owners /\ g.seq \in Nat
           /\ g.play \in AllPlayStates
           /\ DOMAIN g.members \subseteq Sessions
           /\ g.members \in [DOMAIN g.members -> SyncPlayParticipant]
BY DEF SyncPlayGroup

(* A record with these components is a group.                              *)
LEMMA GroupMade ==
    ASSUME NEW h, h.born \in Requests, h.owner \in Owners, h.seq \in Nat, h.play \in AllPlayStates,
           h = [born |-> h.born, owner |-> h.owner, seq |-> h.seq, play |-> h.play, members |-> h.members],
           DOMAIN h.members \subseteq Sessions, h.members \in [DOMAIN h.members -> SyncPlayParticipant]
    PROVE  SyncPlayGroup(h)
<1>1. h \in [born : Requests, owner : Owners, seq : Nat, play : AllPlayStates, members : {h.members}]
  OBVIOUS
<1> QED
  BY <1>1 DEF SyncPlayGroup

(* A group written out.                                                    *)
LEMMA GroupIs ==
    ASSUME NEW g, SyncPlayGroup(g)
    PROVE  g = [born |-> g.born, owner |-> g.owner, seq |-> g.seq, play |-> g.play, members |-> g.members]
BY DEF SyncPlayGroup

(* Participants are taken out of a group.                                  *)
LEMMA WithoutTyped ==
    ASSUME NEW g, SyncPlayGroup(g), NEW S, ~ DOMAIN g.members \subseteq S
    PROVE  SyncPlayGroup(Without(g, S)) /\ SameCourse(Without(g, S), g)
<1> DEFINE left == DOMAIN g.members \ S
           o == IF \E s \in S : UserOf[s] = g.owner THEN UserOf[First(left)] ELSE g.owner
           f == [s \in left |-> g.members[s]]
<1>1. First(left) \in left /\ left \in SUBSET Sessions
  BY GroupFields, FirstIn
<1>2. o \in Owners
  BY <1>1, GroupFields DEF Owners
<1>3. f \in [left -> SyncPlayParticipant]
  BY GroupFields
<1>4. Without(g, S) = [born |-> g.born, owner |-> o, seq |-> g.seq, play |-> g.play, members |-> f]
  <2>1. Without(g, S) = [g EXCEPT !.members = f, !.owner = o]
    BY DEF Without, Keep
  <2> HIDE DEF f, o
  <2>2. PICK b, oo, n, p, ms : g = [born |-> b, owner |-> oo, seq |-> n, play |-> p, members |-> ms]
    BY GroupIs
  <2>3. g.born = b /\ g.seq = n /\ g.play = p
    BY <2>2
  <2> QED
    BY <2>1, <2>2, <2>3
<1>5. \A s \in left : f[s] = g.members[s]
  OBVIOUS
<1> HIDE DEF f, o, left
<1>6. /\ SyncPlayGroup(Without(g, S)) /\ DOMAIN Without(g, S).members = left
      /\ Without(g, S).born = g.born /\ Without(g, S).seq = g.seq /\ Without(g, S).play = g.play
      /\ Without(g, S).members = f
  <2>1. PICK h : h = Without(g, S)
    OBVIOUS
  <2>2. h.born = g.born /\ h.owner = o /\ h.seq = g.seq /\ h.play = g.play /\ h.members = f
    BY <1>4, <2>1
  <2>3. h = [born |-> h.born, owner |-> h.owner, seq |-> h.seq, play |-> h.play, members |-> h.members]
    BY <1>4, <2>1, <2>2
  <2>4. DOMAIN f = left
    BY <1>3
  <2> QED
    BY <1>1, <1>2, <1>3, <2>1, <2>2, <2>3, <2>4, GroupFields, GroupMade
<1>7. left \subseteq DOMAIN g.members
  BY DEF left
<1> QED
  BY <1>5, <1>6, <1>7 DEF SameCourse

(* Whoever stays as it is keeps its course.                                *)
LEMMA SameIsSame ==
    ASSUME NEW g
    PROVE  SameCourse(g, g)
BY DEF SameCourse

(* Pruning keeps the groups that it leaves.                                *)
LEMMA PruneTyped ==
    ASSUME NEW gs, \A i \in DOMAIN gs : SyncPlayGroup(gs[i]), NEW gone,
           NEW i \in DOMAIN Prune(gs, gone)
    PROVE  /\ i \in DOMAIN gs /\ SyncPlayGroup(Prune(gs, gone)[i])
           /\ SameCourse(Prune(gs, gone)[i], gs[i])
           /\ gone[i] = {} => Prune(gs, gone)[i] = gs[i]
<1>1. i \in DOMAIN gs /\ ~ DOMAIN gs[i].members \subseteq gone[i]
  BY DEF Prune
<1>2. Prune(gs, gone)[i] = IF gone[i] = {} THEN gs[i] ELSE Without(gs[i], gone[i])
  BY <1>1 DEF Prune
<1>3. SyncPlayGroup(Without(gs[i], gone[i])) /\ SameCourse(Without(gs[i], gone[i]), gs[i])
  BY <1>1, WithoutTyped
<1> QED
  BY <1>1, <1>2, <1>3, SameIsSame

(* A newcomer is typed.                                                    *)
LEMMA ParticipantTyped ==
    ASSUME NEW n \in Nat
    PROVE  Participant(n) \in SyncPlayParticipant /\ Participant(n).since = n
BY DEF Participant, SyncPlayParticipant

(* A session comes in at the present number.                               *)
LEMMA InsertTyped ==
    ASSUME NEW g, SyncPlayGroup(g), NEW s \in Sessions
    PROVE  SyncPlayGroup(Insert(g, s)) /\ SameCourse(Insert(g, s), g)
<1> DEFINE others == {t \in DOMAIN g.members \ {s} : UserOf[t] # UserOf[s] \/ DeviceOf[t] # DeviceOf[s]}
           f == Put(Keep(g.members, others), s, Participant(g.seq))
<1>1. /\ DOMAIN f = others \cup {s} /\ f[s] = Participant(g.seq)
      /\ \A t \in others : f[t] = g.members[t]
      /\ f = [t \in others \cup {s} |-> f[t]]
  BY DEF Put, Keep
<1>2. g.seq \in Nat /\ DOMAIN g.members \subseteq Sessions
  BY GroupFields
<1>3. others \cup {s} \in SUBSET Sessions /\ others \subseteq DOMAIN g.members
  BY <1>2
<1>4. \A t \in DOMAIN g.members : g.members[t] \in SyncPlayParticipant
  BY GroupFields
<1>5. Insert(g, s) = [g EXCEPT !.members = f]
  BY DEF Insert
<1> HIDE DEF f, others
<1>6. f \in [others \cup {s} -> SyncPlayParticipant]
  BY <1>1, <1>2, <1>3, <1>4, ParticipantTyped
<1>7. Insert(g, s) = [born |-> g.born, owner |-> g.owner, seq |-> g.seq, play |-> g.play, members |-> f]
  <2>1. PICK b, oo, n, p, ms : g = [born |-> b, owner |-> oo, seq |-> n, play |-> p, members |-> ms]
    BY GroupIs
  <2>2. g.born = b /\ g.seq = n /\ g.play = p /\ g.owner = oo
    BY <2>1
  <2> QED
    BY <1>5, <2>1, <2>2
<1>8. /\ SyncPlayGroup(Insert(g, s)) /\ DOMAIN Insert(g, s).members = others \cup {s}
      /\ Insert(g, s).born = g.born /\ Insert(g, s).seq = g.seq /\ Insert(g, s).play = g.play
      /\ Insert(g, s).members = f
  <2>1. PICK h : h = Insert(g, s)
    OBVIOUS
  <2>2. h.born = g.born /\ h.owner = g.owner /\ h.seq = g.seq /\ h.play = g.play /\ h.members = f
    BY <1>7, <2>1
  <2>3. h = [born |-> h.born, owner |-> h.owner, seq |-> h.seq, play |-> h.play, members |-> h.members]
    BY <1>7, <2>1, <2>2
  <2> QED
    BY <1>1, <1>3, <1>6, <2>1, <2>2, <2>3, GroupFields, GroupMade
<1> QED
  BY <1>1, <1>2, <1>3, <1>8, ParticipantTyped DEF SameCourse

(* The fields of a participant.                                            *)
LEMMA ParticipantFields ==
    ASSUME NEW p \in SyncPlayParticipant
    PROVE  /\ p = [ready |-> p.ready, buffering |-> p.buffering, stale |-> p.stale, since |-> p.since]
           /\ p.ready \in BOOLEAN /\ p.buffering \in BOOLEAN /\ p.stale \in BOOLEAN /\ p.since \in Nat
           /\ ~(p.ready /\ p.buffering)
BY DEF SyncPlayParticipant

(* The stale flag of a participant may change.                             *)
LEMMA FlagTyped ==
    ASSUME NEW p \in SyncPlayParticipant, NEW b \in BOOLEAN
    PROVE  /\ [p EXCEPT !.stale = b] \in SyncPlayParticipant
           /\ [p EXCEPT !.stale = b].since = p.since
<1>1. PICK x \in BOOLEAN, y \in BOOLEAN, z \in BOOLEAN, n \in Nat :
        /\ p = [ready |-> x, buffering |-> y, stale |-> z, since |-> n] /\ ~(x /\ y)
  BY ParticipantFields
<1>2. [p EXCEPT !.stale = b] = [ready |-> x, buffering |-> y, stale |-> b, since |-> n] /\ p.since = n
  BY <1>1
<1>3. [ready |-> x, buffering |-> y, stale |-> b, since |-> n] \in SyncPlayParticipant
  BY <1>1 DEF SyncPlayParticipant
<1> QED
  BY <1>2, <1>3

(* Participants are seen again.                                            *)
LEMMA RefreshTyped ==
    ASSUME NEW g, SyncPlayGroup(g), NEW S
    PROVE  /\ SyncPlayGroup(Refresh(g, S)) /\ SameCourse(Refresh(g, S), g)
           /\ DOMAIN Refresh(g, S).members = DOMAIN g.members
           /\ \A t \in DOMAIN g.members : Refresh(g, S).members[t].since = g.members[t].since
<1> DEFINE D == DOMAIN g.members
           f == [t \in D |-> [g.members[t] EXCEPT !.stale = @ /\ t \notin S]]
<1>1. \A t \in D : g.members[t] \in SyncPlayParticipant
  BY GroupFields
<1>2. ASSUME NEW t \in D
      PROVE  f[t] \in SyncPlayParticipant /\ f[t].since = g.members[t].since
  <2>1. PICK b \in BOOLEAN : b = (g.members[t].stale /\ t \notin S)
    OBVIOUS
  <2>2. f[t] = [g.members[t] EXCEPT !.stale = b]
    BY <2>1
  <2> QED
    BY <1>1, <2>2, FlagTyped
<1>3. Refresh(g, S) = [g EXCEPT !.members = f]
  BY DEF Refresh
<1>4. f = [t \in D |-> f[t]]
  OBVIOUS
<1> HIDE DEF f
<1>5. f \in [D -> SyncPlayParticipant]
  BY <1>2, <1>4
<1>6. Refresh(g, S) = [born |-> g.born, owner |-> g.owner, seq |-> g.seq, play |-> g.play, members |-> f]
  <2>1. PICK b, oo, n, p, ms : g = [born |-> b, owner |-> oo, seq |-> n, play |-> p, members |-> ms]
    BY GroupIs
  <2>2. g.born = b /\ g.seq = n /\ g.play = p /\ g.owner = oo
    BY <2>1
  <2> QED
    BY <1>3, <2>1, <2>2
<1>7. D \in SUBSET Sessions
  BY GroupFields
<1> HIDE DEF D
<1>8. /\ SyncPlayGroup(Refresh(g, S)) /\ DOMAIN Refresh(g, S).members = D
      /\ Refresh(g, S).born = g.born /\ Refresh(g, S).seq = g.seq /\ Refresh(g, S).play = g.play
      /\ Refresh(g, S).members = f
  <2>1. PICK h : h = Refresh(g, S)
    OBVIOUS
  <2>2. h.born = g.born /\ h.owner = g.owner /\ h.seq = g.seq /\ h.play = g.play /\ h.members = f
    BY <1>6, <2>1
  <2>3. h = [born |-> h.born, owner |-> h.owner, seq |-> h.seq, play |-> h.play, members |-> h.members]
    BY <1>6, <2>1, <2>2
  <2>4. DOMAIN f = D
    BY <1>5
  <2> QED
    BY <1>5, <1>7, <2>1, <2>2, <2>3, <2>4, GroupFields, GroupMade
<1> QED
  BY <1>2, <1>8 DEF SameCourse, D

(* What a command makes of its sender's flags.                             *)
LEMMA ApplyTyped ==
    ASSUME NEW p \in SyncPlayParticipant, NEW verb, NEW flag \in BOOLEAN
    PROVE  /\ ApplyToParticipant(p, verb, flag) \in SyncPlayParticipant
           /\ ApplyToParticipant(p, verb, flag).since = p.since
<1>1. PICK x \in BOOLEAN, y \in BOOLEAN, z \in BOOLEAN, n \in Nat :
        /\ p = [ready |-> x, buffering |-> y, stale |-> z, since |-> n] /\ ~(x /\ y)
  BY ParticipantFields
<1>2. ASSUME NEW x2 \in BOOLEAN, NEW y2 \in BOOLEAN, ~(x2 /\ y2)
      PROVE  /\ [ready |-> x2, buffering |-> y2, stale |-> z, since |-> n] \in SyncPlayParticipant
             /\ [ready |-> x2, buffering |-> y2, stale |-> z, since |-> n].since = p.since
  BY <1>1, <1>2 DEF SyncPlayParticipant
<1>3. CASE verb = "ready"
  <2>1. ApplyToParticipant(p, verb, flag) = [p EXCEPT !.ready = flag, !.buffering = FALSE]
    BY <1>3 DEF ApplyToParticipant
  <2>2. ApplyToParticipant(p, verb, flag) = [ready |-> flag, buffering |-> FALSE, stale |-> z, since |-> n]
    BY <1>1, <2>1
  <2> QED
    BY <1>2, <2>2
<1>4. CASE verb = "buffering"
  <2>1. ApplyToParticipant(p, verb, flag) = [p EXCEPT !.buffering = flag, !.ready = p.ready /\ ~flag]
    BY <1>4 DEF ApplyToParticipant
  <2>2. PICK w \in BOOLEAN : w = (x /\ ~flag)
    OBVIOUS
  <2>3. ApplyToParticipant(p, verb, flag) = [ready |-> w, buffering |-> flag, stale |-> z, since |-> n]
    BY <1>1, <2>1, <2>2
  <2>4. ~(w /\ flag)
    BY <2>2
  <2> QED
    BY <1>2, <2>3, <2>4
<1>5. CASE verb \in {"pause", "unpause", "seek", "stop"}
  <2>1. ApplyToParticipant(p, verb, flag) = [p EXCEPT !.buffering = FALSE]
    BY <1>5 DEF ApplyToParticipant
  <2>2. ApplyToParticipant(p, verb, flag) = [ready |-> x, buffering |-> FALSE, stale |-> z, since |-> n]
    BY <1>1, <2>1
  <2> QED
    BY <1>2, <2>2
<1>6. CASE verb \notin {"ready", "buffering", "pause", "unpause", "seek", "stop"}
  BY <1>6 DEF ApplyToParticipant
<1> QED
  BY <1>3, <1>4, <1>5, <1>6

(* A command raises the number by one and changes no membership.           *)
LEMMA CommandedTyped ==
    ASSUME NEW g, SyncPlayGroup(g), NEW a, a.by \in DOMAIN g.members, a.flag \in BOOLEAN
    PROVE  LET h == Commanded(g, a) IN
           /\ SyncPlayGroup(h) /\ h.born = g.born /\ h.seq = g.seq + 1
           /\ DOMAIN h.members = DOMAIN g.members
           /\ \A t \in DOMAIN g.members : h.members[t].since = g.members[t].since
<1> DEFINE k == Refresh(g, {a.by})
           D == DOMAIN g.members
           f == [k.members EXCEPT ![a.by] = ApplyToParticipant(@, a.verb, a.flag)]
           p == PlayState(g, a.verb)
<1>1. /\ SyncPlayGroup(k) /\ SameCourse(k, g) /\ DOMAIN k.members = D
      /\ \A t \in D : k.members[t].since = g.members[t].since
  BY RefreshTyped
<1>2. Commanded(g, a) = [k EXCEPT !.members[a.by] = ApplyToParticipant(@, a.verb, a.flag),
                                  !.seq = g.seq + 1, !.play = p]
  BY DEF Commanded, Number
<1> HIDE DEF k
<1>3. /\ k.members \in [D -> SyncPlayParticipant] /\ D \in SUBSET Sessions
      /\ k.born = g.born /\ g.born \in Requests /\ g.seq \in Nat
      /\ k.owner \in Owners
  BY <1>1, GroupFields DEF SameCourse
<1>4. p \in AllPlayStates
  <2>1. g.play \in AllPlayStates
    BY GroupFields
  <2> QED
    BY <2>1 DEF PlayState, AllPlayStates
<1>5. PICK q : q = ApplyToParticipant(k.members[a.by], a.verb, a.flag)
  OBVIOUS
<1>6. q \in SyncPlayParticipant /\ q.since = k.members[a.by].since
  BY <1>3, <1>5, ApplyTyped
<1>7. f = [k.members EXCEPT ![a.by] = q]
  BY <1>5
<1>8. f \in [D -> SyncPlayParticipant] /\ \A t \in D : f[t].since = g.members[t].since
  BY <1>1, <1>3, <1>6, <1>7
<1>9. Commanded(g, a) = [born |-> k.born, owner |-> k.owner, seq |-> g.seq + 1, play |-> p, members |-> f]
  <2>1. PICK b, oo, n, pp, ms : k = [born |-> b, owner |-> oo, seq |-> n, play |-> pp, members |-> ms]
    BY <1>1, GroupIs
  <2>2. k.born = b /\ k.owner = oo /\ k.members = ms
    BY <2>1
  <2>3. Commanded(g, a) = [k EXCEPT !.members = f, !.seq = g.seq + 1, !.play = p]
    BY <1>2, <2>1
  <2> HIDE DEF f, p
  <2> QED
    BY <2>1, <2>2, <2>3
<1> HIDE DEF f, p, D
<1>10. g.seq + 1 \in Nat
  BY <1>3
<1>11. /\ SyncPlayGroup(Commanded(g, a)) /\ DOMAIN Commanded(g, a).members = D
       /\ Commanded(g, a).born = k.born /\ Commanded(g, a).seq = g.seq + 1
       /\ Commanded(g, a).members = f
  <2>1. PICK h : h = Commanded(g, a)
    OBVIOUS
  <2>2. h.born = k.born /\ h.owner = k.owner /\ h.seq = g.seq + 1 /\ h.play = p /\ h.members = f
    BY <1>9, <2>1
  <2>3. h = [born |-> h.born, owner |-> h.owner, seq |-> h.seq, play |-> h.play, members |-> h.members]
    BY <1>9, <2>1, <2>2
  <2>4. DOMAIN f = D
    BY <1>8
  <2> QED
    BY <1>3, <1>4, <1>8, <1>10, <2>1, <2>2, <2>3, <2>4, GroupMade
<1> QED
  BY <1>3, <1>8, <1>11 DEF D

(* A participant's time-out passes.                                        *)
LEMMA AgedTyped ==
    ASSUME NEW g, SyncPlayGroup(g), NEW s \in DOMAIN g.members,
           NEW h, h = [g EXCEPT !.members[s].stale = TRUE]
    PROVE  SyncPlayGroup(h) /\ SameCourse(h, g)
<1> DEFINE D == DOMAIN g.members
<1>1. PICK q : q = [g.members[s] EXCEPT !.stale = TRUE]
  OBVIOUS
<1>2. PICK f : f = [g.members EXCEPT ![s] = q]
  OBVIOUS
<1>3. g.members \in [D -> SyncPlayParticipant] /\ D \in SUBSET Sessions
  BY GroupFields
<1>4. q \in SyncPlayParticipant /\ q.since = g.members[s].since
  BY <1>1, <1>3, FlagTyped
<1>5. f \in [D -> SyncPlayParticipant] /\ \A t \in D : f[t].since = g.members[t].since
  BY <1>2, <1>3, <1>4
<1>6. h = [born |-> g.born, owner |-> g.owner, seq |-> g.seq, play |-> g.play, members |-> f]
  <2>1. PICK b, oo, n, p, ms : g = [born |-> b, owner |-> oo, seq |-> n, play |-> p, members |-> ms]
    BY GroupIs
  <2>2. g.born = b /\ g.seq = n /\ g.play = p /\ g.owner = oo /\ g.members = ms
    BY <2>1
  <2>3. h = [g EXCEPT !.members = f]
    BY <1>1, <1>2, <2>1
  <2> QED
    BY <2>1, <2>2, <2>3
<1> HIDE DEF D
<1>7. /\ SyncPlayGroup(h) /\ DOMAIN h.members = D
      /\ h.born = g.born /\ h.seq = g.seq /\ h.play = g.play
      /\ h.members = f
  <2>2. h.born = g.born /\ h.owner = g.owner /\ h.seq = g.seq /\ h.play = g.play /\ h.members = f
    BY <1>6
  <2>3. h = [born |-> h.born, owner |-> h.owner, seq |-> h.seq, play |-> h.play, members |-> h.members]
    BY <1>6, <2>2
  <2>4. DOMAIN f = D
    BY <1>5
  <2>5. g.born \in Requests /\ g.owner \in Owners /\ g.seq \in Nat /\ g.play \in AllPlayStates
    BY GroupFields
  <2> QED
    BY <1>3, <1>5, <2>2, <2>3, <2>4, <2>5, GroupMade
<1> QED
  BY <1>5, <1>7 DEF SameCourse, D

-----------------------------------------------------------------------------
(* Commands and their numbers.                                             *)

(* What commands have told a session, or are about to tell it.             *)
Sent ==
    [s \in Sessions |->
        got[s] \cup {m.group : m \in {n \in UNION {out[r] : r \in Requests} :
                                          n.to = s /\ n.kind = "command"}}]

(* Whom messages go to, and how a request that creates a group proceeds:   *)
(* creating is the last it does.                                           *)
Scripts == {<<>>, <<"act">>, <<"sweep", "act">>, <<"auth", "sweep", "act">>}
Courses ==
    /\ DOMAIN out = Requests /\ DOMAIN got = Sessions /\ DOMAIN todo = Requests
    /\ \A r \in Requests : ask[r].op = "new" => todo[r] \in Scripts

(* Number and group determine a command, whoever gets it.                  *)
Determined ==
    \A s, t \in Sessions : \A m \in Sent[s], n \in Sent[t] :
        m.born = n.born /\ m.seq = n.seq => m = n

(* No command is ahead of its group, and the latest has its play state.    *)
Bounded ==
    \A i \in DOMAIN groups, s \in Sessions : \A m \in Sent[s] :
        m.born = groups[i].born =>
            m.seq <= groups[i].seq /\ (m.seq = groups[i].seq => m.play = groups[i].play)

(* A participant misses none of the commands since it came in.             *)
Received ==
    \A i \in DOMAIN groups : \A s \in DOMAIN groups[i].members :
        \A k \in (groups[i].members[s].since + 1)..groups[i].seq :
            \E m \in Sent[s] : m.born = groups[i].born /\ m.seq = k

(* No two groups come from one request, and none comes from a request that *)
(* has still to create one.                                                *)
BornOnce == \A i, j \in DOMAIN groups : groups[i].born = groups[j].born => i = j
Undrawn ==
    \A r \in Requests : ask[r].op = "new" /\ todo[r] # <<>> =>
        /\ \A i \in DOMAIN groups : groups[i].born # r
        /\ \A s \in Sessions : \A m \in Sent[s] : m.born # r

Numbered == \A s \in Sessions : \A m \in Sent[s] : m.seq \in Nat

NInv == Courses /\ Numbered /\ Determined /\ Bounded /\ Received /\ BornOnce /\ Undrawn

(* Membership in Sent, now and after a step.                               *)
SentIs ==
    \A s \in Sessions : \A x :
        x \in Sent[s] <=>
            \/ x \in got[s]
            \/ \E r \in Requests : \E m \in out[r] : m.to = s /\ m.kind = "command" /\ m.group = x

(* This is what Sent says.                                                 *)
LEMMA SentMembers == SentIs
BY DEF SentIs, Sent

(* Also after a step.                                                      *)
LEMMA SentMembersNext == SentIs'
<1>1. SentIs
  BY SentMembers
<1> QED
  BY <1>1, PTL

(* Equal for every session, equal.                                         *)
LEMMA SentEqual ==
    ASSUME \A s \in Sessions : Sent'[s] = Sent[s]
    PROVE  Sent' = Sent
<1>1. Sent = [s \in Sessions |-> Sent[s]] /\ Sent' = [s \in Sessions |-> Sent'[s]]
  BY DEF Sent
<1> QED
  BY <1>1

(* A request with nothing left to send sends no command: nobody is told    *)
(* of any.                                                                 *)
LEMMA QuietEmit ==
    ASSUME DOMAIN out = Requests, NEW r \in Requests, out[r] = {}, got' = got,
           NEW ms, \A m \in ms : m.kind # "command", out' = [out EXCEPT ![r] = ms]
    PROVE  Sent' = Sent
<1>1. out'[r] = ms /\ \A q \in Requests : q # r => out'[q] = out[q]
  OBVIOUS
<1>2. ASSUME NEW s \in Sessions
      PROVE  Sent'[s] = Sent[s]
  <2>1. ASSUME NEW x
        PROVE  x \in Sent'[s] <=> x \in Sent[s]
    <3>1. x \in Sent[s] <=>
            \/ x \in got[s]
            \/ \E q \in Requests : \E m \in out[q] : m.to = s /\ m.kind = "command" /\ m.group = x
      BY SentMembers DEF SentIs
    <3>2. x \in Sent'[s] <=>
            \/ x \in got'[s]
            \/ \E q \in Requests : \E m \in out'[q] : m.to = s /\ m.kind = "command" /\ m.group = x
      BY SentMembersNext DEF SentIs
    <3>3. (\E q \in Requests : \E m \in out'[q] : m.to = s /\ m.kind = "command" /\ m.group = x)
            <=> (\E q \in Requests : \E m \in out[q] : m.to = s /\ m.kind = "command" /\ m.group = x)
      BY <1>1
    <3> QED
      BY <3>1, <3>2, <3>3
  <2>2. \A x : x \in Sent'[s] <=> x \in Sent[s]
    BY <2>1
  <2> QED
    BY <2>2
<1> QED
  BY <1>2, SentEqual

(* A message that goes out has been counted already.                       *)
LEMMA SendQuiet ==
    ASSUME Courses, NEW r \in Requests, Send(r), \A m \in out[r] : m.to \in Sessions
    PROVE  Sent' = Sent
<1>0. DOMAIN out = Requests /\ DOMAIN got = Sessions
  BY DEF Courses
<1>1. PICK m \in out[r] :
        /\ out' = [out EXCEPT ![r] = out[r] \ {m}]
        /\ got' = [got EXCEPT ![m.to] = IF m.kind = "command" THEN @ \cup {m.group} ELSE @]
  BY DEF Send, Emit
<1>2. /\ out'[r] = out[r] \ {m} /\ \A q \in Requests : q # r => out'[q] = out[q]
      /\ m.to \in Sessions
      /\ got'[m.to] = IF m.kind = "command" THEN got[m.to] \cup {m.group} ELSE got[m.to]
      /\ \A s \in Sessions : s # m.to => got'[s] = got[s]
  BY <1>0, <1>1
<1>3. ASSUME NEW s \in Sessions
      PROVE  Sent'[s] = Sent[s]
  <2>1. ASSUME NEW x
        PROVE  x \in Sent'[s] <=> x \in Sent[s]
    <3>1. x \in Sent[s] <=>
            \/ x \in got[s]
            \/ \E q \in Requests : \E n \in out[q] : n.to = s /\ n.kind = "command" /\ n.group = x
      BY SentMembers DEF SentIs
    <3>2. x \in Sent'[s] <=>
            \/ x \in got'[s]
            \/ \E q \in Requests : \E n \in out'[q] : n.to = s /\ n.kind = "command" /\ n.group = x
      BY SentMembersNext DEF SentIs
    <3>3. CASE s = m.to /\ m.kind = "command" /\ x = m.group
      BY <1>2, <3>1, <3>2, <3>3
    <3>4. CASE ~(s = m.to /\ m.kind = "command" /\ x = m.group)
      <4>1. x \in got'[s] <=> x \in got[s]
        BY <1>2, <3>4
      <4>2. ASSUME NEW q \in Requests
            PROVE  (\E n \in out'[q] : n.to = s /\ n.kind = "command" /\ n.group = x)
                     <=> (\E n \in out[q] : n.to = s /\ n.kind = "command" /\ n.group = x)
        BY <1>2, <3>4
      <4> QED
        BY <3>1, <3>2, <4>1, <4>2
    <3> QED
      BY <3>3, <3>4
  <2>2. \A x : x \in Sent'[s] <=> x \in Sent[s]
    BY <2>1
  <2> QED
    BY <2>2
<1> QED
  BY <1>3, SentEqual

(* A command is told to all participants, once.                            *)
LEMMA CommandTold ==
    ASSUME DOMAIN out = Requests, NEW r \in Requests, out[r] = {}, got' = got,
           NEW h, out' = [out EXCEPT ![r] = Told(h, "command")]
    PROVE  \A s \in Sessions : \A x :
             x \in Sent'[s] <=> x \in Sent[s] \/ (s \in DOMAIN h.members /\ x = Json(h))
<1>1. out'[r] = Told(h, "command") /\ \A q \in Requests : q # r => out'[q] = out[q]
  OBVIOUS
<1> SUFFICES ASSUME NEW s \in Sessions, NEW x
             PROVE  x \in Sent'[s] <=> x \in Sent[s] \/ (s \in DOMAIN h.members /\ x = Json(h))
  OBVIOUS
<1>2. x \in Sent[s] <=>
        \/ x \in got[s]
        \/ \E q \in Requests : \E n \in out[q] : n.to = s /\ n.kind = "command" /\ n.group = x
  BY SentMembers DEF SentIs
<1>3. x \in Sent'[s] <=>
        \/ x \in got'[s]
        \/ \E q \in Requests : \E n \in out'[q] : n.to = s /\ n.kind = "command" /\ n.group = x
  BY SentMembersNext DEF SentIs
<1>4. (\E n \in out'[r] : n.to = s /\ n.kind = "command" /\ n.group = x)
        <=> s \in DOMAIN h.members /\ x = Json(h)
  <2>1. ASSUME NEW n \in Told(h, "command")
        PROVE  \E t \in DOMAIN h.members : n.to = t /\ n.kind = "command" /\ n.group = Json(h)
    BY DEF Told
  <2>2. ASSUME NEW t \in DOMAIN h.members
        PROVE  \E n \in Told(h, "command") : n.to = t /\ n.kind = "command" /\ n.group = Json(h)
    <3>1. PICK n : n = [to |-> t, kind |-> "command", group |-> Json(h)]
      OBVIOUS
    <3>2. n \in Told(h, "command")
      BY <3>1 DEF Told
    <3>3. n.to = t /\ n.kind = "command" /\ n.group = Json(h)
      BY <3>1
    <3> QED
      BY <3>2, <3>3
  <2> QED
    BY <1>1, <2>1, <2>2
<1>5. \A q \in Requests : q # r =>
        ((\E n \in out'[q] : n.to = s /\ n.kind = "command" /\ n.group = x)
           <=> (\E n \in out[q] : n.to = s /\ n.kind = "command" /\ n.group = x))
  BY <1>1
<1>6. ~ \E n \in out[r] : n.to = s /\ n.kind = "command" /\ n.group = x
  OBVIOUS
<1> QED
  BY <1>2, <1>3, <1>4, <1>5, <1>6

-----------------------------------------------------------------------------
(* What a step does, in terms of groups and commands.                      *)

(* The messages a request sends go to sessions.                            *)
Addressed(ms) == \A m \in ms : m.to \in Sessions
NoCommands(ms) == \A m \in ms : m.kind # "command"

Follows(i) == i \in DOMAIN groups /\ SyncPlayGroup(groups'[i]) /\ SameCourse(groups'[i], groups[i])

(* Groups go on as they are, or end.                                       *)
GoesOn == Sent' = Sent /\ \A i \in DOMAIN groups' : Follows(i)

(* A group is created, perhaps in the place of another.                    *)
Creates(r) ==
    /\ ask[r].op = "new" /\ todo[r] # <<>> /\ todo'[r] = <<>> /\ Sent' = Sent
    /\ \E i \in DOMAIN groups' :
        /\ \A j \in DOMAIN groups' \ {i} : Follows(j)
        /\ SyncPlayGroup(groups'[i]) /\ groups'[i].born = r /\ groups'[i].seq = 0
        /\ \A s \in DOMAIN groups'[i].members : groups'[i].members[s].since = 0

(* A group gets a command.                                                 *)
Proceeds(i) ==
    /\ DOMAIN groups' = DOMAIN groups /\ i \in DOMAIN groups
    /\ \A j \in DOMAIN groups \ {i} : groups'[j] = groups[j]
    /\ SyncPlayGroup(groups'[i]) /\ groups'[i].born = groups[i].born
    /\ groups'[i].seq = groups[i].seq + 1
    /\ DOMAIN groups'[i].members = DOMAIN groups[i].members
    /\ \A s \in DOMAIN groups[i].members : groups'[i].members[s].since = groups[i].members[s].since
    /\ \A s \in Sessions : \A x :
         x \in Sent'[s] <=> x \in Sent[s] \/ (s \in DOMAIN groups'[i].members /\ x = Json(groups'[i]))

(* What the requests ask for is what they asked for at the start.          *)
LEMMA Asked ==
    ASSUME TypeOK, NEW r \in Requests
    PROVE  /\ ask[r].by \in Sessions /\ ask[r].group \in GroupIds
           /\ ask[r].op \in Operations /\ ask[r].flag \in BOOLEAN
           /\ ask[r].op = "new" => ~ask[r].again
<1>1. PICK c \in Casts : ask = c.ask
  BY DEF TypeOK
<1> QED
  BY <1>1, CastsTyped

(* Updates of groups are addressed to sessions and are not commands.       *)
LEMMA ToldQuiet ==
    ASSUME NEW g, DOMAIN g.members \subseteq Sessions, NEW kind
    PROVE  Addressed(Told(g, kind)) /\ (kind # "command" => NoCommands(Told(g, kind)))
BY DEF Told, Addressed, NoCommands

(* The same for all groups that have lost somebody.                        *)
LEMMA UpdatesQuiet ==
    ASSUME NEW gs, \A i \in DOMAIN gs : SyncPlayGroup(gs[i]), NEW gone
    PROVE  Addressed(Updates(gs, gone)) /\ NoCommands(Updates(gs, gone))
<1>1. ASSUME NEW m \in Updates(gs, gone)
      PROVE  m.to \in Sessions /\ m.kind # "command"
  <2>1. PICK i \in DOMAIN gs : m \in Told(gs[i], "update")
    BY DEF Updates
  <2>2. DOMAIN gs[i].members \subseteq Sessions
    BY GroupFields
  <2>3. Addressed(Told(gs[i], "update")) /\ NoCommands(Told(gs[i], "update"))
    BY <2>2, ToldQuiet
  <2> QED
    BY <2>1, <2>3 DEF Addressed, NoCommands
<1> QED
  BY <1>1 DEF Addressed, NoCommands

(* And for the answer to a session.                                        *)
LEMMA ResponseQuiet ==
    ASSUME NEW s \in Sessions, NEW g
    PROVE  Addressed(Response(s, g)) /\ NoCommands(Response(s, g))
BY DEF Response, Addressed, NoCommands

(* Steps that leave the groups and the messages alone.                     *)
LEMMA IdleStep ==
    ASSUME TypeOK, UNCHANGED <<groups, out, got>>
    PROVE  GoesOn /\ out' = out
<1>1. Sent' = Sent
  BY DEF Sent
<1>2. \A i \in DOMAIN groups : SyncPlayGroup(groups[i])
  BY DEF TypeOK
<1> QED
  BY <1>1, <1>2, SameIsSame DEF GoesOn, Follows

(* The removal of participants.                                            *)
LEMMA PruneStep ==
    ASSUME TypeOK, Courses, NEW r \in Requests, NEW gone, out[r] = {}, got' = got,
           groups' = Prune(groups, gone), Emit(r, Updates(groups', gone))
    PROVE  GoesOn /\ Addressed(out'[r])
<1>1. \A i \in DOMAIN groups : SyncPlayGroup(groups[i])
  BY DEF TypeOK
<1>2. \A i \in DOMAIN groups' : Follows(i)
  BY <1>1, PruneTyped DEF Follows
<1>3. PICK gs : gs = groups'
  OBVIOUS
<1>4. Addressed(Updates(gs, gone)) /\ NoCommands(Updates(gs, gone))
  BY <1>2, <1>3, UpdatesQuiet DEF Follows
<1>5. out' = [out EXCEPT ![r] = Updates(gs, gone)]
  BY <1>3 DEF Emit
<1>6. Sent' = Sent
  BY <1>4, <1>5, QuietEmit DEF Courses, NoCommands
<1>7. out'[r] = Updates(gs, gone)
  BY <1>5 DEF Courses
<1> QED
  BY <1>2, <1>4, <1>6, <1>7 DEF GoesOn

(* A group comes into being.                                               *)
LEMMA NewEffect ==
    ASSUME TypeOK, Courses, NEW r \in Requests, New(r)
    PROVE  Creates(r) /\ Addressed(out'[r])
<1> DEFINE s == By(r)
           gone == Leaving(s, {})
           left == Prune(groups, gone)
           g == [born |-> r, owner |-> UserOf[s], seq |-> 0, play |-> "Idle",
                 members |-> [t \in {s} |-> Participant(0)]]
<1>1. s \in Sessions /\ ask[r].op = "new" /\ out[r] = {} /\ todo[r] # <<>> /\ Head(todo[r]) = "act"
  BY Asked DEF By, New, Acts, At
<1>2. groups' = Put(left, ask[r].group, g) /\ got' = got
  BY DEF New
<1>3. out' = [out EXCEPT ![r] = Updates(left, gone) \cup Response(s, g)]
  BY DEF New, Emit
<1>4. todo'[r] = <<>>
  <2>1. todo[r] \in Scripts
    BY <1>1 DEF Courses
  <2>2. todo[r] = <<"act">>
    BY <1>1, <2>1 DEF Scripts
  <2>3. todo' = [todo EXCEPT ![r] = Tail(todo[r])]
    BY DEF New, Done, Goto
  <2> QED
    BY <2>2, <2>3 DEF Courses
<1>5. SyncPlayGroup(g) /\ g.born = r /\ g.seq = 0 /\ \A t \in DOMAIN g.members : g.members[t].since = 0
  <2> DEFINE f == [t \in {s} |-> Participant(0)]
  <2>1. f \in [{s} -> SyncPlayParticipant] /\ DOMAIN f = {s} /\ f[s].since = 0
    BY ParticipantTyped
  <2>2. UserOf[s] \in Owners /\ "Idle" \in AllPlayStates
    BY <1>1 DEF Owners, AllPlayStates
  <2> HIDE DEF f
  <2>3. PICK h : h = [born |-> r, owner |-> UserOf[s], seq |-> 0, play |-> "Idle", members |-> f]
    OBVIOUS
  <2>4. h.born = r /\ h.owner = UserOf[s] /\ h.seq = 0 /\ h.play = "Idle" /\ h.members = f
    BY <2>3
  <2>5. h = [born |-> h.born, owner |-> h.owner, seq |-> h.seq, play |-> h.play, members |-> h.members]
    BY <2>3, <2>4
  <2>6. SyncPlayGroup(h)
    BY <1>1, <2>1, <2>2, <2>4, <2>5, GroupMade
  <2>7. \A t \in DOMAIN h.members : h.members[t].since = 0
    BY <2>1, <2>4
  <2>8. g = h
    BY <2>3 DEF f
  <2> HIDE DEF g
  <2> QED
    BY <2>4, <2>6, <2>7, <2>8
<1>6. \A i \in DOMAIN left : i \in DOMAIN groups /\ SyncPlayGroup(left[i]) /\ SameCourse(left[i], groups[i])
  BY PruneTyped DEF TypeOK
<1> HIDE DEF g, left, gone
<1>7. /\ DOMAIN groups' = DOMAIN left \cup {ask[r].group} /\ groups'[ask[r].group] = g
      /\ \A i \in DOMAIN left \ {ask[r].group} : groups'[i] = left[i]
  BY <1>2 DEF Put
<1>8. PICK ms : ms = Updates(left, gone) \cup Response(s, g)
  OBVIOUS
<1>9. Addressed(ms) /\ NoCommands(ms)
  <2>1. Addressed(Updates(left, gone)) /\ NoCommands(Updates(left, gone))
    BY <1>6, UpdatesQuiet
  <2>2. Addressed(Response(s, g)) /\ NoCommands(Response(s, g))
    BY <1>1, ResponseQuiet
  <2> QED
    BY <1>8, <2>1, <2>2 DEF Addressed, NoCommands
<1>10. out' = [out EXCEPT ![r] = ms]
  BY <1>3, <1>8
<1>11. Sent' = Sent /\ out'[r] = ms
  BY <1>1, <1>2, <1>9, <1>10, QuietEmit DEF NoCommands, Courses
<1>12. \A j \in DOMAIN groups' \ {ask[r].group} : Follows(j)
  BY <1>6, <1>7 DEF Follows
<1> QED
  BY <1>1, <1>4, <1>5, <1>7, <1>9, <1>11, <1>12 DEF Creates

(* A session comes into a group, or finds none.                            *)
LEMMA JoinEffect ==
    ASSUME IInv, TypeOK, Courses, NEW r \in Requests, Join(r)
    PROVE  GoesOn /\ (out' = out \/ Addressed(out'[r]))
<1> DEFINE s == By(r)
           id == ask[r].group
           gone == Leaving(s, {id})
           left == Prune(groups, gone)
           g == Insert(left[id], s)
<1>1. s \in Sessions /\ out[r] = {} /\ got' = got
  BY Asked DEF By, Join, JoinTo, Acts, At
<1>2. CASE id \notin DOMAIN groups
  BY <1>1, <1>2, IdleStep DEF Join, JoinTo
<1>3. CASE id \in DOMAIN groups
  <2>1. /\ groups' = Put(left, id, g)
        /\ out' = [out EXCEPT ![r] = Updates(left, gone) \cup Told(g, "update") \cup Response(s, g)]
    BY <1>3 DEF Join, JoinTo, Emit
  <2>2. gone[id] = {}
    BY <1>3 DEF Leaving
  <2>3. id \in DOMAIN left
    <3>1. ~ DOMAIN groups[id].members \subseteq gone[id]
      <4>1. \E t : t \in DOMAIN groups[id].members
        BY <1>3 DEF IInv, Consistent
      <4> QED
        BY <2>2, <4>1
    <3> QED
      BY <1>3, <3>1 DEF Prune
  <2>4. \A i \in DOMAIN left : i \in DOMAIN groups /\ SyncPlayGroup(left[i]) /\ SameCourse(left[i], groups[i])
    BY PruneTyped DEF TypeOK
  <2>5. left[id] = groups[id]
    <3>1. \A i \in DOMAIN groups : SyncPlayGroup(groups[i])
      BY DEF TypeOK
    <3> HIDE DEF gone
    <3> QED
      BY <2>2, <2>3, <3>1, PruneTyped
  <2>6. SyncPlayGroup(g) /\ SameCourse(g, groups[id])
    BY <1>1, <2>3, <2>4, <2>5, InsertTyped
  <2> HIDE DEF g, left, gone
  <2>7. /\ DOMAIN groups' = DOMAIN left /\ groups'[id] = g
        /\ \A i \in DOMAIN left \ {id} : groups'[i] = left[i]
    BY <2>1, <2>3 DEF Put
  <2>8. PICK ms : ms = Updates(left, gone) \cup Told(g, "update") \cup Response(s, g)
    OBVIOUS
  <2>9. Addressed(ms) /\ NoCommands(ms)
    <3>1. Addressed(Updates(left, gone)) /\ NoCommands(Updates(left, gone))
      BY <2>4, UpdatesQuiet
    <3>2. Addressed(Response(s, g)) /\ NoCommands(Response(s, g))
      BY <1>1, ResponseQuiet
    <3>3. Addressed(Told(g, "update")) /\ NoCommands(Told(g, "update"))
      BY <2>6, ToldQuiet, GroupFields
    <3> QED
      BY <2>8, <3>1, <3>2, <3>3 DEF Addressed, NoCommands
  <2>10. out' = [out EXCEPT ![r] = ms]
    BY <2>1, <2>8
  <2>11. Sent' = Sent /\ out'[r] = ms
    BY <1>1, <2>9, <2>10, QuietEmit DEF NoCommands, Courses
  <2>12. \A j \in DOMAIN groups' : Follows(j)
    BY <2>3, <2>4, <2>6, <2>7 DEF Follows
  <2> QED
    BY <2>9, <2>11, <2>12 DEF GoesOn
<1> QED
  BY <1>2, <1>3

(* A ping refreshes its sender and tells its group.                        *)
LEMMA PingEffect ==
    ASSUME TypeOK, Courses, NEW r \in Requests, Ping(r)
    PROVE  GoesOn /\ Addressed(out'[r])
<1> DEFINE ms == UNION {Told(groups[i], "update") : i \in {j \in DOMAIN groups : Member(j, By(r))}}
<1>0. \A i \in DOMAIN groups : SyncPlayGroup(groups[i])
  BY DEF TypeOK
<1>1. /\ groups' = [i \in DOMAIN groups |->
                      IF Member(i, By(r)) THEN Refresh(groups[i], Refreshed(By(r), groups[i]))
                                          ELSE groups[i]]
      /\ out' = [out EXCEPT ![r] = ms] /\ got' = got /\ out[r] = {}
  BY DEF Ping, PingOf, Emit, Acts, At
<1>2. Addressed(ms) /\ NoCommands(ms)
  <2> SUFFICES ASSUME NEW m \in ms
               PROVE  m.to \in Sessions /\ m.kind # "command"
    BY DEF Addressed, NoCommands
  <2>1. PICK i \in DOMAIN groups : m \in Told(groups[i], "update")
    OBVIOUS
  <2>2. Addressed(Told(groups[i], "update")) /\ NoCommands(Told(groups[i], "update"))
    BY <1>0, GroupFields, ToldQuiet
  <2> QED
    BY <2>1, <2>2 DEF Addressed, NoCommands
<1> HIDE DEF ms
<1>3. Sent' = Sent /\ out'[r] = ms
  BY <1>1, <1>2, QuietEmit DEF NoCommands, Courses
<1>4. ASSUME NEW i \in DOMAIN groups'
      PROVE  Follows(i)
  <2>1. i \in DOMAIN groups
    BY <1>1
  <2>2. CASE Member(i, By(r))
    <3>1. groups'[i] = Refresh(groups[i], Refreshed(By(r), groups[i]))
      BY <1>1, <2>1, <2>2
    <3> QED
      BY <1>0, <2>1, <3>1, RefreshTyped DEF Follows
  <2>3. CASE ~Member(i, By(r))
    BY <1>0, <1>1, <2>1, <2>3, SameIsSame DEF Follows
  <2> QED
    BY <2>2, <2>3
<1> QED
  BY <1>2, <1>3, <1>4 DEF GoesOn

(* A command gets the next number of its group and goes to everybody in    *)
(* it, or its sender has no group.                                         *)
LEMMA CommandEffect ==
    ASSUME TypeOK, Courses, NEW r \in Requests, Command(r)
    PROVE  \/ GoesOn /\ out' = out
           \/ Addressed(out'[r]) /\ \E i \in DOMAIN groups : Proceeds(i)
<1>1. out[r] = {} /\ got' = got
  BY DEF Command, Acts, At
<1>2. CASE UNCHANGED <<groups, out>>
  BY <1>1, <1>2, IdleStep
<1>3. ASSUME NEW i \in DOMAIN groups, Member(i, By(r)),
             groups' = [groups EXCEPT ![i] = Commanded(@, ask[r])],
             Emit(r, Told(Commanded(groups[i], ask[r]), "command"))
      PROVE  Addressed(out'[r]) /\ Proceeds(i)
  <2>1. SyncPlayGroup(groups[i]) /\ ask[r].by \in DOMAIN groups[i].members /\ ask[r].flag \in BOOLEAN
    BY <1>3, Asked DEF TypeOK, Member, By
  <2>2. PICK h : h = Commanded(groups[i], ask[r])
    OBVIOUS
  <2>3. /\ SyncPlayGroup(h) /\ h.born = groups[i].born /\ h.seq = groups[i].seq + 1
        /\ DOMAIN h.members = DOMAIN groups[i].members
        /\ \A t \in DOMAIN groups[i].members : h.members[t].since = groups[i].members[t].since
    BY <2>1, <2>2, CommandedTyped
  <2>4. /\ DOMAIN groups' = DOMAIN groups /\ groups'[i] = h
        /\ \A j \in DOMAIN groups \ {i} : groups'[j] = groups[j]
    BY <1>3, <2>2
  <2>5. out' = [out EXCEPT ![r] = Told(h, "command")]
    BY <1>3, <2>2 DEF Emit
  <2>6. \A s \in Sessions : \A x :
          x \in Sent'[s] <=> x \in Sent[s] \/ (s \in DOMAIN h.members /\ x = Json(h))
    BY <1>1, <2>5, CommandTold DEF Courses
  <2>7. out'[r] = Told(h, "command")
    BY <2>5 DEF Courses
  <2>8. Addressed(Told(h, "command"))
    BY <2>3, GroupFields, ToldQuiet
  <2> QED
    BY <2>3, <2>4, <2>6, <2>7, <2>8 DEF Proceeds
<1> QED
  BY <1>2, <1>3 DEF Command

(* Time makes a participant stale.                                         *)
LEMMA AgeEffect ==
    ASSUME TypeOK, NEW s \in Sessions, Age(s)
    PROVE  GoesOn /\ out' = out
<1>1. PICK i \in DOMAIN groups :
        /\ Member(i, s) /\ groups' = [groups EXCEPT ![i].members[s].stale = TRUE]
        /\ UNCHANGED <<ask, revoked, todo, out, view, got>>
  BY DEF Age
<1>2. SyncPlayGroup(groups[i]) /\ s \in DOMAIN groups[i].members
  BY <1>1 DEF TypeOK, Member
<1>3. PICK h : h = [groups[i] EXCEPT !.members[s].stale = TRUE]
  OBVIOUS
<1>4. DOMAIN groups' = DOMAIN groups /\ groups'[i] = h /\ \A j \in DOMAIN groups \ {i} : groups'[j] = groups[j]
  BY <1>1, <1>3
<1>5. SyncPlayGroup(h) /\ SameCourse(h, groups[i])
  BY <1>2, <1>3, AgedTyped
<1>6. \A j \in DOMAIN groups' : Follows(j)
  BY <1>4, <1>5, SameIsSame DEF Follows, TypeOK
<1>7. Sent' = Sent
  BY <1>1 DEF Sent
<1> QED
  BY <1>1, <1>6, <1>7 DEF GoesOn

(* Every step is of one of these kinds, and messages go to sessions.       *)
LEMMA StepEffect ==
    ASSUME IInv, TypeOK, Courses, [Next]_vars
    PROVE  /\ GoesOn \/ (\E r \in Requests : Creates(r)) \/ (\E i \in DOMAIN groups : Proceeds(i))
           /\ \A q \in Requests : Addressed(out'[q])
<1>0. \A q \in Requests : Addressed(out[q])
  BY DEF TypeOK, Addressed
<1>1. CASE UNCHANGED vars
  BY <1>0, <1>1, IdleStep DEF vars
<1>2. ASSUME NEW s \in Sessions, Age(s)
      PROVE  GoesOn /\ \A q \in Requests : Addressed(out'[q])
  BY <1>0, <1>2, AgeEffect
<1>3. ASSUME NEW r \in Requests, Step(r)
      PROVE  /\ GoesOn \/ Creates(r) \/ (\E i \in DOMAIN groups : Proceeds(i))
             /\ Addressed(out'[r]) \/ out' = out
  <2>1. CASE Authenticate(r) \/ Again(r) \/ Revoke(r)
    BY <2>1, IdleStep DEF Authenticate, Again, Revoke
  <2>2. CASE Send(r)
    <3>1. Sent' = Sent
      BY <2>2, SendQuiet DEF TypeOK
    <3>2. groups' = groups /\ out'[r] \subseteq out[r]
      BY <2>2 DEF Send, Emit, Courses
    <3>3. GoesOn
      BY <3>1, <3>2, SameIsSame DEF GoesOn, Follows, TypeOK
    <3>4. Addressed(out'[r])
      BY <1>0, <3>2 DEF Addressed
    <3> QED
      BY <3>3, <3>4
  <2>3. CASE Sweep(r)
    BY <2>3, PruneStep DEF Sweep, At
  <2>4. CASE Leave(r)
    BY <2>4, PruneStep DEF Leave, Acts, At
  <2>5. CASE New(r)
    BY <2>5, NewEffect
  <2>6. CASE Join(r)
    BY <2>6, JoinEffect
  <2>7. CASE Ping(r)
    BY <2>7, PingEffect
  <2>8. CASE Command(r)
    BY <2>8, CommandEffect
  <2> QED
    BY <1>3, <2>1, <2>2, <2>3, <2>4, <2>5, <2>6, <2>7, <2>8 DEF Step
<1>4. ASSUME NEW r \in Requests, Step(r)
      PROVE  \A q \in Requests : q # r => out'[q] = out[q]
  BY <1>4 DEF Courses, Step, Authenticate, Again, Revoke, Send, Sweep, Leave, New, Join, JoinTo, Ping,
         PingOf, Command, Emit
<1>5. ASSUME NEW r \in Requests, Step(r)
      PROVE  \A q \in Requests : Addressed(out'[q])
  BY <1>0, <1>3, <1>4, <1>5
<1> QED
  BY <1>1, <1>2, <1>3, <1>5 DEF Next

-----------------------------------------------------------------------------
(* The course of requests, and the invariant.                              *)

(* What a request that creates groups has left to do.                      *)
LEMMA TailOfScript ==
    ASSUME NEW c \in Scripts, c # <<>>
    PROVE  Tail(c) \in Scripts
<1>1. Tail(<<"act">>) = <<>>
  OBVIOUS
<1>2. Tail(<<"sweep", "act">>) = <<"act">>
  OBVIOUS
<1>3. Tail(<<"auth", "sweep", "act">>) = <<"sweep", "act">>
  OBVIOUS
<1>4. c \in {<<"act">>, <<"sweep", "act">>, <<"auth", "sweep", "act">>}
  BY DEF Scripts
<1> QED
  BY <1>1, <1>2, <1>3, <1>4 DEF Scripts

(* One request is on its way at a time, and goes on.                       *)
LEMMA TodoEdit ==
    ASSUME NEW r \in Requests, Step(r)
    PROVE  \/ todo' = todo
           \/ todo[r] # <<>> /\ todo' = [todo EXCEPT ![r] = <<>>]
           \/ todo[r] # <<>> /\ todo' = [todo EXCEPT ![r] = Tail(todo[r])]
           \/ ask[r].again /\ todo' = [todo EXCEPT ![r] = Script[ask[r].op]]
<1>1. CASE Authenticate(r)
  BY <1>1 DEF Authenticate, At, Goto
<1>2. CASE Send(r) \/ Again(r)
  BY <1>2 DEF Send, Again, Goto
<1>3. CASE Sweep(r) \/ New(r) \/ Leave(r) \/ Revoke(r) \/ Ping(r)
  BY <1>3 DEF Sweep, New, Leave, Revoke, Ping, PingOf, Acts, At, Done, Goto
<1>4. CASE Join(r)
  BY <1>4 DEF Join, JoinTo, Acts, At, Done, Goto
<1>5. CASE Command(r)
  BY <1>5 DEF Command, Acts, At, Done, Goto
<1> QED
  BY <1>1, <1>2, <1>3, <1>4, <1>5 DEF Step

(* What no step changes: the requests, and who there is.                   *)
LEMMA Frame ==
    ASSUME [Next]_vars
    PROVE  /\ ask' = ask /\ DOMAIN todo' = DOMAIN todo
           /\ DOMAIN out' = DOMAIN out /\ DOMAIN got' = DOMAIN got
<1>1. CASE UNCHANGED vars
  BY <1>1 DEF vars
<1>2. ASSUME NEW s \in Sessions, Age(s)
      PROVE  UNCHANGED <<ask, todo, out, got>>
  BY <1>2 DEF Age
<1>3. ASSUME NEW r \in Requests, Step(r)
      PROVE  ask' = ask /\ DOMAIN out' = DOMAIN out /\ DOMAIN got' = DOMAIN got
  BY <1>3 DEF Step, Authenticate, Again, Revoke, Send, Sweep, Leave, New, Join, JoinTo, Ping,
         PingOf, Command, Emit
<1>4. ASSUME NEW r \in Requests, Step(r)
      PROVE  DOMAIN todo' = DOMAIN todo
  BY <1>4, TodoEdit
<1> QED
  BY <1>1, <1>2, <1>3, <1>4 DEF Next

(* A request that is to create a group follows its script, and one that is *)
(* over stays so.                                                          *)
LEMMA CoursesKept ==
    ASSUME TypeOK, Courses, [Next]_vars
    PROVE  /\ Courses'
           /\ \A r \in Requests : ask[r].op = "new" /\ todo'[r] # <<>> => todo[r] # <<>>
<1>1. /\ ask' = ask /\ DOMAIN todo' = Requests /\ DOMAIN todo = Requests
      /\ DOMAIN out' = Requests /\ DOMAIN got' = Sessions
  BY Frame DEF Courses
<1>2. ASSUME NEW q \in Requests, ask[q].op = "new"
      PROVE  todo'[q] \in Scripts /\ (todo'[q] # <<>> => todo[q] # <<>>)
  <2>1. todo[q] \in Scripts /\ ~ask[q].again /\ <<>> \in Scripts
    BY <1>2, Asked DEF Courses, Scripts
  <2>2. CASE todo' = todo
    BY <2>1, <2>2
  <2>3. ASSUME NEW r \in Requests, Step(r)
        PROVE  todo'[q] \in Scripts /\ (todo'[q] # <<>> => todo[q] # <<>>)
    BY <1>1, <2>1, <2>3, TodoEdit, TailOfScript
  <2>4. ASSUME NEW s \in Sessions, Age(s)
        PROVE  todo' = todo
    BY <2>4 DEF Age
  <2> QED
    BY <2>2, <2>3, <2>4 DEF Next, vars
<1> QED
  BY <1>1, <1>2 DEF Courses

(* The parts of a description of a group.                                  *)
LEMMA JsonFields ==
    ASSUME NEW g
    PROVE  Json(g).born = g.born /\ Json(g).seq = g.seq /\ Json(g).play = g.play
BY DEF Json

(* Groups that go on keep their numbers in order.                          *)
LEMMA GoesOnKeeps ==
    ASSUME TypeOK, NInv, GoesOn, ask' = ask,
           \A r \in Requests : ask[r].op = "new" /\ todo'[r] # <<>> => todo[r] # <<>>
    PROVE  Numbered' /\ Determined' /\ Bounded' /\ Received' /\ BornOnce' /\ Undrawn'
<1>1. Sent' = Sent /\ \A i \in DOMAIN groups' : Follows(i)
  BY DEF GoesOn
<1>2. Numbered' /\ Determined'
  BY <1>1 DEF NInv, Numbered, Determined
<1>3. \A i \in DOMAIN groups' :
        /\ i \in DOMAIN groups /\ groups'[i].born = groups[i].born
        /\ groups'[i].seq = groups[i].seq /\ groups'[i].play = groups[i].play
  BY <1>1 DEF Follows, SameCourse
<1>4. Bounded'
  BY <1>1, <1>3 DEF NInv, Bounded
<1>5. BornOnce'
  BY <1>3 DEF NInv, BornOnce
<1>6. Undrawn'
  BY <1>1, <1>3 DEF NInv, Undrawn
<1>7. Received'
  <2> SUFFICES ASSUME NEW i \in DOMAIN groups', NEW s \in DOMAIN groups'[i].members,
                      NEW k \in (groups'[i].members[s].since + 1)..groups'[i].seq
               PROVE  \E m \in Sent'[s] : m.born = groups'[i].born /\ m.seq = k
    BY DEF Received
  <2>1. SyncPlayGroup(groups[i]) /\ groups[i].seq \in Nat
    BY <1>3, GroupFields DEF TypeOK
  <2>2. \/ groups'[i].members[s].since = groups[i].seq
        \/ s \in DOMAIN groups[i].members /\ groups'[i].members[s].since = groups[i].members[s].since
    BY <1>1 DEF Follows, SameCourse
  <2>3. groups'[i].members[s].since # groups[i].seq
    BY <1>3, <2>1
  <2> QED
    BY <1>1, <1>3, <2>2, <2>3 DEF NInv, Received
<1> QED
  BY <1>2, <1>4, <1>5, <1>6, <1>7

(* A new group starts with no number, and none is about for it.            *)
LEMMA CreatesKeeps ==
    ASSUME TypeOK, NInv, NEW r \in Requests, Creates(r), ask' = ask,
           \A q \in Requests : ask[q].op = "new" /\ todo'[q] # <<>> => todo[q] # <<>>
    PROVE  Numbered' /\ Determined' /\ Bounded' /\ Received' /\ BornOnce' /\ Undrawn'
<1>1. PICK i \in DOMAIN groups' :
        /\ \A j \in DOMAIN groups' \ {i} : Follows(j)
        /\ SyncPlayGroup(groups'[i]) /\ groups'[i].born = r /\ groups'[i].seq = 0
        /\ \A s \in DOMAIN groups'[i].members : groups'[i].members[s].since = 0
  BY DEF Creates
<1>2. Sent' = Sent /\ ask[r].op = "new" /\ todo[r] # <<>> /\ todo'[r] = <<>>
  BY DEF Creates
<1>3. /\ \A j \in DOMAIN groups : groups[j].born # r
      /\ \A s \in Sessions : \A m \in Sent[s] : m.born # r
  BY <1>2 DEF NInv, Undrawn
<1>4. \A j \in DOMAIN groups' \ {i} :
        /\ j \in DOMAIN groups /\ groups'[j].born = groups[j].born
        /\ groups'[j].seq = groups[j].seq /\ groups'[j].play = groups[j].play
  BY <1>1 DEF Follows, SameCourse
<1>5. Numbered' /\ Determined'
  BY <1>2 DEF NInv, Numbered, Determined
<1>6. Bounded'
  BY <1>1, <1>2, <1>3, <1>4 DEF NInv, Bounded
<1>7. BornOnce'
  BY <1>1, <1>3, <1>4 DEF NInv, BornOnce
<1>8. Undrawn'
  BY <1>1, <1>2, <1>4 DEF NInv, Undrawn
<1>9. Received'
  <2> SUFFICES ASSUME NEW j \in DOMAIN groups', NEW s \in DOMAIN groups'[j].members,
                      NEW k \in (groups'[j].members[s].since + 1)..groups'[j].seq
               PROVE  \E m \in Sent'[s] : m.born = groups'[j].born /\ m.seq = k
    BY DEF Received
  <2>0. j # i
    BY <1>1
  <2>1. SyncPlayGroup(groups[j]) /\ groups[j].seq \in Nat
    BY <1>4, <2>0, GroupFields DEF TypeOK
  <2>2. \/ groups'[j].members[s].since = groups[j].seq
        \/ s \in DOMAIN groups[j].members /\ groups'[j].members[s].since = groups[j].members[s].since
    BY <1>1, <2>0 DEF Follows, SameCourse
  <2>3. groups'[j].members[s].since # groups[j].seq
    BY <1>4, <2>0, <2>1
  <2> QED
    BY <1>2, <1>4, <2>0, <2>2, <2>3 DEF NInv, Received
<1> QED
  BY <1>5, <1>6, <1>7, <1>8, <1>9

(* A command gets a number above all that are about for its group.         *)
LEMMA ProceedsKeeps ==
    ASSUME TypeOK, NInv, NEW i \in DOMAIN groups, Proceeds(i), ask' = ask,
           \A q \in Requests : ask[q].op = "new" /\ todo'[q] # <<>> => todo[q] # <<>>
    PROVE  Numbered' /\ Determined' /\ Bounded' /\ Received' /\ BornOnce' /\ Undrawn'
<1> DEFINE h == groups'[i]
           x == Json(h)
<1>1. /\ DOMAIN groups' = DOMAIN groups
      /\ \A j \in DOMAIN groups \ {i} : groups'[j] = groups[j]
      /\ SyncPlayGroup(h) /\ h.born = groups[i].born /\ h.seq = groups[i].seq + 1
      /\ DOMAIN h.members = DOMAIN groups[i].members
      /\ \A s \in DOMAIN groups[i].members : h.members[s].since = groups[i].members[s].since
  BY DEF Proceeds
<1>2. \A s \in Sessions : \A y : y \in Sent'[s] <=> y \in Sent[s] \/ (s \in DOMAIN h.members /\ y = x)
  BY DEF Proceeds
<1>3. x.born = groups[i].born /\ x.seq = groups[i].seq + 1 /\ x.play = h.play
  BY <1>1, JsonFields
<1>4. SyncPlayGroup(groups[i]) /\ groups[i].seq \in Nat /\ DOMAIN groups[i].members \subseteq Sessions
  BY GroupFields DEF TypeOK
<1> HIDE DEF h, x
<1>5. \A s \in Sessions : \A m \in Sent[s] :
        m.seq \in Nat /\ (m.born = groups[i].born => m.seq <= groups[i].seq)
  BY DEF NInv, Bounded, Numbered
<1>6. \A s \in Sessions : \A m \in Sent'[s] : m \in Sent[s] \/ m = x
  BY <1>2
<1>7. Numbered'
  BY <1>3, <1>4, <1>5, <1>6 DEF Numbered
<1>8. Determined'
  <2> SUFFICES ASSUME NEW s \in Sessions, NEW t \in Sessions, NEW m \in Sent'[s], NEW n \in Sent'[t],
                      m.born = n.born, m.seq = n.seq
               PROVE  m = n
    BY DEF Determined
  <2>1. CASE m \in Sent[s] /\ n \in Sent[t]
    BY <2>1 DEF NInv, Determined
  <2>2. CASE m = x /\ n \in Sent[t]
    BY <1>3, <1>4, <1>5, <2>2
  <2>3. CASE n = x /\ m \in Sent[s]
    BY <1>3, <1>4, <1>5, <2>3
  <2> QED
    BY <1>6, <2>1, <2>2, <2>3
<1>9. Bounded'
  <2> SUFFICES ASSUME NEW j \in DOMAIN groups', NEW s \in Sessions, NEW m \in Sent'[s],
                      m.born = groups'[j].born
               PROVE  m.seq <= groups'[j].seq /\ (m.seq = groups'[j].seq => m.play = groups'[j].play)
    BY DEF Bounded
  <2>1. CASE j = i
    <3>1. groups'[j] = h
      BY <2>1 DEF h
    <3>2. CASE m = x
      BY <1>1, <1>3, <1>4, <3>1, <3>2
    <3>3. CASE m \in Sent[s]
      BY <1>1, <1>4, <1>5, <3>1, <3>3
    <3> QED
      BY <1>6, <3>2, <3>3
  <2>2. CASE j # i
    <3>1. groups'[j] = groups[j] /\ j \in DOMAIN groups
      BY <1>1, <2>2
    <3>2. m # x
      BY <1>3, <2>2, <3>1 DEF NInv, BornOnce
    <3> QED
      BY <1>6, <3>1, <3>2 DEF NInv, Bounded
  <2> QED
    BY <2>1, <2>2
<1>10. \A j \in DOMAIN groups' : j \in DOMAIN groups /\ groups'[j].born = groups[j].born
  BY <1>1 DEF h
<1>11. BornOnce'
  BY <1>10 DEF NInv, BornOnce
<1>12. Undrawn'
  <2> SUFFICES ASSUME NEW r \in Requests, ask[r].op = "new", todo'[r] # <<>>
               PROVE  /\ \A j \in DOMAIN groups' : groups'[j].born # r
                      /\ \A s \in Sessions : \A m \in Sent'[s] : m.born # r
    BY DEF Undrawn
  <2>1. /\ \A j \in DOMAIN groups : groups[j].born # r
        /\ \A s \in Sessions : \A m \in Sent[s] : m.born # r
    BY DEF NInv, Undrawn
  <2> QED
    BY <1>3, <1>6, <1>10, <2>1
<1>13. Received'
  <2> SUFFICES ASSUME NEW j \in DOMAIN groups', NEW s \in DOMAIN groups'[j].members,
                      NEW k \in (groups'[j].members[s].since + 1)..groups'[j].seq
               PROVE  \E m \in Sent'[s] : m.born = groups'[j].born /\ m.seq = k
    BY DEF Received
  <2>1. CASE j = i
    <3>1. groups'[j] = h /\ s \in DOMAIN groups[i].members /\ s \in Sessions
      BY <1>1, <1>4, <2>1 DEF h
    <3>2. CASE k = h.seq
      BY <1>1, <1>2, <1>3, <3>1, <3>2
    <3>3. CASE k # h.seq
      <4>1. groups[i].members[s].since \in Nat
        BY <1>4, <3>1, GroupFields DEF SyncPlayParticipant
      <4>2. k \in (groups[i].members[s].since + 1)..groups[i].seq
        BY <1>1, <1>4, <3>1, <3>3, <4>1
      <4>3. PICK m \in Sent[s] : m.born = groups[i].born /\ m.seq = k
        BY <3>1, <4>2 DEF NInv, Received
      <4> QED
        BY <1>1, <1>2, <3>1, <4>3
    <3> QED
      BY <3>2, <3>3
  <2>2. CASE j # i
    <3>1. groups'[j] = groups[j] /\ j \in DOMAIN groups /\ s \in Sessions
      BY <1>1, <2>2, GroupFields DEF TypeOK
    <3>2. PICK m \in Sent[s] : m.born = groups[j].born /\ m.seq = k
      BY <3>1 DEF NInv, Received
    <3> QED
      BY <1>2, <3>1, <3>2
  <2> QED
    BY <2>1, <2>2
<1> QED
  BY <1>7, <1>8, <1>9, <1>11, <1>12, <1>13

(* The groups that go on, or come, are typed.                              *)
LEMMA TypeKept ==
    ASSUME IInv, IInv', TypeOK, Courses, [Next]_vars
    PROVE  TypeOK'
<1>1. ask' = ask
  BY Frame
<1>2. DOMAIN groups' \subseteq GroupIds
  BY DEF IInv, Consistent
<1>3. revoked' \subseteq Sessions
  <2>1. CASE UNCHANGED vars
    BY <2>1 DEF vars, TypeOK
  <2>2. ASSUME NEW s \in Sessions, Age(s)
        PROVE  revoked' = revoked
    BY <2>2 DEF Age
  <2>3. ASSUME NEW r \in Requests, Step(r)
        PROVE  revoked' = revoked \/ revoked' = revoked \cup {ask[r].by}
    BY <2>3 DEF Step, Authenticate, Again, Revoke, By, Send, Sweep, Leave, New, Join, JoinTo, Ping,
           PingOf, Command
  <2> QED
    BY <2>1, <2>2, <2>3, Asked DEF Next, TypeOK
<1>4. \A r \in Requests : \A m \in out'[r] : m.to \in Sessions
  BY StepEffect DEF Addressed
<1>5. ASSUME NEW i \in DOMAIN groups', Follows(i)
      PROVE  /\ SyncPlayGroup(groups'[i])
             /\ \A s \in DOMAIN groups'[i].members : groups'[i].members[s].since <= groups'[i].seq
  <2>1. /\ i \in DOMAIN groups /\ SyncPlayGroup(groups[i]) /\ groups[i].seq \in Nat
        /\ \A s \in DOMAIN groups[i].members : groups[i].members[s].since <= groups[i].seq
    BY <1>5, GroupFields DEF Follows, TypeOK
  <2> QED
    BY <1>5, <2>1 DEF Follows, SameCourse
<1>6. ASSUME NEW i \in DOMAIN groups'
      PROVE  /\ SyncPlayGroup(groups'[i])
             /\ \A s \in DOMAIN groups'[i].members : groups'[i].members[s].since <= groups'[i].seq
  <2>1. CASE GoesOn
    BY <1>5, <2>1 DEF GoesOn
  <2>2. ASSUME NEW r \in Requests, Creates(r)
        PROVE  /\ SyncPlayGroup(groups'[i])
               /\ \A s \in DOMAIN groups'[i].members : groups'[i].members[s].since <= groups'[i].seq
    BY <1>5, <2>2 DEF Creates
  <2>3. ASSUME NEW j \in DOMAIN groups, Proceeds(j)
        PROVE  /\ SyncPlayGroup(groups'[i])
               /\ \A s \in DOMAIN groups'[i].members : groups'[i].members[s].since <= groups'[i].seq
    <3>1. CASE i # j
      BY <2>3, <3>1 DEF Proceeds, TypeOK
    <3>2. CASE i = j
      <4>1. /\ SyncPlayGroup(groups[i]) /\ groups[i].seq \in Nat
            /\ \A s \in DOMAIN groups[i].members :
                 groups[i].members[s].since \in Nat /\ groups[i].members[s].since <= groups[i].seq
        BY <3>2, GroupFields DEF TypeOK, SyncPlayParticipant
      <4> QED
        BY <2>3, <3>2, <4>1 DEF Proceeds
    <3> QED
      BY <3>1, <3>2
  <2> QED
    BY <2>1, <2>2, <2>3, StepEffect
<1> QED
  BY <1>1, <1>2, <1>3, <1>4, <1>6 DEF TypeOK

(* At the start nothing has been sent.                                     *)
LEMMA InitNInv == Init => TypeOK /\ NInv
<1> SUFFICES ASSUME Init
             PROVE  TypeOK /\ NInv
  OBVIOUS
<1>1. PICK c \in Casts : ask = c.ask /\ groups = c.groups
  BY DEF Init
<1>2. /\ revoked = {} /\ todo = [r \in Requests |-> Script[ask[r].op]]
      /\ out = [r \in Requests |-> {}] /\ got = [s \in Sessions |-> {}]
  BY DEF Init
<1>3. /\ DOMAIN groups \subseteq GroupIds
      /\ \A i \in DOMAIN groups :
          /\ SyncPlayGroup(groups[i]) /\ ask[groups[i].born].op # "new"
          /\ \A s \in DOMAIN groups[i].members : groups[i].members[s].since = groups[i].seq
          /\ \A j \in DOMAIN groups : groups[i].born = groups[j].born => i = j
  BY <1>1, CastsTyped DEF Consistent
<1>4. \A i \in DOMAIN groups : groups[i].seq \in Nat
  BY <1>3, GroupFields
<1>5. TypeOK
  BY <1>1, <1>2, <1>3, <1>4 DEF TypeOK
<1>6. \A s \in Sessions : Sent[s] = {}
  BY <1>2, SentMembers DEF SentIs
<1>7. Courses
  BY <1>2 DEF Courses, Script, Scripts
<1>8. Received
  BY <1>3, <1>4 DEF Received
<1>9. Numbered /\ Determined /\ Bounded /\ Undrawn
  BY <1>3, <1>6 DEF Numbered, Determined, Bounded, Undrawn
<1>10. BornOnce
  BY <1>3 DEF BornOnce
<1> QED
  BY <1>5, <1>7, <1>8, <1>9, <1>10 DEF NInv

(* Every step keeps types and numbers.                                     *)
LEMMA NextNInv ==
    ASSUME IInv, IInv', TypeOK, NInv, [Next]_vars
    PROVE  TypeOK' /\ NInv'
<1>1. Courses /\ ask' = ask
  BY Frame DEF NInv
<1>2. TypeOK'
  BY <1>1, TypeKept
<1>3. Courses' /\ \A r \in Requests : ask[r].op = "new" /\ todo'[r] # <<>> => todo[r] # <<>>
  BY <1>1, CoursesKept
<1>4. Numbered' /\ Determined' /\ Bounded' /\ Received' /\ BornOnce' /\ Undrawn'
  BY <1>1, <1>3, StepEffect, GoesOnKeeps, CreatesKeeps, ProceedsKeeps
<1> QED
  BY <1>2, <1>3, <1>4 DEF NInv

(* Requests, groups and messages stay well-typed, no participant is ready  *)
(* and buffering at once, and the numbers of commands keep their order.    *)
THEOREM SpecNInv == Spec => [](TypeOK /\ NInv)
<1>1. IInv /\ IInv' /\ TypeOK /\ NInv /\ [Next]_vars => TypeOK' /\ NInv'
  BY NextNInv
<1> QED
  BY <1>1, InitNInv, SpecIInv, PTL DEF Spec

(* The type invariant, for any sessions, groups and requests.              *)
THEOREM SpecTypeOK == Spec => []TypeOK
BY SpecNInv, PTL

(* Whatever the order in which the commands of syncplay_group_command      *)
(* reach a participant, their numbers are those of the lock's order: none  *)
(* is missing since it came in, none is there twice, and the highest one   *)
(* carries the play state of the group.                                    *)
THEOREM SpecNumbersRestoreOrder == Spec => []NumbersRestoreOrder
<1>1. TypeOK /\ NInv => NumbersRestoreOrder
  <2> SUFFICES ASSUME TypeOK, NInv, NEW i \in DOMAIN groups, NEW s \in DOMAIN groups[i].members
               PROVE  LET g == groups[i]
                          mine == CommandsFor(s, g)
                      IN  /\ (g.members[s].since + 1)..g.seq \subseteq {m.seq : m \in mine}
                          /\ \A m, n \in mine : m.seq = n.seq => m = n
                          /\ \A m \in mine : m.seq <= g.seq /\ (m.seq = g.seq => m.play = g.play)
    BY DEF NumbersRestoreOrder
  <2> DEFINE g == groups[i]
             mine == CommandsFor(s, g)
  <2>1. s \in Sessions
    BY GroupFields DEF TypeOK
  <2>2. ASSUME NEW x
        PROVE  x \in mine <=> x \in Sent[s] /\ x.born = g.born
    <3>1. x \in mine <=>
            \/ x \in got[s] /\ x.born = g.born
            \/ \E r \in Requests : \E m \in out[r] :
                 m.to = s /\ m.kind = "command" /\ m.group.born = g.born /\ m.group = x
      BY DEF CommandsFor
    <3>2. x \in Sent[s] <=>
            \/ x \in got[s]
            \/ \E r \in Requests : \E m \in out[r] : m.to = s /\ m.kind = "command" /\ m.group = x
      BY <2>1, SentMembers DEF SentIs
    <3> QED
      BY <3>1, <3>2
  <2> HIDE DEF mine
  <2>3. (g.members[s].since + 1)..g.seq \subseteq {m.seq : m \in mine}
    BY <2>2 DEF NInv, Received
  <2>4. \A m, n \in mine : m.seq = n.seq => m = n
    BY <2>1, <2>2 DEF NInv, Determined
  <2>5. \A m \in mine : m.seq <= g.seq /\ (m.seq = g.seq => m.play = g.play)
    BY <2>1, <2>2 DEF NInv, Bounded
  <2> QED
    BY <2>3, <2>4, <2>5 DEF mine
<1> QED
  BY <1>1, SpecNInv, PTL
=============================================================================
