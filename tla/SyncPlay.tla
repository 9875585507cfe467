------------------------------ MODULE SyncPlay ------------------------------
(***************************************************************************)
(* SyncPlay groups: create, join, leave, ping, playback commands, the lazy *)
(* removal of stale participants, and the logout that leaves and then      *)
(* revokes the token.  All groups are behind one lock.  A handler runs one *)
(* or two sections under that lock and, after each, broadcasts what it has *)
(* computed inside: the sections are atomic here, every message is a step. *)
(*                                                                         *)
(* A session is an access token.  The clock appears as a flag per          *)
(* participant, set when more than the stale time-out has passed since it  *)
(* was last seen.  Queue, positions and time line of a group are left out, *)
(* the play state stands for them; users without SyncPlay access are       *)
(* refused before anything happens and do not appear.                      *)
(***************************************************************************)
EXTENDS Naturals, Sequences

CONSTANTS
    Sessions,    \* access tokens
    UserOf,      \* the user of a session
    DeviceOf,    \* its device
    Rank,        \* the order of the session ids
    GroupIds,
    Requests,
    Casts        \* what each request asks for, and the groups it meets

ASSUME RankOrders ==
    /\ Rank \in [Sessions -> Nat]
    /\ \A s, t \in Sessions : Rank[s] = Rank[t] => s = t

(* Groups as the handlers keep them: an owner among the participants, no   *)
(* session in two of them.                                                 *)
Consistent(gs) ==
    /\ DOMAIN gs \subseteq GroupIds
    /\ \A i \in DOMAIN gs :
        /\ {"members", "owner"} \subseteq DOMAIN gs[i]
        /\ DOMAIN gs[i].members \subseteq Sessions
        /\ \E s \in DOMAIN gs[i].members : UserOf[s] = gs[i].owner
    /\ \A i, j \in DOMAIN gs :
        \A s \in DOMAIN gs[i].members : s \in DOMAIN gs[j].members => i = j

Operations == {"none", "list", "new", "join", "leave", "logout", "ping", "command"}

(* The PlayStates that commands set; other commands leave the state alone. *)
PlayStates ==
    [play |-> "Playing", pause |-> "Paused", unpause |-> "Playing", seek |-> "Seeking",
     buffering |-> "Buffering", stop |-> "Stopped", queue |-> "Queued",
     setnewqueue |-> "Queued"]

(* A participant just inserted; since is the history of its first number.  *)
Participant(seq) == [ready |-> FALSE, buffering |-> FALSE, stale |-> FALSE, since |-> seq]

(* No participant is ready and buffering at once.                          *)
SyncPlayParticipant ==
    {p \in [ready : BOOLEAN, buffering : BOOLEAN, stale : BOOLEAN, since : Nat] :
        ~(p.ready /\ p.buffering)}

Owners == {UserOf[s] : s \in Sessions}
AllPlayStates == {"Idle"} \cup {PlayStates[v] : v \in DOMAIN PlayStates}

(* A group with its participants; born is history, the request that        *)
(* created it.                                                             *)
SyncPlayGroup(g) ==
    /\ g \in [born : Requests, owner : Owners, seq : Nat, play : AllPlayStates, members : {g.members}]
    /\ DOMAIN g.members \subseteq Sessions
    /\ g.members \in [DOMAIN g.members -> SyncPlayParticipant]

(* A request creates at most one group.  The groups there are at the start *)
(* were created by requests that are over, and none of their participants  *)
(* has missed a command.                                                   *)
ASSUME CastsTyped ==
    \A c \in Casts :
        /\ \A r \in Requests :
            /\ c.ask[r].by \in Sessions /\ c.ask[r].group \in GroupIds
            /\ c.ask[r].op \in Operations /\ c.ask[r].flag \in BOOLEAN
            /\ c.ask[r].op = "new" => ~c.ask[r].again
        /\ Consistent(c.groups)
        /\ \A i \in DOMAIN c.groups :
            /\ SyncPlayGroup(c.groups[i])
            /\ c.ask[c.groups[i].born].op # "new"
            /\ \A s \in DOMAIN c.groups[i].members : c.groups[i].members[s].since = c.groups[i].seq
            /\ \A j \in DOMAIN c.groups : c.groups[i].born = c.groups[j].born => i = j

VARIABLES
    ask,         \* request -> operation, session, group id, command
    groups,      \* SYNCPLAY_GROUPS: a function on the ids in use
    revoked,     \* tokens that authenticate no more
    todo,        \* the sections a request still has to run
    out,         \* the messages it has still to send
    view,        \* the last group description a session has received, if any
    got          \* history: the commands a session has received

vars == <<ask, groups, revoked, todo, out, view, got>>

(* What PlayState a command leaves behind.                                 *)
PlayState(g, verb) == IF verb \in DOMAIN PlayStates THEN PlayStates[verb] ELSE g.play

(* syncplay_group_json: what a client is told.  born, the request that     *)
(* created the group, tells apart groups that follow each other under one  *)
(* id.                                                                     *)
Json(g) ==
    [born |-> g.born, owner |-> g.owner, seq |-> g.seq, play |-> g.play,
     members |-> [s \in DOMAIN g.members |->
                     [ready |-> g.members[s].ready, buffering |-> g.members[s].buffering]]]

Member(i, s) == i \in DOMAIN groups /\ s \in DOMAIN groups[i].members
By(r) == ask[r].by

-----------------------------------------------------------------------------
(* Taking participants out of groups.                                      *)

First(S) == CHOOSE s \in S : \A t \in S : Rank[s] <= Rank[t]

Keep(f, S) == [s \in S |-> f[s]]
Put(f, x, v) == [y \in DOMAIN f \cup {x} |-> IF y = x THEN v ELSE f[y]]

(* Mutant: the owner stays owner. *)
WithoutOwnerKept(g, S) == [g EXCEPT !.members = Keep(g.members, DOMAIN g.members \ S)]

(* A group without the sessions in S, some others remaining: when one of   *)
(* the owner's sessions goes, the first participant left becomes owner.    *)
Without(g, S) ==
    LET left == DOMAIN g.members \ S IN
    [g EXCEPT !.members = Keep(g.members, left),
              !.owner = IF \E s \in S : UserOf[s] = g.owner THEN UserOf[First(left)] ELSE g.owner]

(* Groups gs less the participants gone[i] of each: empty ones are removed. *)
Prune(gs, gone) ==
    [i \in {i \in DOMAIN gs : ~ DOMAIN gs[i].members \subseteq gone[i]} |->
        IF gone[i] = {} THEN gs[i] ELSE Without(gs[i], gone[i])]

(* syncplay_detach_session_from_groups: all groups but the excepted ones.  *)
Leaving(s, except) ==
    [i \in DOMAIN groups |-> IF i \in except THEN {} ELSE {s} \cap DOMAIN groups[i].members]

(* syncplay_cleanup_stale_participants.                                    *)
Stale == [i \in DOMAIN groups |-> {s \in DOMAIN groups[i].members : groups[i].members[s].stale}]

-----------------------------------------------------------------------------
(* Messages and the course of a request.                                   *)

Told(g, kind) == {[to |-> s, kind |-> kind, group |-> Json(g)] : s \in DOMAIN g.members}

(* The updates for the groups gs that have lost somebody and live on.      *)
Updates(gs, gone) == UNION {Told(gs[i], "update") : i \in {j \in DOMAIN gs : gone[j] # {}}}

Response(s, g) == {[to |-> s, kind |-> "response", group |-> Json(g)]}

Script ==
    [none |-> <<>>, list |-> <<"auth", "sweep">>, new |-> <<"auth", "sweep", "act">>,
     join |-> <<"auth", "sweep", "act">>, leave |-> <<"auth", "act">>,
     logout |-> <<"auth", "act", "revoke">>, ping |-> <<"auth", "act", "sweep">>,
     command |-> <<"auth", "act", "sweep">>]

Busy(r) == todo[r] # <<>> \/ out[r] # {}
At(r, section) == out[r] = {} /\ todo[r] # <<>> /\ Head(todo[r]) = section
Acts(r, op) == ask[r].op = op /\ At(r, "act")
Goto(r, sections) == todo' = [todo EXCEPT ![r] = sections]
Done(r) == Goto(r, Tail(todo[r]))
Emit(r, messages) == out' = [out EXCEPT ![r] = messages]

(* require_user: the token is looked up once, at the start of the request. *)
Authenticate(r) ==
    /\ At(r, "auth")
    /\ Goto(r, IF By(r) \in revoked THEN <<>> ELSE Tail(todo[r]))
    /\ UNCHANGED <<ask, groups, revoked, out, view, got>>

(* One message goes out; a command is also remembered.                     *)
Send(r) ==
    \E m \in out[r] :
        /\ Emit(r, out[r] \ {m})
        /\ view' = [view EXCEPT ![m.to] = {m.group}]
        /\ got' = [got EXCEPT ![m.to] = IF m.kind = "command" THEN @ \cup {m.group} ELSE @]
        /\ UNCHANGED <<ask, groups, revoked, todo>>

(* A client asks the same again, having had its answer.                    *)
Again(r) ==
    /\ ask[r].again /\ ~Busy(r)
    /\ Goto(r, Script[ask[r].op])
    /\ UNCHANGED <<ask, groups, revoked, out, view, got>>

-----------------------------------------------------------------------------
(* The sections under the lock.                                            *)

Sweep(r) ==
    /\ At(r, "sweep")
    /\ groups' = Prune(groups, Stale)
    /\ Emit(r, Updates(groups', Stale))
    /\ Done(r)
    /\ UNCHANGED <<ask, revoked, view, got>>

(* syncplay_new: the session leaves its group; a group that already has    *)
(* the id is replaced, its participants are not told.                      *)
New(r) ==
    /\ Acts(r, "new")
    /\ LET gone == Leaving(By(r), {})
           left == Prune(groups, gone)
           g == [born |-> r, owner |-> UserOf[By(r)], seq |-> 0, play |-> "Idle",
                 members |-> [s \in {By(r)} |-> Participant(0)]]
       IN  /\ groups' = Put(left, ask[r].group, g)
           /\ Emit(r, Updates(left, gone) \cup Response(By(r), g))
    /\ Done(r)
    /\ UNCHANGED <<ask, revoked, view, got>>

(* syncplay_insert_participant: other sessions of the same user on the     *)
(* same device make room.                                                  *)
Insert(g, s) ==
    LET others == {t \in DOMAIN g.members \ {s} : UserOf[t] # UserOf[s] \/ DeviceOf[t] # DeviceOf[s]}
    IN  [g EXCEPT !.members = Put(Keep(g.members, others), s, Participant(g.seq))]

(* syncplay_join: 404 for a group that does not exist; in the present      *)
(* group the participant is inserted anew.                                 *)
JoinTo(r, gone) ==
    /\ Acts(r, "join")
    /\ IF ask[r].group \in DOMAIN groups
       THEN LET left == Prune(groups, gone)
                g == Insert(left[ask[r].group], By(r))
            IN  /\ groups' = Put(left, ask[r].group, g)
                /\ Emit(r, Updates(left, gone) \cup Told(g, "update") \cup Response(By(r), g))
                /\ Done(r)
       ELSE Goto(r, <<>>) /\ UNCHANGED <<groups, out>>
    /\ UNCHANGED <<ask, revoked, view, got>>

(* Mutant: the session stays in its other group. *)
JoinKeepingOthers(r) == JoinTo(r, [i \in DOMAIN groups |-> {}])
Join(r) == JoinTo(r, Leaving(By(r), {ask[r].group}))

(* syncplay_leave, and the first half of logout.                           *)
Leave(r) ==
    /\ Acts(r, "leave") \/ Acts(r, "logout")
    /\ LET gone == Leaving(By(r), {})
       IN  /\ groups' = Prune(groups, gone)
           /\ Emit(r, Updates(groups', gone))
    /\ Done(r)
    /\ UNCHANGED <<ask, revoked, view, got>>

Revoke(r) ==
    /\ At(r, "revoke")
    /\ revoked' = revoked \cup {By(r)}
    /\ Done(r)
    /\ UNCHANGED <<ask, groups, out, view, got>>

(* The participants a ping refreshes.                                      *)
(* Mutant: every participant is marked as seen. *)
RefreshedAll(s, g) == DOMAIN g.members
Refreshed(s, g) == {s}

Refresh(g, S) ==
    [g EXCEPT !.members = [t \in DOMAIN g.members |-> [g.members[t] EXCEPT !.stale = @ /\ t \notin S]]]

PingOf(r, messages) ==
    /\ Acts(r, "ping")
    /\ groups' = [i \in DOMAIN groups |->
                     IF Member(i, By(r)) THEN Refresh(groups[i], Refreshed(By(r), groups[i]))
                                         ELSE groups[i]]
    /\ Emit(r, messages)
    /\ Done(r)
    /\ UNCHANGED <<ask, revoked, view, got>>

(* Mutant: a ping tells nobody. *)
PingSilently(r) == PingOf(r, {})
Ping(r) ==
    PingOf(r, UNION {Told(groups[i], "update") : i \in {j \in DOMAIN groups : Member(j, By(r))}})

(* syncplay_apply_participant_command.                                     *)
(* Mutant: a participant that buffers stays ready. *)
BufferingKeepsReady(p, verb, flag) ==
    CASE verb = "ready" -> [p EXCEPT !.ready = flag]
      [] verb = "buffering" -> [p EXCEPT !.buffering = flag]
      [] OTHER -> p
ApplyToParticipant(p, verb, flag) ==
    CASE verb = "ready" -> [p EXCEPT !.ready = flag, !.buffering = FALSE]
      [] verb = "buffering" -> [p EXCEPT !.buffering = flag, !.ready = @ /\ ~flag]
      [] verb \in {"pause", "unpause", "seek", "stop"} -> [p EXCEPT !.buffering = FALSE]
      [] OTHER -> p

(* The number a command gets.                                              *)
(* Mutant: a change of the play state gets no number of its own. *)
NumberOfChange(g, verb) == IF PlayState(g, verb) = g.play THEN g.seq + 1 ELSE g.seq
Number(g, verb) == g.seq + 1

(* A group after the command a of a participant.                           *)
Commanded(g, a) ==
    [Refresh(g, {a.by}) EXCEPT !.members[a.by] = ApplyToParticipant(@, a.verb, a.flag),
                               !.seq = Number(g, a.verb),
                               !.play = PlayState(g, a.verb)]

(* syncplay_group_command: 404 for a session without a group.              *)
Command(r) ==
    /\ Acts(r, "command")
    /\ \/ /\ \A i \in GroupIds : ~Member(i, By(r))
          /\ Goto(r, <<>>)
          /\ UNCHANGED <<groups, out>>
       \/ \E i \in DOMAIN groups :
            /\ Member(i, By(r))
            /\ groups' = [groups EXCEPT ![i] = Commanded(@, ask[r])]
            /\ Emit(r, Told(Commanded(groups[i], ask[r]), "command"))
            /\ Done(r)
    /\ UNCHANGED <<ask, revoked, view, got>>

-----------------------------------------------------------------------------
(* Time: the stale time-out of a participant has passed.                   *)
Age(s) ==
    \E i \in DOMAIN groups :
        /\ Member(i, s) /\ ~groups[i].members[s].stale
        /\ groups' = [groups EXCEPT ![i].members[s].stale = TRUE]
        /\ UNCHANGED <<ask, revoked, todo, out, view, got>>

(* Nothing is on its way; what members of the first groups know is right.  *)
Init ==
    /\ \E c \in Casts : ask = c.ask /\ groups = c.groups
    /\ revoked = {}
    /\ todo = [r \in Requests |-> Script[ask[r].op]]
    /\ out = [r \in Requests |-> {}]
    /\ view = [s \in Sessions |-> {Json(groups[i]) : i \in {j \in GroupIds : Member(j, s)}}]
    /\ got = [s \in Sessions |-> {}]

Step(r) ==
    \/ Authenticate(r) \/ Send(r) \/ Again(r) \/ Sweep(r) \/ New(r) \/ Join(r)
    \/ Leave(r) \/ Revoke(r) \/ Ping(r) \/ Command(r)

Next == \/ \E r \in Requests : Step(r)
        \/ \E s \in Sessions : Age(s)

Spec == Init /\ [][Next]_vars

(* The lock is first come first served, so a request that can go on does;  *)
(* time passes; a client that pings keeps pinging.                         *)
Fairness ==
    /\ \A r \in Requests : WF_vars(Step(r))
    /\ \A s \in Sessions : WF_vars(Age(s))

FairSpec == Spec /\ Fairness

-----------------------------------------------------------------------------
(* What SyncPlay promises.                                                 *)

(* The type invariant; no participant is ready and buffering at once.      *)
TypeOK ==
    /\ ask \in {c.ask : c \in Casts}
    /\ DOMAIN groups \subseteq GroupIds
    /\ \A i \in DOMAIN groups :
        /\ SyncPlayGroup(groups[i])
        /\ \A s \in DOMAIN groups[i].members : groups[i].members[s].since <= groups[i].seq
    /\ revoked \subseteq Sessions
    /\ \A r \in Requests : \A m \in out[r] : m.to \in Sessions

(* A session takes part in one group at a time, whatever requests of it    *)
(* and of others run between its own.                                      *)
OneGroupPerSession ==
    \A s \in Sessions : \A i, j \in GroupIds : Member(i, s) /\ Member(j, s) => i = j

(* Every group has participants and its owner has a session among them,    *)
(* also after leaves, replaced devices and the removal of stale sessions.  *)
OwnerPresent ==
    \A i \in DOMAIN groups : \E s \in DOMAIN groups[i].members : UserOf[s] = groups[i].owner

(* The commands of one group that have reached a session or are on their   *)
(* way to it.                                                              *)
CommandsFor(s, g) ==
    {m \in got[s] : m.born = g.born}
        \cup {m.group : m \in {n \in UNION {out[r] : r \in Requests} :
                                  n.to = s /\ n.kind = "command" /\ n.group.born = g.born}}

(* Commands may reach a participant in any order; their numbers restore    *)
(* it.  Since it joined every number up to the group's has been handed     *)
(* over for it or is about to be, no two commands bear the same one, and   *)
(* the highest carries the play state of the group.                        *)
NumbersRestoreOrder ==
    \A i \in DOMAIN groups : \A s \in DOMAIN groups[i].members :
        LET g == groups[i]
            mine == CommandsFor(s, g)
        IN  /\ (g.members[s].since + 1)..g.seq \subseteq {m.seq : m \in mine}
            /\ \A m, n \in mine : m.seq = n.seq => m = n
            /\ \A m \in mine : m.seq <= g.seq /\ (m.seq = g.seq => m.play = g.play)

InSync(s) == \A i \in DOMAIN groups : Member(i, s) => view[s] = {Json(groups[i])}

(* Group updates carry no number and may overtake each other; the updates  *)
(* pings send repair what participants have been told.                     *)
ViewsConverge == \A s \in Sessions : ~InSync(s) ~> InSync(s)

(* A participant that will not come back leaves its group, also when a     *)
(* request that was authenticated before the logout has let it in again:   *)
(* the pings of others remove it once it is stale.                         *)
Abandoned(s) == s \in revoked /\ \A r \in Requests : By(r) = s => ~Busy(r)
AbandonedMemberLeaves ==
    \A s \in Sessions : Abandoned(s) ~> \A i \in GroupIds : ~Member(i, s)
=============================================================================
