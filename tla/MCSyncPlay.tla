---------------------------- MODULE MCSyncPlay -----------------------------
(* Instances of SyncPlay for TLC.                                          *)
EXTENDS SyncPlay, TLC

CONSTANTS a1, a2, b1, g1, g2, p1, p2, x1, x2

(* Two sessions of user A on one device, and one of user B.                *)
Users == a1 :> "A" @@ a2 :> "A" @@ b1 :> "B"
Devices == a1 :> "d1" @@ a2 :> "d1" @@ b1 :> "d2"
Order == b1 :> 1 @@ a1 :> 2 @@ a2 :> 3

Ask(op, s, g, verb, flag) ==
    [op |-> op, by |-> s, group |-> g, verb |-> verb, flag |-> flag, again |-> op = "ping"]
Only(op, s, g) == Ask(op, s, g, "none", FALSE)
Make(s, g) == Only("new", s, g)
Into(s, g) == Only("join", s, g)
Says(s, verb, flag) == Ask("command", s, g1, verb, flag)
Nothing == Only("none", a1, g1)
Pings(s) == Only("ping", s, g1)

Cast(gs, ping1, ping2, q1, q2) ==
    [groups |-> gs,
     ask |-> p1 :> ping1 @@ p2 :> ping2 @@ x1 :> q1 @@ x2 :> q2]

(* The groups that earlier requests have left: none; A and B together,     *)
(* the group made by session s; A and B apart.                             *)
Group(r, s, S) == [born |-> r, owner |-> Users[s], seq |-> 0, play |-> "Idle",
                   members |-> [t \in S |-> Participant(0)]]
Together(s) == g1 :> Group(p1, s, {a1, b1})
Apart == g1 :> Group(p1, a1, {a1}) @@ g2 :> Group(p2, b1, {b1})

Meetings ==
    {\* two clients that ping, a pause
     Cast(Together(a1), Pings(a1), Pings(b1), Says(a1, "pause", FALSE), Nothing),
     \* a group appears
     Cast(<<>>, Pings(a1), Nothing, Make(a1, g1), Into(b1, g1)),
     \* a second session replaces the first and logs out meanwhile
     Cast(Together(b1), Pings(b1), Nothing, Into(a2, g1), Only("logout", a2, g1)),
     \* two commands of one session on their way
     Cast(Together(a1), Pings(a1), Nothing, Says(b1, "ready", TRUE), Says(b1, "buffering", TRUE)),
     \* a group is replaced under its id
     Cast(Together(a1), Pings(a1), Nothing, Make(b1, g1), Says(b1, "seek", FALSE)),
     \* sessions change groups
     Cast(Apart, Pings(a1), Nothing, Into(a1, g2), Into(b1, g1)),
     \* the owner leaves
     Cast(Together(a1), Pings(a1), Nothing, Only("leave", a1, g1), Only("list", b1, g1))}
=============================================================================
