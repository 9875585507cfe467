----------------------------- MODULE MCHlsJobs -----------------------------
(* Instances of HlsJobs for TLC.                                           *)
EXTENDS HlsJobs, TLC

CONSTANTS a, b, q1, q2, r1

Want(k, d, f) == [key |-> k, device |-> d, fallback |-> f]

(* A new position on the same device, and the same item on a second one.   *)
Seeking(f) == a :> Want("k1", "d1", f) @@ b :> Want("k2", "d1", FALSE)
Sharing(f) == a :> Want("k1", "d1", f) @@ b :> Want("k1", "d2", FALSE)

Cast(w, rs, n, m) == [want |-> w, requests |-> rs, crashes |-> n, sweeps |-> m]

(* The requests that meet: two starts and a stop, two seeks into one       *)
(* session, a seek and a stop, a seek and the sweep, two starts and a      *)
(* crash.                                                                  *)
Meetings ==
    {Cast(Seeking(FALSE), {a, b, r1}, 0, 0), Cast(Sharing(FALSE), {a, b, r1}, 0, 0),
     Cast(Sharing(FALSE), {a, b, q1}, 0, 0),
     Cast(Seeking(FALSE), {a, q1, q2}, 0, 0), Cast(Seeking(TRUE), {a, q1, r1}, 0, 0),
     Cast(Seeking(TRUE), {a, q1}, 0, 1), Cast(Seeking(FALSE), {a, b}, 1, 1)}

(* One start, a seek and a stop.                                           *)
OneSession == {Cast(Seeking(FALSE), {a, q1, r1}, 0, 0)}
=============================================================================
