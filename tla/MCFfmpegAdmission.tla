------------------------- MODULE MCFfmpegAdmission -------------------------
(* An instance of FfmpegAdmission for TLC.                                 *)
EXTENDS FfmpegAdmission, TLC

CONSTANTS v1, r1, r2, p1

(* Two remuxes of one lane and a probe contend for one permit in total; an *)
(* encode is blocked by the mode; the remux lane is configured to zero.    *)
MixedKindOf ==
    v1 :> "VideoEncode" @@ r1 :> "Remux" @@ r2 :> "Remux" @@ p1 :> "Probe"
MixedJobs == DOMAIN MixedKindOf
MixedLimits == [s \in Sems |-> IF s = "Remux" THEN 0 ELSE 1]
OnePlace == [q \in Queues |-> 1]
=============================================================================
