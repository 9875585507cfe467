--------------------------- MODULE MCLiveStreams ---------------------------
(* Instances of LiveStreams for TLC.                                       *)
EXTENDS LiveStreams, TLC

CONSTANTS k1, k2, h1, h2

(* One channel is offered by both hosts, the other by the first only.      *)
TwoHosts == (k1 :> {h1}) @@ (k2 :> {h1, h2})
OneHost == [k \in {k1, k2} |-> {h1}]

(* The first host has one tuner, the second no limit of its own.           *)
OneAndAny == (h1 :> 1) @@ (h2 :> 0)
OneTuner == (h1 :> 1)

(* Requests are interchangeable.                                           *)
RequestSymmetry == Permutations(Requests)
=============================================================================
