---------------------------- MODULE MCRecordings ----------------------------
(* Instances of Recordings for TLC.                                        *)
EXTENDS Recordings, TLC

(* Timers, tasks and starters are interchangeable.                         *)
Symmetry == Permutations(Tasks) \union Permutations(Timers) \union Permutations(Starters)
=============================================================================
