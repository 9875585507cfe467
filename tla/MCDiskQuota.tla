---------------------------- MODULE MCDiskQuota ----------------------------
(* Instances of DiskQuota for TLC.                                         *)
EXTENDS DiskQuota, TLC

(* Writers are interchangeable.                                            *)
WriterSymmetry == Permutations(Writers)
=============================================================================
