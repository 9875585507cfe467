---------------------------- MODULE MCKeyedLocks ----------------------------
(* Instance of KeyedLocks for TLC.                                         *)
EXTENDS KeyedLocks, TLC

CONSTANTS c1, c2, c3, k1, k2, k3

ThreeCallers == {c1, c2, c3}

(* One key more than the map has slots, so that the overflow lock is used. *)
ThreeKeys == {k1, k2, k3}
TwoSlots == Cardinality(ThreeKeys) - 1

(* Some calls of lock_for prune periodically, some only because of space.  *)
EveryThird == 3
=============================================================================
