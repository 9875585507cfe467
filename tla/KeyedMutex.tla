----------------------------- MODULE KeyedMutex -----------------------------
(***************************************************************************)
(* What a caller of WeakKeyedLockRegistry relies on: one mutex per key,    *)
(* for as many keys as there are, with no registry, no bound and no        *)
(* sharing between keys visible.  owns[c] is the key whose critical        *)
(* section caller c is in, or NoKey.                                       *)
(***************************************************************************)
CONSTANTS Callers, Keys, NoKey

VARIABLE owns

Init == owns = [c \in Callers |-> NoKey]

Enter(c, k) ==
    /\ owns[c] = NoKey
    /\ \A d \in Callers : owns[d] # k
    /\ owns' = [owns EXCEPT ![c] = k]

Leave(c) ==
    /\ owns[c] # NoKey
    /\ owns' = [owns EXCEPT ![c] = NoKey]

Next == \E c \in Callers : Leave(c) \/ \E k \in Keys : Enter(c, k)

Spec == Init /\ [][Next]_owns
=============================================================================
