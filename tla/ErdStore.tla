------------------------------ MODULE ErdStore ------------------------------
(***************************************************************************)
(* What the ERD cache promises the rest of the bridge, without slots, an   *)
(* arena or cooldowns: a map from ERD keys to payloads in which            *)
(*   - a key, once admitted, is never evicted and never changes its size;  *)
(*   - a payload only changes by a Put, which also makes the key pending;  *)
(*   - a key stops being pending only when the publisher takes it.         *)
(* A key is an (erd, board_address) pair.  ErdCache is shown to implement  *)
(* this specification.                                                     *)
(***************************************************************************)
EXTENDS Naturals, Sequences

CONSTANTS Key,      \* (erd, board_address) pairs
          Payload   \* the byte sequences an ERD may hold

VARIABLES store,    \* payload of every key admitted so far
          pending   \* keys whose payload the publisher has still to take

vars == <<store, pending>>

Init == /\ store = [k \in {} |-> <<>>]
        /\ pending = {}

Overwrite(k, d) == /\ k \in DOMAIN store
                   /\ Len(d) = Len(store[k])
                   /\ store' = [store EXCEPT ![k] = d]
                   /\ pending' = pending \cup {k}

Admit(k, d) == /\ k \notin DOMAIN store
               /\ store' = [j \in DOMAIN store \cup {k} |->
                                IF j = k THEN d ELSE store[j]]
               /\ pending' = pending \cup {k}

Take(k) == /\ k \in pending
           /\ pending' = pending \ {k}
           /\ UNCHANGED store

Requeue(S) == /\ S \subseteq DOMAIN store
              /\ pending' = pending \cup S
              /\ UNCHANGED store

Clear == /\ store' = [k \in {} |-> <<>>]
         /\ pending' = {}

Next == \/ \E k \in Key, d \in Payload : Overwrite(k, d) \/ Admit(k, d)
        \/ \E k \in Key : Take(k)
        \/ \E S \in SUBSET Key : Requeue(S)
        \/ Clear

Spec == Init /\ [][Next]_vars
=============================================================================
