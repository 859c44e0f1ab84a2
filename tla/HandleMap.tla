------------------------------ MODULE HandleMap ------------------------------
(***************************************************************************)
(* What nvm_engine/Cache.hpp's HandleTable promises to a cache: a map from *)
(* keys to handles, and from each call the handle its key had before.      *)
(***************************************************************************)
CONSTANTS
    Handles,
    Keys,
    KeyOf,     \* KeyOf[h]: the key of a handle
    nullptr    \* no handle

VARIABLES
    map,       \* map[k]: the handle of k, or nullptr
    answer     \* key and result of the latest call

vars == <<map, answer>>

Answers(k) == answer'.key = k /\ answer'.handle = map[k]

Init ==
    /\ map = [k \in Keys |-> nullptr]
    /\ answer = [key |-> nullptr, handle |-> nullptr]

Lookup(k) == Answers(k) /\ UNCHANGED map

Insert(h) ==
    /\ Answers(KeyOf[h])
    /\ map' = [map EXCEPT ![KeyOf[h]] = h]

Remove(k) == Answers(k) /\ map' = [map EXCEPT ![k] = nullptr]

Next ==
    \/ \E k \in Keys : Lookup(k) \/ Remove(k)
    \/ \E h \in Handles : Insert(h)

Spec == Init /\ [][Next]_vars
=============================================================================
