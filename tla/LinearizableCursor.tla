-------------------------- MODULE LinearizableCursor --------------------------
(***************************************************************************)
(* What InlineSkipList::Iterator promises beside inserts: a cursor over a  *)
(* growing sorted set.  Each of its calls moves it at one instant between  *)
(* invocation and return, to the key the set has for it at that instant.   *)
(***************************************************************************)
EXTENDS Integers

CONSTANTS
    Readers,   \* cursors; each has at most one call in progress
    Keys,
    NoKey      \* the cursor is not valid, or the call has no argument

VARIABLES
    set,       \* the keys
    pos,       \* pos[r]: where cursor r stands; NoKey within a call
    op,        \* op[r]: the call in progress, or "none"
    arg        \* arg[r]: its key

vars == <<set, pos, op, arg>>

Least(S) == IF S = {} THEN NoKey ELSE CHOOSE k \in S : \A j \in S : k <= j
Greatest(S) == IF S = {} THEN NoKey ELSE CHOOSE k \in S : \A j \in S : j <= k

\* Where call o with key a takes a cursor.
Target(o, a) ==
    CASE o = "Seek"        -> Least({k \in set : a <= k})
      [] o = "SeekForPrev" -> Greatest({k \in set : k <= a})
      [] o = "Prev"        -> Greatest({k \in set : k < a})
      [] o = "SeekToLast"  -> Greatest(set)

-----------------------------------------------------------------------------
Init ==
    /\ set = {}
    /\ pos = [r \in Readers |-> NoKey]
    /\ op = [r \in Readers |-> "none"]
    /\ arg = [r \in Readers |-> NoKey]

Grow ==
    /\ \E k \in Keys : set' = set \cup {k}
    /\ UNCHANGED <<pos, op, arg>>

Invoke(r, o, k) ==
    /\ op[r] = "none"
    /\ o = "Prev" => k = pos[r]
    /\ op' = [op EXCEPT ![r] = o]
    /\ arg' = [arg EXCEPT ![r] = k]
    /\ pos' = [pos EXCEPT ![r] = NoKey]
    /\ UNCHANGED set

Move(r) ==
    /\ op[r] # "none"
    /\ pos' = [pos EXCEPT ![r] = Target(op[r], arg[r])]
    /\ op' = [op EXCEPT ![r] = "none"]
    /\ arg' = [arg EXCEPT ![r] = NoKey]
    /\ UNCHANGED set

\* SeekToFirst and Next move the cursor at once.
SeekToFirst(r) ==
    /\ op[r] = "none"
    /\ pos' = [pos EXCEPT ![r] = Least(set)]
    /\ UNCHANGED <<set, op, arg>>

Advance(r) ==
    /\ op[r] = "none" /\ pos[r] # NoKey
    /\ pos' = [pos EXCEPT ![r] = Least({k \in set : pos[r] < k})]
    /\ UNCHANGED <<set, op, arg>>

Next ==
    \/ Grow
    \/ \E r \in Readers :
           \/ \E k \in Keys, o \in {"Seek", "SeekForPrev", "Prev"} : Invoke(r, o, k)
           \/ Invoke(r, "SeekToLast", NoKey)
           \/ Move(r)
           \/ SeekToFirst(r)
           \/ Advance(r)

Spec == Init /\ [][Next]_vars
=============================================================================
