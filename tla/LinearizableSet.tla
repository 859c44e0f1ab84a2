--------------------------- MODULE LinearizableSet ---------------------------
(***************************************************************************)
(* What InlineSkipList promises its callers: a set of keys that only       *)
(* grows, on which every call takes effect atomically at one instant       *)
(* between its invocation and its return.  Insert answers whether the key  *)
(* was new, Contains whether it is there.                                  *)
(***************************************************************************)
CONSTANTS
    Threads,   \* callers; each has at most one call in progress
    Keys       \* keys that may be inserted or looked up

VARIABLES
    set,       \* the keys inserted so far
    op,        \* op[t]: the call t has in progress, or "none"
    arg,       \* arg[t]: the key of t's latest call
    done,      \* done[t]: t's call has taken effect
    ret        \* ret[t]: the answer of a call that has taken effect

vars == <<set, op, arg, done, ret>>

-----------------------------------------------------------------------------
Init ==
    /\ set = {}
    /\ op = [t \in Threads |-> "none"]
    /\ arg \in [Threads -> Keys]
    /\ done = [t \in Threads |-> FALSE]
    /\ ret = [t \in Threads |-> FALSE]

Invoke(t, o, k) ==
    /\ op[t] = "none"
    /\ op' = [op EXCEPT ![t] = o]
    /\ arg' = [arg EXCEPT ![t] = k]
    /\ UNCHANGED <<set, done, ret>>

TakeEffect(t, answer) ==
    /\ ~done[t]
    /\ done' = [done EXCEPT ![t] = TRUE]
    /\ ret' = [ret EXCEPT ![t] = answer]
    /\ UNCHANGED <<op, arg>>

Insert(t) ==
    /\ op[t] = "insert"
    /\ TakeEffect(t, arg[t] \notin set)
    /\ set' = set \cup {arg[t]}

Contains(t) ==
    /\ op[t] = "contains"
    /\ TakeEffect(t, arg[t] \in set)
    /\ UNCHANGED set

Respond(t) ==
    /\ done[t]
    /\ op' = [op EXCEPT ![t] = "none"]
    /\ done' = [done EXCEPT ![t] = FALSE]
    /\ ret' = [ret EXCEPT ![t] = FALSE]
    /\ UNCHANGED <<set, arg>>

Next ==
    \E t \in Threads :
        \/ \E o \in {"insert", "contains"}, k \in Keys : Invoke(t, o, k)
        \/ Insert(t)
        \/ Contains(t)
        \/ Respond(t)

Spec == Init /\ [][Next]_vars
=============================================================================
