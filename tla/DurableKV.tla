------------------------------ MODULE DurableKV ------------------------------
(***************************************************************************)
(* What include/db.hpp promises of a DB, and what the log of NvmExample    *)
(* adds for crashes: the store is the list of its Sets in the order they   *)
(* took effect, a Get answers with the latest of its key, and a crash      *)
(* leaves a prefix of the list, never a hole and never part of a Set.      *)
(***************************************************************************)
EXTENDS Naturals, Sequences

CONSTANTS
    Threads,   \* callers; each has at most one call in progress
    Keys,
    Values,
    NotFound,  \* the answer for a key the store does not hold, no value
    NoArgument \* the key and the value of no call

VARIABLES
    store,     \* the Sets that took effect, oldest first
    op,        \* op[t]: "get", "set" or "none"
    key,       \* key[t], value[t]: the arguments of t's call
    value,
    done,      \* done[t]: t's call has taken effect
    answer     \* answer[t]: what a Get that has taken effect found

vars == <<store, op, key, value, done, answer>>

\* The value the latest Set of k gave it.
Latest(s, k) ==
    LET sets == {i \in DOMAIN s : s[i].key = k} IN
    IF sets = {} THEN NotFound
    ELSE s[CHOOSE i \in sets : \A j \in sets : j <= i].value

-----------------------------------------------------------------------------
Init ==
    /\ store = <<>>
    /\ op = [t \in Threads |-> "none"]
    /\ key = [t \in Threads |-> NoArgument]
    /\ value = [t \in Threads |-> NoArgument]
    /\ done = [t \in Threads |-> FALSE]
    /\ answer = [t \in Threads |-> NotFound]

Invoke(t, o, k, v) ==
    /\ op[t] = "none"
    /\ op' = [op EXCEPT ![t] = o]
    /\ key' = [key EXCEPT ![t] = k]
    /\ value' = [value EXCEPT ![t] = v]
    /\ UNCHANGED <<store, done, answer>>

Set(t) ==
    /\ op[t] = "set" /\ ~done[t]
    /\ store' = Append(store, [key |-> key[t], value |-> value[t]])
    /\ done' = [done EXCEPT ![t] = TRUE]
    /\ UNCHANGED <<op, key, value, answer>>

Get(t) ==
    /\ op[t] = "get" /\ ~done[t]
    /\ answer' = [answer EXCEPT ![t] = Latest(store, key[t])]
    /\ done' = [done EXCEPT ![t] = TRUE]
    /\ UNCHANGED <<store, op, key, value>>

Respond(t) ==
    /\ done[t]
    /\ op' = [op EXCEPT ![t] = "none"]
    /\ done' = [done EXCEPT ![t] = FALSE]
    /\ answer' = [answer EXCEPT ![t] = NotFound]
    /\ key' = [key EXCEPT ![t] = NoArgument]
    /\ value' = [value EXCEPT ![t] = NoArgument]
    /\ UNCHANGED store

\* Calls in progress are forgotten; those that took effect may survive.
Crash ==
    /\ \E n \in 0 .. Len(store) : store' = SubSeq(store, 1, n)
    /\ op' = [t \in Threads |-> "none"]
    /\ done' = [t \in Threads |-> FALSE]
    /\ answer' = [t \in Threads |-> NotFound]
    /\ key' = [t \in Threads |-> NoArgument]
    /\ value' = [t \in Threads |-> NoArgument]

Next ==
    \/ \E t \in Threads :
           \/ \E k \in Keys :
                  \/ Invoke(t, "get", k, NoArgument)
                  \/ \E v \in Values : Invoke(t, "set", k, v)
           \/ Set(t)
           \/ Get(t)
           \/ Respond(t)
    \/ Crash

Spec == Init /\ [][Next]_vars
=============================================================================
