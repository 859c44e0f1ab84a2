------------------------------ MODULE NvmExample ------------------------------
(***************************************************************************)
(* nvm_example/NvmExample.cpp: a DB kept as a log in a mapped file.  Word 0 *)
(* counts the records, the records follow; a record is a key slice and a   *)
(* value slice, a slice its size and its data.  hash_map, in DRAM, points  *)
(* into the log.  The mapping is seen twice: mem is what the CPUs read,    *)
(* media what a power failure leaves.  A dirty word may reach the media at *)
(* any moment, and must when _persist covers it.                           *)
(***************************************************************************)
EXTENDS Integers, Sequences

CONSTANTS
    Threads,     \* callers of Set and Get
    Keys,        \* slices, as sequences of words
    Values,
    Words,       \* contents of a word of slice data
    Capacity,    \* words in the mapping (SIZE)
    Builds,      \* what USE_LIBPMEM may be: TRUE if it is defined
    Failures,    \* what can end the process: "crash", "power"
    NoOwner,     \* the mutex is free
    NoSlice,     \* hash_map has no entry
    NotFound     \* Status NotFound

ASSUME WordsAssumption == Words \subseteq Nat
ASSUME SlicesAssumption == Keys \subseteq Seq(Words) /\ Values \subseteq Seq(Words)
ASSUME CapacityAssumption == Capacity \in Nat \ {0}
ASSUME BuildAssumption ==
    Builds \subseteq BOOLEAN /\ Failures \subseteq {"crash", "power"}
ASSUME NoValuesAssumption ==
    /\ NoOwner \notin Threads
    /\ NotFound \notin Values
    /\ NoSlice \notin [off : Nat, len : Nat]

Addresses == 0 .. Capacity - 1

\* A Slice that points into the mapping.
Slices == [off : Nat, len : Nat]
NullSlice == [off |-> 0, len |-> 0]

VARIABLES
    UseLibpmem, \* the build: chosen once
    mem,        \* the mapping as loads and stores see it
    media,      \* what is in persistent memory; 0s without libpmem
    mode,       \* "down", "recovering" or "open"
    end_off,    \* LogAppender::_end_off
    sequence,   \* RecoveryHelper::_sequence
    current,    \* RecoveryHelper::_current
    hash_map,   \* hash_map[k]: the value slice of k, or NoSlice
    mut,        \* the thread that holds the mutex, or NoOwner
    pc,         \* where thread t stands
    op,         \* the call of t: "get", "set" or "none"
    key,        \* key[t], value[t]: its arguments, <<>> when it has none
    value,
    part,       \* the slice Append is pushing back: "key" or "value"
    copied,     \* words of it that memcpy has copied
    nvm_key,    \* the key slice Append has pushed back
    nvm_val,    \* the value slice Append has pushed back
    answer,     \* what t's Get has found
    log,        \* history: the records counted so far, and where they start
    acked       \* history: the records whose Set has returned

pmem == <<mem, media>>
recovery == <<sequence, current>>
append == <<part, copied, nvm_key, nvm_val>>
call == <<op, key, value, answer>>
history == <<log, acked>>
vars == <<UseLibpmem, pmem, mode, end_off, recovery, hash_map, mut, pc, append, call, history>>

-----------------------------------------------------------------------------
(* The layout of the log                                                   *)

\* Loads outside the mapping do not happen (SlicesInside) and return 0 here.
Load(a) == IF a \in Addresses THEN mem[a] ELSE 0

\* The string a slice points at.
Content(s) == [i \in 1 .. s.len |-> Load(s.off + i - 1)]

\* Slice s lies at word a of m: its size, then its data.
Holds(m, a, s) ==
    /\ a + Len(s) < Capacity
    /\ m[a] = Len(s)
    /\ \A i \in 1 .. Len(s) : m[a + i] = s[i]

\* The word after a record.
EndOf(r) == r.at + 2 + Len(r.key) + Len(r.value)

ValueAt(r) == r.at + 1 + Len(r.key)

ValueSlice(r) == [off |-> ValueAt(r) + 1, len |-> Len(r.value)]

\* The word after the first n records.
EndOfLog(n) == IF n = 0 THEN 1 ELSE EndOf(log[n])

-----------------------------------------------------------------------------
Init ==
    /\ UseLibpmem \in Builds
    /\ mem = [a \in Addresses |-> 0]
    /\ media = [a \in Addresses |-> 0]
    /\ mode = "down"
    /\ end_off = 0
    /\ sequence = 0
    /\ current = 0
    /\ hash_map = [k \in Keys |-> NoSlice]
    /\ mut = NoOwner
    /\ pc = [t \in Threads |-> "idle"]
    /\ op = [t \in Threads |-> "none"]
    /\ key = [t \in Threads |-> <<>>]
    /\ value = [t \in Threads |-> <<>>]
    /\ part = "key"
    /\ copied = 0
    /\ nvm_key = NullSlice
    /\ nvm_val = NullSlice
    /\ answer = [t \in Threads |-> NotFound]
    /\ log = <<>>
    /\ acked = 0

-----------------------------------------------------------------------------
(* CreateOrOpen: the mapping and Recovery                                  *)

\* LogAppender maps the file and RecoveryHelper reads the count.
Open ==
    /\ mode = "down"
    /\ mode' = "recovering"
    /\ sequence' = mem[0]
    /\ current' = 0
    /\ end_off' = 1
    /\ UNCHANGED <<UseLibpmem, pmem, hash_map, mut, pc, append, call, history>>

\* Mutant: the slice starts at its size.
SliceAtItsSize(a) == [off |-> a, len |-> Load(a)]

\* RecoveryHelper::_get_slice at word a.
SliceAt(a) == [off |-> a + 1, len |-> Load(a)]

\* Mutants: one record too few, one too many.
RecoveredEarly == current + 1 >= sequence
RecoveredLate == current > sequence

Recovered == current = sequence

RecoverNext ==
    LET k == SliceAt(end_off)
        v == SliceAt(k.off + k.len)
    IN  /\ mode = "recovering"
        /\ current < sequence
        /\ current' = current + 1
        /\ end_off' = v.off + v.len
        /\ hash_map' = [hash_map EXCEPT ![Content(k)] = v]
        /\ UNCHANGED <<UseLibpmem, pmem, mode, sequence, mut, pc, append, call, history>>

\* Next returns a null key: every record is read.
RecoveryDone ==
    /\ mode = "recovering"
    /\ Recovered
    /\ mode' = "open"
    /\ UNCHANGED <<UseLibpmem, pmem, end_off, recovery, hash_map, mut, pc, append, call, history>>

-----------------------------------------------------------------------------
(* Set and Get, under the mutex                                            *)

Call(t, o, k, v) ==
    /\ mode = "open"
    /\ pc[t] = "idle"
    /\ pc' = [pc EXCEPT ![t] = "lock"]
    /\ op' = [op EXCEPT ![t] = o]
    /\ key' = [key EXCEPT ![t] = k]
    /\ value' = [value EXCEPT ![t] = v]
    /\ UNCHANGED <<UseLibpmem, pmem, mode, end_off, recovery, hash_map, mut, append, answer, history>>

CallEnds(t) ==
    /\ pc' = [pc EXCEPT ![t] = "idle"]
    /\ op' = [op EXCEPT ![t] = "none"]
    /\ key' = [key EXCEPT ![t] = <<>>]
    /\ value' = [value EXCEPT ![t] = <<>>]

\* Mutant: the mutex is not waited for.
LockTaken(t) == mut' = t

\* Mutant: the mutex is not released.
LockKept == UNCHANGED mut

\* The lock_guard's constructor and destructor.
LockGuard(t) == mut = NoOwner /\ mut' = t
Unlock == mut' = NoOwner

Lock(t) ==
    /\ pc[t] = "lock"
    /\ LockGuard(t)
    /\ pc' = [pc EXCEPT ![t] = IF op[t] = "get" THEN "read" ELSE "size"]
    /\ UNCHANGED <<UseLibpmem, pmem, mode, end_off, recovery, hash_map, append, call, history>>

Read(t) ==
    /\ pc[t] = "read"
    /\ answer' = [answer EXCEPT ![t] =
                      IF hash_map[key[t]] = NoSlice THEN NotFound
                      ELSE Content(hash_map[key[t]])]
    /\ Unlock
    /\ pc' = [pc EXCEPT ![t] = "ret"]
    /\ UNCHANGED <<UseLibpmem, pmem, mode, end_off, recovery, hash_map, append, op, key,
                   value, history>>

\* The locals of Append before and after it.
NoAppend ==
    /\ part' = "key"
    /\ copied' = 0
    /\ nvm_key' = NullSlice
    /\ nvm_val' = NullSlice

\* Mutant: the value is pushed back before the key.
PushedSwapped(t) == IF part = "key" THEN value[t] ELSE key[t]

\* The slice _push_back is given.
Pushed(t) == IF part = "key" THEN key[t] ELSE value[t]

\* A store to an address inside the mapping; beyond it the process faults.
StoreWord(a, w) ==
    /\ a \in Addresses
    /\ mem' = [mem EXCEPT ![a] = w]

StoreSize(t) ==
    /\ pc[t] = "size"
    /\ StoreWord(end_off, Len(Pushed(t)))
    /\ pc' = [pc EXCEPT ![t] = "persistSize"]
    /\ UNCHANGED <<UseLibpmem, media, mode, end_off, recovery, hash_map, mut, append, call, history>>

\* Mutant: the last word is left out.
PersistButLast(a, n) ==
    media' = [b \in Addresses |->
                 IF b \in a .. a + n - 2 THEN mem[b] ELSE media[b]]

\* _persist returns when the media holds the n words from a; without libpmem
\* it does nothing.
Persist(a, n) ==
    media' = IF UseLibpmem
             THEN [b \in Addresses |->
                      IF b \in a .. a + n - 1 THEN mem[b] ELSE media[b]]
             ELSE media

PersistSize(t) ==
    /\ pc[t] = "persistSize"
    /\ Persist(end_off, 1)
    /\ copied' = 0
    /\ pc' = [pc EXCEPT ![t] = "copy"]
    /\ UNCHANGED <<UseLibpmem, mem, mode, end_off, recovery, hash_map, mut, part, nvm_key,
                   nvm_val, call, history>>

\* memcpy, a word at a time.
CopyWord(t) ==
    /\ pc[t] = "copy"
    /\ copied < Len(Pushed(t))
    /\ StoreWord(end_off + 1 + copied, Pushed(t)[copied + 1])
    /\ copied' = copied + 1
    /\ UNCHANGED <<UseLibpmem, media, mode, end_off, recovery, hash_map, mut, pc, part, nvm_key,
                   nvm_val, call, history>>

\* Mutants: the size is forgotten, or counted twice.
NextOffsetLow(size) == end_off + size
NextOffsetHigh(size) == end_off + 2 + size

\* _end_off after a slice.
NextOffset(size) == end_off + 1 + size

\* The data is persisted, _end_off moves on; Append goes on to the value and
\* then to the count.
PersistData(t) ==
    LET size == Len(Pushed(t))
        ret == [off |-> end_off + 1, len |-> size]
    IN  /\ pc[t] = "copy"
        /\ copied = size
        /\ Persist(end_off + 1, size)
        /\ end_off' = NextOffset(size)
        /\ \/ /\ part = "key"
              /\ part' = "value"
              /\ nvm_key' = ret
              /\ pc' = [pc EXCEPT ![t] = "size"]
              /\ UNCHANGED nvm_val
           \/ /\ part = "value"
              /\ nvm_val' = ret
              /\ pc' = [pc EXCEPT ![t] = "count"]
              /\ UNCHANGED <<part, nvm_key>>
        /\ UNCHANGED <<UseLibpmem, mem, mode, recovery, hash_map, mut, copied, call, history>>

\* (*_pmem.sequence)++, which nothing persists.
Count(t) ==
    /\ pc[t] = "count"
    /\ mem' = [mem EXCEPT ![0] = @ + 1]
    /\ log' = Append(log, [key |-> key[t], value |-> value[t],
                           at |-> nvm_key.off - 1])
    /\ pc' = [pc EXCEPT ![t] = "map"]
    /\ UNCHANGED <<UseLibpmem, media, mode, end_off, recovery, hash_map, mut, append, call, acked>>

\* The index is updated, the mutex released and Set returns.
MapKey(t) ==
    /\ pc[t] = "map"
    /\ hash_map' = [hash_map EXCEPT ![Content(nvm_key)] = nvm_val]
    /\ Unlock
    /\ NoAppend
    /\ CallEnds(t)
    /\ acked' = Len(log)
    /\ UNCHANGED <<UseLibpmem, pmem, mode, end_off, recovery, answer, log>>

Return(t) ==
    /\ pc[t] = "ret"
    /\ answer' = [answer EXCEPT ![t] = NotFound]
    /\ CallEnds(t)
    /\ UNCHANGED <<UseLibpmem, pmem, mode, end_off, recovery, hash_map, mut, append, history>>

-----------------------------------------------------------------------------
(* The end of the process, and of the power                                *)

\* A dirty word leaves the cache on its own.
WriteBack ==
    /\ UseLibpmem
    /\ \E a \in Addresses :
           /\ media[a] # mem[a]
           /\ media' = [media EXCEPT ![a] = mem[a]]
    /\ UNCHANGED <<UseLibpmem, mem, mode, end_off, recovery, hash_map, mut, pc, append,
                   call, history>>

\* Everything in DRAM is gone, the file holds what m says.  n records are left.
Stop(m, n) ==
    /\ mem' = m
    /\ log' = SubSeq(log, 1, n)
    /\ mode' = "down"
    /\ end_off' = 0
    /\ sequence' = 0
    /\ current' = 0
    /\ hash_map' = [k \in Keys |-> NoSlice]
    /\ mut' = NoOwner
    /\ pc' = [t \in Threads |-> "idle"]
    /\ op' = [t \in Threads |-> "none"]
    /\ key' = [t \in Threads |-> <<>>]
    /\ value' = [t \in Threads |-> <<>>]
    /\ answer' = [t \in Threads |-> NotFound]
    /\ NoAppend
    /\ UNCHANGED <<UseLibpmem, acked>>

\* A mapped file outlives its process; an anonymous mapping does not.
ProcessEnds ==
    \/ UseLibpmem /\ Stop(mem, Len(log)) /\ UNCHANGED media
    \/ /\ ~UseLibpmem
       /\ Stop([a \in Addresses |-> 0], 0)
       /\ UNCHANGED media

\* The destructors, when no call is in progress.
Close ==
    /\ mode = "open"
    /\ \A t \in Threads : pc[t] = "idle"
    /\ ProcessEnds

Crash ==
    /\ "crash" \in Failures
    /\ mode # "down"
    /\ ProcessEnds

\* A store past the end of the mapping: nothing checks the capacity.
Fault ==
    /\ \E t \in Threads :
           \/ pc[t] = "size" /\ end_off \notin Addresses
           \/ /\ pc[t] = "copy" /\ copied < Len(Pushed(t))
              /\ end_off + 1 + copied \notin Addresses
    /\ ProcessEnds

PowerFailure ==
    /\ "power" \in Failures
    /\ mode # "down" \/ mem # media
    /\ \/ UseLibpmem /\ Stop(media, media[0]) /\ UNCHANGED media
       \/ ~UseLibpmem /\ ProcessEnds

-----------------------------------------------------------------------------
Step(t) ==
    \/ Lock(t)
    \/ Read(t)
    \/ StoreSize(t)
    \/ PersistSize(t)
    \/ CopyWord(t)
    \/ PersistData(t)
    \/ Count(t)
    \/ MapKey(t)
    \/ Return(t)

Recover == RecoverNext \/ RecoveryDone

Next ==
    \/ Open
    \/ Recover
    \/ \E t \in Threads :
           \/ \E k \in Keys : Call(t, "get", k, <<>>)
           \/ \E k \in Keys, v \in Values : Call(t, "set", k, v)
           \/ Step(t)
    \/ WriteBack
    \/ Close
    \/ Crash
    \/ Fault
    \/ PowerFailure

Spec == Init /\ [][Next]_vars

\* The process keeps running: recovery goes on, and so does a thread that
\* holds the mutex or has returned from it; a thread that faults is stopped.
Fairness ==
    /\ WF_vars(Recover)
    /\ WF_vars(Fault)
    /\ \A t \in Threads : WF_vars(Step(t))
FairSpec == Spec /\ Fairness

-----------------------------------------------------------------------------
(* Properties                                                              *)

Types ==
    /\ UseLibpmem \in Builds
    /\ mem \in [Addresses -> Nat]
    /\ media \in [Addresses -> Nat]
    /\ mode \in {"down", "recovering", "open"}
    /\ end_off \in 0 .. Capacity
    /\ sequence \in Nat
    /\ current \in Nat
    /\ hash_map \in [Keys -> Slices \cup {NoSlice}]
    /\ mut \in Threads \cup {NoOwner}
    /\ pc \in [Threads -> {"idle", "lock", "read", "size", "persistSize", "copy",
                           "count", "map", "ret"}]
    /\ op \in [Threads -> {"get", "set", "none"}]
    /\ key \in [Threads -> Keys \cup {<<>>}]
    /\ value \in [Threads -> Values \cup {<<>>}]
    /\ part \in {"key", "value"}
    /\ copied \in Nat
    /\ nvm_key \in Slices
    /\ nvm_val \in Slices
    /\ answer \in [Threads -> Seq(Nat) \cup {NotFound}]
    /\ log \in Seq([key : Keys, value : Values, at : Nat])
    /\ acked \in Nat

InMapping(s) == s.off + s.len <= Capacity

\* The slices hash_map points at, those Append has pushed back, and the two
\* that Recovery reads next.
SlicesInside ==
    /\ \A k \in Keys : hash_map[k] # NoSlice => InMapping(hash_map[k])
    /\ InMapping(nvm_key) /\ InMapping(nvm_val)
    /\ mode = "recovering" /\ current < sequence =>
           LET k == SliceAt(end_off) IN InMapping(SliceAt(k.off + k.len))

\* Every variable has its type, and no load leaves the mapping, after whatever
\* failed: nothing but the log itself bounds what Recovery and Get read.
TypeOK == Types /\ SlicesInside

\* The records follow one another without a gap from word 1 on, and _end_off
\* stands behind the last of them whenever no Append is under way: what one
\* process leaves, the next one finds.
Tiled ==
    /\ \A i \in 1 .. Len(log) : log[i].at = EndOfLog(i - 1)
    /\ mode = "recovering" => end_off = EndOfLog(current)
    /\ mode = "open" /\ mut = NoOwner => end_off = EndOfLog(Len(log))

RecordsIn(m) ==
    \A i \in 1 .. Len(log) :
        /\ Holds(m, log[i].at, log[i].key)
        /\ Holds(m, ValueAt(log[i]), log[i].value)

\* The count tells how many whole records lie in the mapping, at every moment
\* of a Set and after every restart.
Counted == mem[0] = Len(log) /\ RecordsIn(mem)

\* A record is in persistent memory before it is counted, and the count there
\* never runs ahead: whenever the power fails, the records counted on the media
\* are whole (lines 74-76: the slices are persisted first, then counted).
Durable ==
    UseLibpmem => media[0] <= Len(log) /\ RecordsIn(media)

\* hash_map's entry for k is the value of its latest record among the first n.
PointsTo(k, n) ==
    \/ /\ hash_map[k] = NoSlice
       /\ \A i \in 1 .. n : log[i].key # k
    \/ \E i \in 1 .. n :
           /\ log[i].key = k
           /\ hash_map[k] = ValueSlice(log[i])
           /\ \A j \in i + 1 .. n : log[j].key # k

\* The index agrees with the log: with the records read so far while Recovery
\* runs, with all of them when the mutex is free.
Indexed ==
    /\ mode = "recovering" => \A k \in Keys : PointsTo(k, current)
    /\ mode = "open" /\ mut = NoOwner => \A k \in Keys : PointsTo(k, Len(log))

\* A record is never overwritten while it is counted, so the slices that
\* hash_map and callers hold stay what they were.
AppendOnly ==
    [][\A a \in 1 .. EndOfLog(Len(log)) - 1 :
           Len(log') >= Len(log) => mem'[a] = mem[a]]_vars

\* Sets whose call has returned are still in the store (src/README.md:14).
AckedSurvive == acked <= Len(log)

\* The store is a list of Sets; calls take effect on it one at a time, a Get
\* answers with the latest value of its key, and whatever ends the process
\* leaves a prefix of the list.
Store == INSTANCE DurableKV WITH
    store <- [i \in 1 .. Len(log) |->
                 [key |-> log[i].key, value |-> log[i].value]],
    done <- [t \in Threads |-> pc[t] \in {"map", "ret"}],
    NoArgument <- <<>>

ImplementsStore == Store!Spec

\* Recovery comes to an end, whatever the last process left, and whoever takes
\* the mutex gives it back, or the process ends.
NeverStuck ==
    \A t \in Threads :
        mode = "recovering" \/ mut = t ~> mode # "recovering" /\ mut # t
=============================================================================
