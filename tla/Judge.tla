-------------------------------- MODULE Judge --------------------------------
(***************************************************************************)
(* The load generator of judge/: threads that fill key_pool in set_pure,   *)
(* and, once they are joined, threads that draw keys from it in get_pure.  *)
(* key_pool and POOL_TOP are shared without a lock.  Each thread takes its *)
(* keys and values from a Random of its own.  The calls of the DB are      *)
(* commented out, so nothing reads what key_pool holds: the places that    *)
(* are written and drawn are modelled, not the words in them.              *)
(***************************************************************************)
EXTENDS Integers, FiniteSets

CONSTANTS
    Threads,            \* NUM_THREADS of them
    PER_SET,            \* rounds of a thread in set_pure
    PER_GET,            \* and in get_pure
    Sampled,            \* the values of cnt at which a key is kept
    RNDSTOREDNUMBERS,   \* numbers a Random generates ahead
    Window              \* numbers a caller of nextUnsignedInt uses (24)

ASSUME CountsAssumption ==
    /\ IsFiniteSet(Threads) /\ Threads # {} /\ PER_SET \in Nat /\ PER_GET \in Nat
    /\ Sampled \subseteq 0 .. PER_SET - 1
ASSUME RandomAssumption ==
    /\ RNDSTOREDNUMBERS \in Nat \ {0} /\ RNDSTOREDNUMBERS % 4 = 0
    /\ Window \in Nat \ {0} /\ RNDSTOREDNUMBERS % Window = 0

VARIABLES
    phase,      \* what main runs: "set", "get" or "done"
    POOL_TOP,   \* words used of key_pool, as its last writer thought
    pc,         \* where thread t stands in its loop
    cnt,        \* rounds thread t has left
    rnd,        \* rnd[t]: its Random
    at,         \* the place in key_pool to which t copies a key
    sum,        \* the POOL_TOP that t is about to store
    id          \* the place t has drawn in get_pure

random == <<rnd, cnt>>
locals == <<at, sum>>
vars == <<phase, POOL_TOP, pc, random, locals, id>>

KeyWords == 2
NoId == -1

-----------------------------------------------------------------------------
(* Random: numbers are known by the order in which they were generated     *)

\* Mutant: a group of four begun is not generated again.
WholeGroups(r) == (r.next - 1) \div 4

Groups(r) == r.next \div 4 + (IF r.next % 4 # 0 THEN 1 ELSE 0)

refillRandomUnsignedInts(r) ==
    [next |-> 0,
     made |-> r.made + 4 * Groups(r),
     ints |-> [i \in DOMAIN r.ints |->
                  IF i < 4 * Groups(r) THEN r.made + i + 1 ELSE r.ints[i]]]

NewRandom ==
    refillRandomUnsignedInts(
        [next |-> RNDSTOREDNUMBERS, made |-> 0,
         ints |-> [i \in 0 .. RNDSTOREDNUMBERS - 1 |-> 0]])

nextUnsignedInt(r) ==
    LET moved == [r EXCEPT !.next = @ + Window] IN
    IF moved.next = RNDSTOREDNUMBERS THEN refillRandomUnsignedInts(moved) ELSE moved

-----------------------------------------------------------------------------
(* set_pure                                                                *)

Init ==
    /\ phase = "set"
    /\ POOL_TOP = 0
    /\ pc = [t \in Threads |-> "loop"]
    /\ cnt = [t \in Threads |-> PER_SET]
    /\ rnd = [t \in Threads |-> NewRandom]
    /\ at = [t \in Threads |-> 0]
    /\ sum = [t \in Threads |-> 0]
    /\ id = [t \in Threads |-> NoId]

DrawKey(t) ==
    /\ phase = "set" /\ pc[t] = "loop" /\ cnt[t] > 0
    /\ cnt' = [cnt EXCEPT ![t] = @ - 1]
    /\ rnd' = [rnd EXCEPT ![t] = nextUnsignedInt(@)]
    /\ pc' = [pc EXCEPT ![t] = IF cnt'[t] \in Sampled THEN "copy" ELSE "loop"]
    /\ UNCHANGED <<phase, POOL_TOP, locals, id>>

\* memcpy(key_pool + POOL_TOP, ...)
CopyKey(t) ==
    /\ pc[t] = "copy"
    /\ at' = [at EXCEPT ![t] = POOL_TOP]
    /\ pc' = [pc EXCEPT ![t] = "add"]
    /\ UNCHANGED <<phase, POOL_TOP, random, sum, id>>

\* Mutant: POOL_TOP counts bytes.
RaisedByBytes(top) == top + 8 * KeyWords

Raised(top) == top + KeyWords

\* POOL_TOP += 2 is a load, or the value loaded for the address, and a store.
AddToTop(t) ==
    /\ pc[t] = "add"
    /\ \E top \in {at[t], POOL_TOP} : sum' = [sum EXCEPT ![t] = Raised(top)]
    /\ pc' = [pc EXCEPT ![t] = "store"]
    /\ UNCHANGED <<phase, POOL_TOP, random, at, id>>

StoreTop(t) ==
    /\ pc[t] = "store"
    /\ POOL_TOP' = sum[t]
    /\ at' = [at EXCEPT ![t] = 0]
    /\ sum' = [sum EXCEPT ![t] = 0]
    /\ pc' = [pc EXCEPT ![t] = "loop"]
    /\ UNCHANGED <<phase, random, id>>

-----------------------------------------------------------------------------
(* main and get_pure                                                       *)

Finished(t) == pc[t] = "loop" /\ cnt[t] = 0

\* Mutant: one thread is waited for.
OneJoined == \E t \in Threads : Finished(t)

Joined == \A t \in Threads : Finished(t)

StartGets ==
    /\ phase = "set" /\ Joined
    /\ phase' = "get"
    /\ cnt' = [t \in Threads |-> PER_GET]
    /\ rnd' = [t \in Threads |-> NewRandom]
    /\ UNCHANGED <<POOL_TOP, pc, locals, id>>

\* What the normal distribution around POOL_TOP / 2, whose deviation is a
\* hundredth of POOL_TOP, gives at nine deviations at most, made even.
Drawn ==
    {n - (n % 2) : n \in (POOL_TOP * 41) \div 100 .. (POOL_TOP * 59) \div 100}

edge == (POOL_TOP * 196) \div 10000

\* The write branch; the other one reads.
Writes(i) == 2 * i - POOL_TOP > 2 * edge \/ POOL_TOP - 2 * i > 2 * edge

\* The modulus is zero when one key is left in the pool.
DrawId(t) ==
    /\ phase = "get" /\ pc[t] = "loop" /\ cnt[t] > 0
    /\ POOL_TOP > 2
    /\ cnt' = [cnt EXCEPT ![t] = @ - 1]
    /\ \E n \in Drawn :
           LET i == n % (POOL_TOP - 2) IN
           /\ id' = [id EXCEPT ![t] = i]
           /\ rnd' = [rnd EXCEPT ![t] = IF Writes(i) THEN nextUnsignedInt(@) ELSE @]
    /\ UNCHANGED <<phase, POOL_TOP, pc, locals>>

Finish ==
    /\ phase = "get" /\ Joined
    /\ phase' = "done"
    /\ UNCHANGED <<POOL_TOP, pc, random, locals, id>>

\* main has returned.
Terminated == phase = "done" /\ UNCHANGED vars

Next ==
    \/ \E t \in Threads :
           \/ DrawKey(t)
           \/ CopyKey(t)
           \/ AddToTop(t)
           \/ StoreTop(t)
           \/ DrawId(t)
    \/ StartGets
    \/ Finish
    \/ Terminated

Spec == Init /\ [][Next]_vars

-----------------------------------------------------------------------------
(* Properties                                                              *)

\* The samples the threads have begun.
Begun == {s \in Threads \X Sampled : cnt[s[1]] <= s[2]}

\* However the unlocked additions to POOL_TOP race, a copy stays below two
\* words for each sample begun, and POOL_TOP with it: a key_pool of two words
\* for each sample is big enough (judge/README.md leaves its size to the user).
PoolFits ==
    phase = "set" =>
        LET limit == KeyWords * Cardinality(Begun) IN
        /\ POOL_TOP <= limit
        /\ \A t \in Threads : pc[t] = "add" => at[t] + KeyWords <= limit

\* Additions get lost, but two samples of each thread leave two keys in the
\* pool at least, whoever stores last: get_pure never divides by zero, and it
\* draws an even place of the pool.
GetsDefined ==
    phase = "get" /\ Cardinality(Sampled) >= 2 =>
        /\ POOL_TOP >= 2 * KeyWords
        /\ \A t \in Threads :
               id[t] # NoId => id[t] % KeyWords = 0 /\ id[t] + KeyWords < POOL_TOP

NumbersOf(r) == {r.ints[i] : i \in r.next .. r.next + Window - 1}

\* Each window handed out lies in the buffer, across refills, and its numbers
\* were never handed out before: keys repeat by chance only.
WindowsFresh ==
    [][\A t \in Threads :
           phase' = phase /\ rnd'[t] # rnd[t] =>
               /\ rnd'[t].next + Window <= RNDSTOREDNUMBERS
               /\ \A m \in NumbersOf(rnd[t]), n \in NumbersOf(rnd'[t]) : m < n]_vars
=============================================================================
