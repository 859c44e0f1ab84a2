--------------------------- MODULE PersistantPool ---------------------------
(***************************************************************************)
(* nvm_engine/PersistantPool.hpp: values kept in a row of libpmemobj       *)
(* pools.  A value is encoded into a chunk that is reserved first and      *)
(* becomes allocated when it is published; a KVSRef finds it again.  When  *)
(* no pool has room the whole store is turned off until enough bytes have  *)
(* been freed.  The globals are shared by the threads without a lock: a    *)
(* step is one access to them or one call of libpmemobj.                   *)
(***************************************************************************)
EXTENDS Integers, FiniteSets

CONSTANTS
    Threads,    \* callers of the store
    Values,
    Offsets,    \* where in a pool libpmemobj can place a chunk
    Room,       \* Room[c]: bytes of chunk c, 0 if there is none
    Requests,   \* what callers encode: <<value, compress>>
    Length,     \* Length[q]: bytes of q's value, compressed if q says so
    UIntSpan,   \* values of an unsigned int: 2^32
    pool_count_,
    AvailMin,   \* dcpmm_avail_size_min_
    Batch,      \* actions published at a time: 32UL
    Snappy,     \* whether SNAPPY is defined
    NoRef,      \* a call without a KVSRef
    Garbage,    \* data no value was stored in
    Aborted     \* KVSDecodeValueRef called abort() and has no result

Pools == 0 .. pool_count_ - 1
Chunks == Pools \X Offsets

ASSUME PoolsAssumption == pool_count_ \in Nat \ {0} /\ AvailMin \in Nat
ASSUME BatchAssumption == Batch \in Nat \ {0}
ASSUME LengthAssumption ==
    /\ Room \in [Chunks -> Nat]
    /\ Requests \subseteq Values \X BOOLEAN
    /\ Length \in [Requests -> Nat]
    /\ \A q \in Requests : q[2] => Length[q] # 0
    /\ UIntSpan \in Nat \ {0}
ASSUME BoundedAssumption == IsFiniteSet(Threads)
\* Garbage and Aborted are no values, and Garbage is no stored one.
ASSUME GarbageAssumption ==
    /\ Garbage \notin Values /\ Aborted \notin Values \cup {Garbage}
    /\ Garbage \notin [value : Values, compressed : BOOLEAN]
    /\ Snappy \in BOOLEAN

kEncodingRawCompressed == 0
kEncodingRawUncompressed == 1
kEncodingPtrCompressed == 2
kEncodingPtrUncompressed == 3

VARIABLES
    mode,       \* "closed" (pools_ is nullptr), "opening" or "open"
    handles,    \* the pools whose Pool::pool is set
    locked,     \* the pools libpmemobj holds open for this process
    files,      \* the pools that exist
    heap,       \* heap[c]: chunk c is "free", "reserved" or "allocated"
    hdr,        \* hdr[c]: the encoding in front of the data of c
    mem,        \* mem[c]: the data of c as the CPUs see it
    media,      \* media[c]: the data of c in persistent memory
    next_pool_index_,  \* modulo pool_count_, its only use
    dcpmm_is_avail_,
    dcpmm_avail_size_,
    pc,         \* where thread t stands
    value,      \* value[t], compress[t]: what t encodes
    compress,
    pool_index, \* the pool ReservePmem tries next
    round,      \* i: rounds ReservePmem's loop has done
    refused,    \* history: the pools that had no room
    ref,        \* the KVSRef t's call fills in or frees
    work,       \* what the caller handed to t's KVSPublish or dump
    pacts,      \* the reservations KVSPublish has not published yet
    held,       \* what the caller holds: KVSRefs and the pobj_actions to
                \*     publish, with the value each was made from
    lost        \* history: chunks a failure left allocated and unreferenced

library == <<handles, locked, files>>
data == <<hdr, mem, media>>
avail == <<dcpmm_is_avail_, dcpmm_avail_size_>>
encoding == <<value, compress, pool_index, round, refused>>
publishing == <<work, pacts>>
caller == <<held, lost>>
vars == <<mode, library, heap, data, next_pool_index_, avail, pc, encoding,
          ref, publishing, caller>>

\* A stored value: in a compressed form or not.
Stored(v, c) == [value |-> v, compressed |-> c]

ChunkOf(r) == <<r.pool_index, r.off_in_pool>>

-----------------------------------------------------------------------------
Init ==
    /\ mode = "closed"
    /\ handles = {}
    /\ locked = {}
    /\ files = {}
    /\ heap = [c \in Chunks |-> "free"]
    /\ hdr = [c \in Chunks |-> kEncodingRawUncompressed]
    /\ mem = [c \in Chunks |-> Garbage]
    /\ media = [c \in Chunks |-> Garbage]
    /\ next_pool_index_ = 0
    /\ dcpmm_is_avail_ = TRUE
    /\ dcpmm_avail_size_ = 0
    /\ pc = [t \in Threads |-> "idle"]
    /\ value = [t \in Threads |-> Garbage]
    /\ compress = [t \in Threads |-> FALSE]
    /\ pool_index = [t \in Threads |-> 0]
    /\ round = [t \in Threads |-> 0]
    /\ refused = [t \in Threads |-> {}]
    /\ ref = [t \in Threads |-> NoRef]
    /\ work = [t \in Threads |-> {}]
    /\ pacts = [t \in Threads |-> {}]
    /\ held = {}
    /\ lost = {}

-----------------------------------------------------------------------------
(* KVSOpen and KVSCLose                                                    *)

KVSOpen ==
    /\ mode = "closed"
    /\ mode' = "opening"
    /\ UNCHANGED <<library, heap, data, next_pool_index_, avail, pc, encoding,
                   ref, publishing, caller>>

\* Round i of the loop creates pool i or opens it.  KVSRoot::size, which
\* nothing reads, is left out.
OpenPool(i) ==
    /\ mode = "opening" /\ handles = 0 .. i - 1
    /\ i \notin locked
    /\ files' = files \cup {i}
    /\ locked' = locked \cup {i}
    /\ handles' = handles \cup {i}
    /\ mode' = IF i = pool_count_ - 1 THEN "open" ELSE mode
    /\ UNCHANGED <<heap, data, next_pool_index_, avail, pc, encoding, ref,
                   publishing, caller>>

\* Mutant: the pools opened before are forgotten.
ForgetHandles ==
    /\ handles' = {}
    /\ UNCHANGED locked

\* delete[] pools_ closes every pool that was opened, and with it drops the
\* reservations that were not published.
DeletePools ==
    /\ handles' = {}
    /\ locked' = locked \ handles

\* Neither pmemobj_create nor pmemobj_open has pool i: -EIO.
OpenFails(i) ==
    /\ mode = "opening" /\ handles = 0 .. i - 1
    /\ DeletePools
    /\ mode' = "closed"
    /\ UNCHANGED <<files, heap, data, next_pool_index_, avail, pc, encoding,
                   ref, publishing, caller>>

\* Reservations live in the process that made them.
Kept(c) == heap[c] = "allocated"
Released == [c \in Chunks |-> IF Kept(c) THEN heap[c] ELSE "free"]
KeptData(d) == [c \in Chunks |-> IF Kept(c) THEN d[c] ELSE Garbage]
KeptHeaders(e) ==
    [c \in Chunks |-> IF Kept(c) THEN e[c] ELSE kEncodingRawUncompressed]

\* The caller closes when no call is under way, and with nothing to publish
\* any more.
KVSCLose ==
    /\ mode = "open"
    /\ \A t \in Threads : pc[t] = "idle"
    /\ DeletePools
    /\ mode' = "closed"
    /\ heap' = Released
    /\ hdr' = KeptHeaders(hdr)
    /\ mem' = KeptData(mem)
    /\ media' = KeptData(media)
    /\ held' = {h \in held : h.published}
    /\ UNCHANGED <<files, next_pool_index_, avail, pc, encoding, ref,
                   publishing, lost>>

-----------------------------------------------------------------------------
(* KVSEncodeValue                                                          *)

\* The call; with dcpmm_is_avail_ false it returns at once.
KVSEncodeValue(t, v, c) ==
    /\ mode = "open" /\ pc[t] = "idle"
    /\ dcpmm_is_avail_
    /\ value' = [value EXCEPT ![t] = v]
    /\ compress' = [compress EXCEPT ![t] = c]
    /\ pc' = [pc EXCEPT ![t] = "index"]
    /\ UNCHANGED <<mode, library, heap, data, next_pool_index_, avail,
                   pool_index, round, refused, ref, publishing, caller>>

\* next_pool_index_++
NextIndex(t) ==
    /\ pc[t] = "index"
    /\ pool_index' = [pool_index EXCEPT ![t] = next_pool_index_]
    /\ next_pool_index_' = (next_pool_index_ + 1) % pool_count_
    /\ pc' = [pc EXCEPT ![t] = "reserve"]
    /\ UNCHANGED <<mode, library, heap, data, avail, value, compress, round,
                   refused, ref, publishing, caller>>

\* Chunks of pool p that can take t's value behind its header.
Fitting(t, p) ==
    {c \in {p} \X Offsets :
        heap[c] = "free" /\ Room[c] >= 1 + Length[<<value[t], compress[t]>>]}

\* Mutant: the reference names the pool the round robin began with.
FirstTried(t) == IF refused[t] = {} THEN pool_index[t] ELSE CHOOSE p \in refused[t] : TRUE

\* *p_pool_index
PoolFound(t) == pool_index[t]

\* ref->size is an unsigned int, assigned from a size_t.
UInt(n) == n % UIntSpan

\* pmemobj_reserve succeeds: the KVSRef and the action know the chunk.
Reserve(t) ==
    /\ pc[t] = "reserve"
    /\ \E c \in Fitting(t, pool_index[t]) :
           /\ heap' = [heap EXCEPT ![c] = "reserved"]
           /\ ref' = [ref EXCEPT ![t] =
                  [pool_index  |-> PoolFound(t),
                   off_in_pool |-> c[2],
                   size        |-> UInt(Length[<<value[t], compress[t]>>]),
                   encoding    |-> IF compress[t] THEN kEncodingPtrCompressed
                                   ELSE kEncodingPtrUncompressed]]
           /\ pacts' = [pacts EXCEPT ![t] = {c}]
    /\ pc' = [pc EXCEPT ![t] = "store"]
    /\ UNCHANGED <<mode, library, data, next_pool_index_, avail, encoding,
                   work, caller>>

\* Mutant: the index wraps one pool late.
WrappedLate(p) == IF p + 1 > pool_count_ THEN 0 ELSE p + 1

Wrapped(p) == IF p + 1 >= pool_count_ THEN 0 ELSE p + 1

\* Mutant: the last pool is not tried.
StopsEarly(n) == n >= pool_count_ - 1

\* The loop has done pool_count_ rounds.
LastRound(n) == n >= pool_count_

NoRoom(t) ==
    /\ pc[t] = "reserve"
    /\ Fitting(t, pool_index[t]) = {}
    /\ round' = [round EXCEPT ![t] = @ + 1]
    /\ refused' = [refused EXCEPT ![t] = @ \cup {pool_index[t]}]
    /\ pool_index' = [pool_index EXCEPT ![t] = Wrapped(@)]
    /\ pc' = [pc EXCEPT ![t] =
                  IF LastRound(round[t] + 1) THEN "refused" ELSE @]
    /\ UNCHANGED <<mode, library, heap, data, next_pool_index_, avail, value,
                   compress, ref, publishing, caller>>

\* The locals of the calls of T are gone.
ForgetCalls(T) ==
    /\ pc' = [t \in Threads |-> IF t \in T THEN "idle" ELSE pc[t]]
    /\ value' = [t \in Threads |-> IF t \in T THEN Garbage ELSE value[t]]
    /\ compress' = [t \in Threads |-> compress[t] /\ t \notin T]
    /\ pool_index' = [t \in Threads |-> IF t \in T THEN 0 ELSE pool_index[t]]
    /\ round' = [t \in Threads |-> IF t \in T THEN 0 ELSE round[t]]
    /\ refused' = [t \in Threads |-> IF t \in T THEN {} ELSE refused[t]]
    /\ ref' = [t \in Threads |-> IF t \in T THEN NoRef ELSE ref[t]]
    /\ work' = [t \in Threads |-> IF t \in T THEN {} ELSE work[t]]
    /\ pacts' = [t \in Threads |-> IF t \in T THEN {} ELSE pacts[t]]

Return(t) == ForgetCalls({t})

\* No pool has room: the store is turned off and the call returns false.
TurnOff(t) ==
    /\ pc[t] = "refused"
    /\ dcpmm_is_avail_' = FALSE
    /\ Return(t)
    /\ UNCHANGED <<mode, library, heap, data, next_pool_index_,
                   dcpmm_avail_size_, caller>>

\* The header and the data; nobody else knows the chunk yet.
StoreValue(t) ==
    /\ pc[t] = "store"
    /\ hdr' = [hdr EXCEPT ![ChunkOf(ref[t])] = ref[t].encoding]
    /\ mem' = [mem EXCEPT ![ChunkOf(ref[t])] = Stored(value[t], compress[t])]
    /\ pc' = [pc EXCEPT ![t] = "persist"]
    /\ UNCHANGED <<mode, library, heap, media, next_pool_index_, avail,
                   encoding, ref, publishing, caller>>

\* pmem_memcpy_persist is done, and the caller has a KVSRef and an action.
Persist(t) ==
    /\ pc[t] = "persist"
    /\ media' = [media EXCEPT ![ChunkOf(ref[t])] = mem[ChunkOf(ref[t])]]
    /\ held' = held \cup {[ref |-> ref[t], pacts |-> pacts[t],
                           value |-> value[t], published |-> FALSE]}
    /\ Return(t)
    /\ UNCHANGED <<mode, library, heap, hdr, mem, next_pool_index_, avail, lost>>

-----------------------------------------------------------------------------
(* KVSPublish                                                              *)

\* What no call is working on.
AtRest == held \ UNION {work[t] : t \in Threads}

\* The caller publishes each action once.
KVSPublish(t, H) ==
    /\ mode = "open" /\ pc[t] = "idle"
    /\ \A h \in H : ~h.published
    /\ work' = [work EXCEPT ![t] = H]
    /\ pacts' = [pacts EXCEPT ![t] = UNION {h.pacts : h \in H}]
    /\ pc' = [pc EXCEPT ![t] = "publish"]
    /\ UNCHANGED <<mode, library, heap, data, next_pool_index_, avail,
                   encoding, ref, caller>>

\* What is left of the first pool's actions.
FirstPool(t) == {c \in pacts[t] : \A d \in pacts[t] : c[1] <= d[1]}

BatchSize(n) == IF n < Batch THEN n ELSE Batch

\* Mutant: one batch per pool.
PublishOneBatch(t) ==
    /\ pc[t] = "publish" /\ pacts[t] # {}
    /\ \E B \in SUBSET FirstPool(t) :
           /\ Cardinality(B) = BatchSize(Cardinality(FirstPool(t)))
           /\ heap' = [c \in Chunks |-> IF c \in B THEN "allocated" ELSE heap[c]]
    /\ pacts' = [pacts EXCEPT ![t] = @ \ FirstPool(t)]
    /\ UNCHANGED <<mode, library, data, next_pool_index_, avail, pc, encoding,
                   ref, work, caller>>

\* pmemobj_publish: a batch is allocated as a whole or not at all.
PublishBatch(t) ==
    /\ pc[t] = "publish" /\ pacts[t] # {}
    /\ \E B \in SUBSET FirstPool(t) :
           /\ Cardinality(B) = BatchSize(Cardinality(FirstPool(t)))
           /\ heap' = [c \in Chunks |-> IF c \in B THEN "allocated" ELSE heap[c]]
           /\ pacts' = [pacts EXCEPT ![t] = @ \ B]
    /\ UNCHANGED <<mode, library, data, next_pool_index_, avail, pc, encoding,
                   ref, work, caller>>

Published(t) ==
    /\ pc[t] = "publish" /\ pacts[t] = {}
    /\ held' = (held \ work[t]) \cup
                   {[h EXCEPT !.published = TRUE, !.pacts = {}] : h \in work[t]}
    /\ Return(t)
    /\ UNCHANGED <<mode, library, heap, data, next_pool_index_, avail, lost>>

-----------------------------------------------------------------------------
(* KVSFreeValue and KVSDumpFromValueRef, through FreePmem                  *)

\* The caller gives up the reference.
KVSFreeValue(t, h) ==
    /\ mode = "open" /\ pc[t] = "idle"
    /\ h.published
    /\ held' = held \ {h}
    /\ ref' = [ref EXCEPT ![t] = h.ref]
    /\ pc' = [pc EXCEPT ![t] = "free"]
    /\ UNCHANGED <<mode, library, heap, data, next_pool_index_, avail,
                   encoding, publishing, lost>>

\* Mutant: the encoding in memory is left alone.
SameEncoding(e) == e

\* The encoding of the same data next to its header.
RawEncoding(e) ==
    IF e = kEncodingPtrCompressed THEN kEncodingRawCompressed
    ELSE kEncodingRawUncompressed

\* The header in the pool is rewritten in place.
KVSDumpFromValueRef(t, h) ==
    /\ mode = "open" /\ pc[t] = "idle"
    /\ h.published
    /\ hdr' = [hdr EXCEPT ![ChunkOf(h.ref)] = RawEncoding(h.ref.encoding)]
    /\ ref' = [ref EXCEPT ![t] = h.ref]
    /\ work' = [work EXCEPT ![t] = {h}]
    /\ pc' = [pc EXCEPT ![t] = "add"]
    /\ UNCHANGED <<mode, library, heap, mem, media, next_pool_index_, avail,
                   encoding, pacts, caller>>

\* add has taken the value over.
Added(t) ==
    /\ pc[t] = "add"
    /\ held' = held \ work[t]
    /\ work' = [work EXCEPT ![t] = {}]
    /\ pc' = [pc EXCEPT ![t] = "free"]
    /\ UNCHANGED <<mode, library, heap, data, next_pool_index_, avail,
                   encoding, ref, pacts, lost>>

\* Mutant: the object is looked up in the first pool.
FreedFromFirst(r) == <<0, r.off_in_pool>>

\* The object pools_[pool_index].uuid_lo and off_in_pool stand for.
Freed(r) == ChunkOf(r)

\* pmemobj_free
FreePmem(t) ==
    /\ pc[t] = "free"
    /\ heap' = [heap EXCEPT ![Freed(ref[t])] = "free"]
    /\ mem' = [mem EXCEPT ![Freed(ref[t])] = Garbage]
    /\ media' = [media EXCEPT ![Freed(ref[t])] = Garbage]
    /\ hdr' = [hdr EXCEPT ![Freed(ref[t])] = kEncodingRawUncompressed]
    /\ pc' = [pc EXCEPT ![t] = "check"]
    /\ UNCHANGED <<mode, library, next_pool_index_, avail, encoding, ref,
                   publishing, caller>>

\* if (!dcpmm_is_avail_)
CheckAvail(t) ==
    /\ pc[t] = "check"
    /\ \/ /\ dcpmm_is_avail_
          /\ Return(t)
       \/ /\ ~dcpmm_is_avail_
          /\ pc' = [pc EXCEPT ![t] = "count"]
          /\ UNCHANGED <<encoding, ref, publishing>>
    /\ UNCHANGED <<mode, library, heap, data, next_pool_index_, avail, caller>>

\* Mutant: one byte more is needed.
IsEnoughLate(n) == n > AvailMin + 1

IsEnough(n) == n > AvailMin

\* dcpmm_avail_size_ += ref->size, and the comparison with its new value.
CountFreed(t) ==
    LET n == dcpmm_avail_size_ + ref[t].size IN
    /\ pc[t] = "count"
    /\ dcpmm_avail_size_' = n
    /\ \/ /\ IsEnough(n)
          /\ pc' = [pc EXCEPT ![t] = "reset"]
          /\ UNCHANGED <<encoding, ref, publishing>>
       \/ /\ ~IsEnough(n)
          /\ Return(t)
    /\ UNCHANGED <<mode, library, heap, data, next_pool_index_,
                   dcpmm_is_avail_, caller>>

ResetAvail(t) ==
    /\ pc[t] = "reset"
    /\ dcpmm_avail_size_' = 0
    /\ pc' = [pc EXCEPT ![t] = "on"]
    /\ UNCHANGED <<mode, library, heap, data, next_pool_index_,
                   dcpmm_is_avail_, encoding, ref, publishing, caller>>

\* Mutant: only the counter is reset.
LeaveOff(t) ==
    /\ pc[t] = "on"
    /\ Return(t)
    /\ UNCHANGED <<mode, library, heap, data, next_pool_index_, avail, caller>>

TurnOn(t) ==
    /\ pc[t] = "on"
    /\ dcpmm_is_avail_' = TRUE
    /\ Return(t)
    /\ UNCHANGED <<mode, library, heap, data, next_pool_index_,
                   dcpmm_avail_size_, caller>>

-----------------------------------------------------------------------------
(* KVSDecodeValueRef                                                       *)

\* From line 303 on, n bytes of the data d, compressed or not as the encoding
\* says.  Snappy_GetUncompressedLength is compiled in and has a byte to read, or
\* the process aborts; the value that was stored comes out if its form is that
\* one and all of its bytes are read.
Decompressed(d, n, c) ==
    IF c /\ (~Snappy \/ n = 0) THEN Aborted
    ELSE IF d # Garbage /\ d.compressed = c /\ n = Length[<<d.value, c>>]
    THEN d.value
    ELSE Garbage

\* The input is a KVSRef: the data lie in the pool.
Decoded(r) ==
    Decompressed(mem[ChunkOf(r)], r.size, r.encoding = kEncodingPtrCompressed)

\* The input is the slice that add was given, if its header says that the data
\* follow; with another header it is taken for a KVSRef, which it is not.
DecodedRaw(r) ==
    LET e == hdr[ChunkOf(r)] IN
    IF e \in {kEncodingRawCompressed, kEncodingRawUncompressed}
    THEN Decompressed(mem[ChunkOf(r)], r.size, e = kEncodingRawCompressed)
    ELSE Garbage

-----------------------------------------------------------------------------
\* The process ends.  The caller still has what it had published and not given
\* up; other chunks stay allocated for nobody.
ProcessEnds ==
    /\ mode' = "closed"
    /\ handles' = {}
    /\ locked' = {}
    /\ next_pool_index_' = 0
    /\ dcpmm_is_avail_' = TRUE
    /\ dcpmm_avail_size_' = 0
    /\ ForgetCalls(Threads)
    /\ heap' = Released
    /\ media' = KeptData(media)
    /\ held' = {h \in held : h.published}
    /\ lost' = {c \in Chunks : Kept(c)} \ {ChunkOf(h.ref) : h \in held'}
    /\ UNCHANGED files

Crash ==
    /\ mode # "closed"
    /\ ProcessEnds
    /\ mem' = KeptData(mem)
    /\ hdr' = KeptHeaders(hdr)

\* A header that was rewritten in place is what it was before, unless it has
\* left the cache on its own.
PowerFailure ==
    /\ mode # "closed"
    /\ ProcessEnds
    /\ mem' = KeptData(media)
    /\ \E B \in SUBSET {h \in held' : hdr[ChunkOf(h.ref)] # h.ref.encoding} :
           hdr' = [c \in Chunks |->
                      IF \E h \in B : ChunkOf(h.ref) = c
                      THEN (CHOOSE h \in B : ChunkOf(h.ref) = c).ref.encoding
                      ELSE KeptHeaders(hdr)[c]]

\* abort(): a compressed value, and no decompression compiled in.
DecodeAborts ==
    /\ mode = "open" /\ \E t \in Threads : pc[t] = "idle"
    /\ \E h \in held : Decoded(h.ref) = Aborted
    /\ ProcessEnds
    /\ mem' = KeptData(mem)
    /\ hdr' = KeptHeaders(hdr)

Step(t) ==
    \/ NextIndex(t)
    \/ Reserve(t)
    \/ NoRoom(t)
    \/ TurnOff(t)
    \/ StoreValue(t)
    \/ Persist(t)
    \/ PublishBatch(t)
    \/ Published(t)
    \/ Added(t)
    \/ FreePmem(t)
    \/ CheckAvail(t)
    \/ CountFreed(t)
    \/ ResetAvail(t)
    \/ TurnOn(t)

Call(t) ==
    \/ \E q \in Requests : KVSEncodeValue(t, q[1], q[2])
    \/ \E H \in SUBSET AtRest : KVSPublish(t, H)
    \/ \E h \in AtRest :
           \/ KVSFreeValue(t, h)
           \/ KVSDumpFromValueRef(t, h)

Next ==
    \/ KVSOpen
    \/ \E i \in Pools : OpenPool(i) \/ OpenFails(i)
    \/ KVSCLose
    \/ \E t \in Threads : Call(t) \/ Step(t)
    \/ Crash
    \/ PowerFailure
    \/ DecodeAborts

Spec == Init /\ [][Next]_vars

\* A thread inside a call keeps running.
FairSpec == Spec /\ \A t \in Threads : WF_vars(Step(t))

-----------------------------------------------------------------------------
(* Properties                                                              *)

Refs == [pool_index : Pools, off_in_pool : Offsets, size : 0 .. UIntSpan - 1,
         encoding : {kEncodingPtrCompressed, kEncodingPtrUncompressed}]

\* Each thread adds at most one value beyond the threshold before one resets
\* the sum.
MaxAvail == AvailMin + Cardinality(Threads) * (UIntSpan - 1)

Entries == {h \in [ref : Refs, pacts : SUBSET Chunks, value : Values, published : BOOLEAN] :
               h.pacts = IF h.published THEN {} ELSE {ChunkOf(h.ref)}}

Types ==
    /\ mode \in {"closed", "opening", "open"}
    /\ handles \subseteq locked /\ locked \subseteq files /\ files \subseteq Pools
    /\ heap \in [Chunks -> {"free", "reserved", "allocated"}]
    /\ hdr \in [Chunks -> kEncodingRawCompressed .. kEncodingPtrUncompressed]
    /\ mem \in [Chunks -> [value : Values, compressed : BOOLEAN] \cup {Garbage}]
    /\ media \in [Chunks -> [value : Values, compressed : BOOLEAN] \cup {Garbage}]
    /\ next_pool_index_ \in Pools
    /\ dcpmm_is_avail_ \in BOOLEAN
    /\ dcpmm_avail_size_ \in Nat
    /\ pc \in [Threads -> {"idle", "index", "reserve", "refused", "store", "persist",
                           "publish", "add", "free", "check", "count",
                           "reset", "on"}]
    /\ value \in [Threads -> Values \cup {Garbage}]
    /\ compress \in [Threads -> BOOLEAN]
    /\ pool_index \in [Threads -> Pools]
    /\ round \in [Threads -> 0 .. pool_count_]
    /\ refused \in [Threads -> SUBSET Pools]
    /\ ref \in [Threads -> Refs \cup {NoRef}]
    /\ work \in [Threads -> SUBSET held]
    /\ pacts \in [Threads -> SUBSET Chunks]
    /\ held \subseteq Entries
    /\ lost \subseteq Chunks

\* Every variable has its type; the freed bytes stay bounded however many
\* threads free at once.
TypeOK == Types /\ dcpmm_avail_size_ <= MaxAvail

\* What the code can read back: the size of the data fits its field in KVSRef,
\* and they are not compressed if the build cannot decompress.
Readable(h) ==
    LET c == h.ref.encoding = kEncodingPtrCompressed IN
    Length[<<h.value, c>>] < UIntSpan /\ (c => Snappy)

\* Whatever other threads encode, publish, dump and free, and whatever failed
\* since, a reference decodes to the value it was made from, if the build can
\* decode it at all and its size fits in 32 bits.
Resolves == \A h \in held : Readable(h) => Decoded(h.ref) = h.value

\* A value whose KVSPublish has returned is on the media and allocated there:
\* it outlives a power failure at any moment.
Durable ==
    \A h \in held : h.published =>
        /\ heap[ChunkOf(h.ref)] = "allocated"
        /\ media[ChunkOf(h.ref)] = mem[ChunkOf(h.ref)]

\* The chunks t's call has and the caller does not: one it is filling, one it
\* is about to free.
InCall(t) ==
    IF pc[t] \in {"store", "persist", "free"} THEN {ChunkOf(ref[t])} ELSE {}

\* No chunk is leaked by a call that fails or returns, handed out twice or
\* freed under a reference: what is in use is in exactly one pair of hands.
\* Only a failure of the process leaves chunks to nobody.  And libpmemobj is
\* only asked to publish reservations that stand.
Accounted ==
    /\ {c \in Chunks : heap[c] # "free"} =
           lost \cup {ChunkOf(h.ref) : h \in held} \cup UNION {InCall(t) : t \in Threads}
    /\ \A g, h \in held : ChunkOf(g.ref) = ChunkOf(h.ref) => g = h
    /\ \A t, u \in Threads : t # u => InCall(t) \cap InCall(u) = {}
    /\ \A h \in held :
           ChunkOf(h.ref) \notin lost /\ \A t \in Threads : ChunkOf(h.ref) \notin InCall(t)
    /\ \A t \in Threads : InCall(t) \cap lost = {}
    /\ \A t \in Threads : \A c \in pacts[t] : heap[c] = "reserved"

\* The whole store is turned off only after every pool has had no room,
\* wherever the round robin began.
AllRefused == \A t \in Threads : pc[t] = "refused" => refused[t] = Pools

\* What add is given can be read without the reference, wherever the reference
\* could (lines 268-272).
DumpedWhole ==
    \A t \in Threads : pc[t] = "add" =>
        \A h \in work[t] : Readable(h) => DecodedRaw(h.ref) = h.value

\* A KVSOpen that fails and a KVSCLose leave no pool open: the next KVSOpen
\* can have each of them.
HandlesClosed == mode = "closed" => locked = {}

\* While the count of freed bytes is above the threshold, however the frees
\* overlap, some thread is about to reset it and turn the store on.  A refusal
\* that stores false late can still turn it off again (line 192).
TurningOn ==
    dcpmm_avail_size_ > AvailMin => \E t \in Threads : pc[t] = "reset"

\* And that thread does turn the store on.
FreedTurnsOn == dcpmm_avail_size_ > AvailMin ~> dcpmm_is_avail_

\* A stored value can be decoded ("else need to decompress", line 308).
Decodable == \A h \in held : Decoded(h.ref) # Aborted
=============================================================================
