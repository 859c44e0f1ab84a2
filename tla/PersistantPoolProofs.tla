------------------------ MODULE PersistantPoolProofs ------------------------
(***************************************************************************)
(* The values in the pools, for any number of threads, pools, chunks and   *)
(* requests: nothing is leaked, handed out twice or freed under a          *)
(* reference, a reference decodes to its value whatever runs beside it and *)
(* whatever failed since, and the store is turned off and on as it should. *)
(***************************************************************************)
EXTENDS PersistantPool, FiniteSetTheorems, TLAPS

-----------------------------------------------------------------------------
(* The inductive invariant                                                 *)

\* What t encodes, and whether r is the reference a chunk with it gets.
Request(t) == <<value[t], compress[t]>>
Compressed(r) == r.encoding = kEncodingPtrCompressed

\* Whether r has the size of the value v it was made from, in 32 bits.
Sized(r, v) ==
    /\ <<v, Compressed(r)>> \in Requests
    /\ r.size = UInt(Length[<<v, Compressed(r)>>])

\* Rounds of the round robin from pool q to pool p.
Distance(q, p) == IF q < p THEN p - q ELSE p - q + pool_count_

\* The reference Reserve makes of chunk c, and the entry of a value published.
Reference(t, c) ==
    [pool_index  |-> PoolFound(t),
     off_in_pool |-> c[2],
     size        |-> UInt(Length[<<value[t], compress[t]>>]),
     encoding    |-> IF compress[t] THEN kEncodingPtrCompressed
                     ELSE kEncodingPtrUncompressed]

AsPublished(h) == [h EXCEPT !.published = TRUE, !.pacts = {}]

Stores == {"store", "persist"}
Frees == {"free", "check", "count", "reset", "on"}

\* A pool libpmemobj holds open has its handle; closed, there is none, and
\* while the pools are opened they are opened in a row.
OpenInv ==
    /\ locked = handles
    /\ mode = "closed" => handles = {}
    /\ mode = "opening" => \E i \in Pools : handles = 0 .. i - 1

\* The freed bytes stay within what the threads about to reset them added.
MaxSize == UIntSpan - 1
Resetting == {t \in Threads : pc[t] = "reset"}
AvailBounded == dcpmm_avail_size_ <= AvailMin + Cardinality(Resetting) * MaxSize

\* What t encodes; and the pools that refused it are the round[t] pools
\* before pool_index[t].
EncodeInv(t) ==
    /\ pc[t] \in {"index", "reserve", "refused"} \cup Stores => Request(t) \in Requests
    /\ pc[t] \in {"idle", "index"} => round[t] = 0 /\ refused[t] = {}
    /\ pc[t] = "reserve" => round[t] < pool_count_
    /\ pc[t] = "refused" => round[t] = pool_count_
    /\ pc[t] \in {"reserve", "refused"} =>
           refused[t] = {q \in Pools : Distance(q, pool_index[t]) <= round[t]}

\* The reference t's call works with, and what it has already stored there.
RefInv(t) ==
    /\ pc[t] \in Stores \cup Frees \cup {"add"} => ref[t] \in Refs
    /\ pc[t] \in Stores =>
           /\ ref[t].size = UInt(Length[Request(t)])
           /\ Compressed(ref[t]) <=> compress[t]
    /\ pc[t] = "persist" =>
           mem[ChunkOf(ref[t])] = Stored(value[t], compress[t])

\* What t's KVSPublish or dump works on.
WorkInv(t) ==
    /\ pc[t] \notin {"publish", "add"} => work[t] = {}
    /\ pc[t] \notin Stores \cup {"publish"} => pacts[t] = {}
    /\ pc[t] \in Stores => pacts[t] = {ChunkOf(ref[t])}
    /\ pc[t] = "publish" =>
           /\ \A h \in work[t] :
                  /\ ~h.published
                  /\ heap[ChunkOf(h.ref)] = "allocated" \/ ChunkOf(h.ref) \in pacts[t]
           /\ \A c \in pacts[t] : \E h \in work[t] : c = ChunkOf(h.ref)
    /\ pc[t] = "add" =>
           \E h \in held :
               /\ work[t] = {h}
               /\ h.published /\ h.ref = ref[t]
               /\ hdr[ChunkOf(h.ref)] = RawEncoding(h.ref.encoding)

\* A chunk of a published value is allocated, one of a value nobody publishes
\* is reserved still; and no two calls work on the same value.
HeapInv ==
    /\ \A c \in lost : heap[c] = "allocated"
    /\ \A h \in held : h.published => heap[ChunkOf(h.ref)] = "allocated"
    /\ \A h \in AtRest : ~h.published => heap[ChunkOf(h.ref)] = "reserved"
    /\ \A t, u \in Threads : t # u => work[t] \cap work[u] = {}

\* A chunk somebody has a reference to has the value in it, on the media too.
DataInv ==
    \A h \in held :
        /\ mem[ChunkOf(h.ref)] = Stored(h.value, Compressed(h.ref))
        /\ media[ChunkOf(h.ref)] = mem[ChunkOf(h.ref)]
        /\ Sized(h.ref, h.value)

ThreadsInv == \A t \in Threads : EncodeInv(t) /\ RefInv(t) /\ WorkInv(t)

Inv ==
    /\ Types
    /\ OpenInv
    /\ TurningOn /\ AvailBounded
    /\ ThreadsInv
    /\ HeapInv
    /\ Accounted
    /\ DataInv

-----------------------------------------------------------------------------
(* Lemmas                                                                  *)

\* Pools are numbered from 0, and lengths are natural numbers.
LEMMA PoolFacts ==
    /\ pool_count_ \in Nat \ {0} /\ AvailMin \in Nat
    /\ Pools \subseteq Nat /\ 0 \in Pools
    /\ UIntSpan \in Nat \ {0}
    /\ \A q \in Requests : q[1] \in Values /\ q[2] \in BOOLEAN /\ Length[q] \in Nat
<1>1. pool_count_ \in Nat \ {0} /\ AvailMin \in Nat
  BY PoolsAssumption
<1>2. Pools \subseteq Nat /\ 0 \in Pools
  BY <1>1 DEF Pools
<1>3. UIntSpan \in Nat \ {0}
  BY LengthAssumption
<1>4. \A q \in Requests : q[1] \in Values /\ q[2] \in BOOLEAN /\ Length[q] \in Nat
  BY LengthAssumption
<1> QED
  BY <1>1, <1>2, <1>3, <1>4

\* A 32-bit size is at most the largest one, and a length that fits is kept.
LEMMA MaxSizeFacts ==
    /\ MaxSize \in Nat
    /\ \A n \in Nat : UInt(n) \in 0 .. MaxSize /\ (n < UIntSpan => UInt(n) = n)
<1>1. UIntSpan \in Nat \ {0}
  BY PoolFacts
<1> QED
  BY <1>1 DEF MaxSize, UInt

\* What a reference is made of.
LEMMA RefFacts ==
    ASSUME NEW r \in Refs
    PROVE  /\ ChunkOf(r) \in Chunks
           /\ r.pool_index \in Pools /\ r.off_in_pool \in Offsets
           /\ r.size \in Nat /\ r.size <= MaxSize
           /\ r.encoding \in {kEncodingPtrCompressed, kEncodingPtrUncompressed}
           /\ r.encoding \in kEncodingRawCompressed .. kEncodingPtrUncompressed
           /\ RawEncoding(r.encoding) \in kEncodingRawCompressed .. kEncodingPtrUncompressed
<1>1. /\ r.pool_index \in Pools /\ r.off_in_pool \in Offsets /\ r.size \in 0 .. MaxSize
      /\ r.encoding \in {kEncodingPtrCompressed, kEncodingPtrUncompressed}
  BY DEF Refs, MaxSize
<1>2. ChunkOf(r) \in Chunks
  BY <1>1 DEF ChunkOf, Chunks
<1>3. r.size \in Nat /\ r.size <= MaxSize
  BY <1>1, MaxSizeFacts
<1>4. /\ r.encoding \in kEncodingRawCompressed .. kEncodingPtrUncompressed
      /\ RawEncoding(r.encoding) \in kEncodingRawCompressed .. kEncodingPtrUncompressed
  BY <1>1 DEF RawEncoding, kEncodingRawCompressed, kEncodingRawUncompressed,
              kEncodingPtrCompressed, kEncodingPtrUncompressed
<1> QED
  BY <1>1, <1>2, <1>3, <1>4

\* What the caller holds of a value.
LEMMA EntryFacts ==
    ASSUME NEW h \in Entries
    PROVE  /\ h.ref \in Refs /\ ChunkOf(h.ref) \in Chunks
           /\ h.value \in Values /\ h.published \in BOOLEAN
           /\ h.published => h.pacts = {}
           /\ ~h.published => h.pacts = {ChunkOf(h.ref)}
<1>1. /\ h \in [ref : Refs, pacts : SUBSET Chunks, value : Values, published : BOOLEAN]
      /\ h.pacts = IF h.published THEN {} ELSE {ChunkOf(h.ref)}
  BY DEF Entries
<1>2. h.ref \in Refs /\ h.value \in Values /\ h.published \in BOOLEAN
  BY <1>1
<1>3. ChunkOf(h.ref) \in Chunks
  BY <1>2, RefFacts
<1>4. h.published => h.pacts = {}
  BY <1>1
<1>5. ~h.published => h.pacts = {ChunkOf(h.ref)}
  BY <1>1
<1> QED
  BY <1>2, <1>3, <1>4, <1>5

\* A value is published by one update of its entry.
LEMMA PublishedEntry ==
    ASSUME NEW h \in Entries
    PROVE  LET g == AsPublished(h) IN
           /\ g \in Entries
           /\ g.ref = h.ref /\ g.value = h.value /\ g.published
<1>1. h \in [ref : Refs, pacts : SUBSET Chunks, value : Values, published : BOOLEAN]
  BY DEF Entries
<1> DEFINE g == AsPublished(h)
<1>2. /\ g \in [ref : Refs, pacts : SUBSET Chunks, value : Values, published : BOOLEAN]
      /\ g.ref = h.ref /\ g.value = h.value /\ g.published /\ g.pacts = {}
  BY <1>1 DEF AsPublished
<1>3. g \in Entries
  BY <1>2 DEF Entries
<1> QED
  BY <1>2, <1>3

\* A reference names its chunk, and says how long the data is and whether it
\* is compressed.
LEMMA ReferenceFacts ==
    ASSUME NEW t \in Threads, Request(t) \in Requests, pool_index[t] \in Pools,
           NEW c \in {pool_index[t]} \X Offsets
    PROVE  LET r == Reference(t, c) IN
           /\ r \in Refs /\ ChunkOf(r) = c
           /\ r.size = UInt(Length[Request(t)])
           /\ Compressed(r) <=> compress[t]
<1> DEFINE r == Reference(t, c)
<1>1. /\ r.pool_index = pool_index[t] /\ r.off_in_pool = c[2]
      /\ r.size = UInt(Length[Request(t)])
      /\ r.encoding = IF compress[t] THEN kEncodingPtrCompressed
                      ELSE kEncodingPtrUncompressed
  BY DEF Reference, PoolFound, Request
<1>2. c[1] = pool_index[t] /\ c[2] \in Offsets /\ c = <<c[1], c[2]>>
  OBVIOUS
<1>3. UInt(Length[<<value[t], compress[t]>>]) \in 0 .. UIntSpan - 1
  BY PoolFacts, MaxSizeFacts DEF Request, MaxSize
<1>4. r \in Refs
  BY <1>2, <1>3 DEF Refs, Reference, PoolFound
<1>5. Compressed(r) <=> compress[t]
  BY <1>1 DEF Compressed, kEncodingPtrCompressed, kEncodingPtrUncompressed
<1>6. ChunkOf(r) = c
  BY <1>1, <1>2 DEF ChunkOf
<1> QED
  BY <1>1, <1>4, <1>5, <1>6

\* The pool tried next is a pool.
LEMMA WrappedFacts == \A p \in Pools : Wrapped(p) \in Pools /\ (p + 1) % pool_count_ \in Pools
<1> TAKE p \in Pools
<1>1. pool_count_ \in Nat \ {0} /\ p \in 0 .. pool_count_ - 1
  BY PoolFacts DEF Pools
<1>2. Wrapped(p) \in Pools
  BY <1>1 DEF Wrapped, Pools
<1>3. (p + 1) % pool_count_ \in 0 .. pool_count_ - 1
  BY <1>1
<1> QED
  BY <1>2, <1>3 DEF Pools

-----------------------------------------------------------------------------
(* Types                                                                   *)

\* Forgetting calls leaves typed locals.
LEMMA ForgetTypes ==
    ASSUME Types, NEW T \in SUBSET Threads, ForgetCalls(T)
    PROVE  /\ pc' \in [Threads -> {"idle", "index", "reserve", "refused", "store",
                                   "persist", "publish", "add", "free", "check",
                                   "count", "reset", "on"}]
           /\ value' \in [Threads -> Values \cup {Garbage}]
           /\ compress' \in [Threads -> BOOLEAN]
           /\ pool_index' \in [Threads -> Pools]
           /\ round' \in [Threads -> 0 .. pool_count_]
           /\ refused' \in [Threads -> SUBSET Pools]
           /\ ref' \in [Threads -> Refs \cup {NoRef}]
           /\ work' \in [Threads -> SUBSET held]
           /\ pacts' \in [Threads -> SUBSET Chunks]
<1>1. 0 \in Pools /\ 0 \in 0 .. pool_count_
  BY PoolFacts
<1>2. pc' \in [Threads -> {"idle", "index", "reserve", "refused", "store",
                           "persist", "publish", "add", "free", "check",
                           "count", "reset", "on"}]
  BY DEF Types, ForgetCalls
<1>3. value' \in [Threads -> Values \cup {Garbage}] /\ compress' \in [Threads -> BOOLEAN]
  BY DEF Types, ForgetCalls
<1>4. pool_index' \in [Threads -> Pools] /\ round' \in [Threads -> 0 .. pool_count_]
  BY <1>1 DEF Types, ForgetCalls
<1>5. refused' \in [Threads -> SUBSET Pools] /\ pacts' \in [Threads -> SUBSET Chunks]
  BY DEF Types, ForgetCalls
<1>6. ref' \in [Threads -> Refs \cup {NoRef}]
  BY DEF Types, ForgetCalls
<1>7. work' \in [Threads -> SUBSET held]
  BY DEF Types, ForgetCalls
<1> QED
  BY <1>2, <1>3, <1>4, <1>5, <1>6, <1>7

\* The chunks that stay allocated keep what they have.
LEMMA KeptTypes ==
    ASSUME Types
    PROVE  /\ Released \in [Chunks -> {"free", "reserved", "allocated"}]
           /\ KeptHeaders(hdr) \in [Chunks -> kEncodingRawCompressed .. kEncodingPtrUncompressed]
           /\ KeptData(mem) \in [Chunks -> [value : Values, compressed : BOOLEAN] \cup {Garbage}]
           /\ KeptData(media) \in [Chunks -> [value : Values, compressed : BOOLEAN] \cup {Garbage}]
<1>1. Released \in [Chunks -> {"free", "reserved", "allocated"}]
  BY DEF Types, Released, Kept
<1>2. KeptHeaders(hdr) \in [Chunks -> kEncodingRawCompressed .. kEncodingPtrUncompressed]
  BY DEF Types, KeptHeaders, Kept, kEncodingRawCompressed, kEncodingRawUncompressed,
         kEncodingPtrUncompressed
<1>3. KeptData(mem) \in [Chunks -> [value : Values, compressed : BOOLEAN] \cup {Garbage}]
  BY DEF Types, KeptData, Kept
<1>4. KeptData(media) \in [Chunks -> [value : Values, compressed : BOOLEAN] \cup {Garbage}]
  BY DEF Types, KeptData, Kept
<1> QED
  BY <1>1, <1>2, <1>3, <1>4

\* The invariant holds at the start.
LEMMA InitInv == Init => Inv
<1> SUFFICES ASSUME Init PROVE Inv
  OBVIOUS
<1>1. Types
  BY PoolFacts DEF Init, Types, kEncodingRawCompressed, kEncodingRawUncompressed,
                  kEncodingPtrUncompressed
<1>2. OpenInv
  BY DEF Init, OpenInv
<1>3. TurningOn
  BY PoolFacts DEF Init, TurningOn
<1>4. AvailBounded
  <2>1. Resetting = {}
    BY DEF Init, Resetting
  <2>2. Cardinality(Resetting) = 0
    BY <2>1, FS_EmptySet
  <2>3. Cardinality(Resetting) * MaxSize = 0
    BY <2>2, MaxSizeFacts
  <2> QED
    BY <2>3, PoolFacts DEF Init, AvailBounded
<1>5. ThreadsInv
  BY DEF Init, ThreadsInv, EncodeInv, RefInv, WorkInv, Stores, Frees
<1>6. HeapInv
  BY DEF Init, HeapInv, AtRest
<1>7. Accounted
  BY DEF Init, Accounted, InCall
<1>8. DataInv
  BY DEF Init, DataInv
<1> QED
  BY <1>1, <1>2, <1>3, <1>4, <1>5, <1>6, <1>7, <1>8 DEF Inv

\* Opening and closing the pools.
LEMMA OpenTypes ==
    ASSUME Inv, KVSOpen \/ (\E i \in Pools : OpenPool(i) \/ OpenFails(i)) \/ KVSCLose
    PROVE  Types'
<1> USE DEF Inv
<1>1. CASE KVSOpen
  BY <1>1 DEF KVSOpen, Types, library, data, avail, encoding, publishing, caller
<1>2. ASSUME NEW i \in Pools, OpenPool(i) PROVE Types'
  BY <1>2 DEF OpenPool, Types, data, avail, encoding, publishing, caller
<1>3. ASSUME NEW i \in Pools, OpenFails(i) PROVE Types'
  BY <1>3 DEF OpenFails, DeletePools, OpenInv, Types, data, avail, encoding, publishing, caller
<1>4. CASE KVSCLose
  <2>1. \A t \in Threads : work[t] = {}
    BY <1>4 DEF KVSCLose, ThreadsInv, WorkInv
  <2>2. work' \in [Threads -> SUBSET held']
    BY <1>4, <2>1 DEF KVSCLose, publishing, Types
  <2> QED
    BY <1>4, <2>2, KeptTypes DEF KVSCLose, DeletePools, OpenInv, Types, avail, encoding, publishing
<1> QED
  BY <1>1, <1>2, <1>3, <1>4

\* A failure of the process.
LEMMA FailureTypes ==
    ASSUME Inv, Crash \/ PowerFailure \/ DecodeAborts
    PROVE  Types'
<1> USE DEF Inv
<1>1. ProcessEnds
  BY DEF Crash, PowerFailure, DecodeAborts
<1>2. mem' \in [Chunks -> [value : Values, compressed : BOOLEAN] \cup {Garbage}]
  BY KeptTypes DEF Crash, PowerFailure, DecodeAborts
<1>3. held' \subseteq held
  BY <1>1 DEF ProcessEnds
<1>4. hdr' \in [Chunks -> kEncodingRawCompressed .. kEncodingPtrUncompressed]
  <2>1. CASE Crash \/ DecodeAborts
    BY <2>1, KeptTypes DEF Crash, DecodeAborts
  <2>2. CASE PowerFailure
    <3>0. PICK B \in SUBSET held' :
              hdr' = [c \in Chunks |->
                         IF \E h \in B : ChunkOf(h.ref) = c
                         THEN (CHOOSE h \in B : ChunkOf(h.ref) = c).ref.encoding
                         ELSE KeptHeaders(hdr)[c]]
      BY <2>2 DEF PowerFailure
    <3>1. ASSUME NEW c \in Chunks, \E h \in B : ChunkOf(h.ref) = c
          PROVE  (CHOOSE h \in B : ChunkOf(h.ref) = c).ref.encoding
                     \in kEncodingRawCompressed .. kEncodingPtrUncompressed
      <4> DEFINE g == CHOOSE h \in B : ChunkOf(h.ref) = c
      <4>1. g \in B
        BY <3>1
      <4>2. g \in Entries
        BY <4>1, <1>3 DEF Types
      <4> HIDE DEF g
      <4>3. g.ref \in Refs
        BY <4>2, EntryFacts
      <4>4. g.ref.encoding \in kEncodingRawCompressed .. kEncodingPtrUncompressed
        BY <4>3, RefFacts
      <4> QED
        BY <4>4 DEF g
    <3> QED
      BY <3>0, <3>1, KeptTypes
  <2> QED
    BY <2>1, <2>2
<1>5. \A t \in Threads : work'[t] = {}
  BY <1>1 DEF ProcessEnds, ForgetCalls
<1>6. /\ pc' \in [Threads -> {"idle", "index", "reserve", "refused", "store",
                              "persist", "publish", "add", "free", "check",
                              "count", "reset", "on"}]
      /\ value' \in [Threads -> Values \cup {Garbage}]
      /\ compress' \in [Threads -> BOOLEAN]
      /\ pool_index' \in [Threads -> Pools]
      /\ round' \in [Threads -> 0 .. pool_count_]
      /\ refused' \in [Threads -> SUBSET Pools]
      /\ ref' \in [Threads -> Refs \cup {NoRef}]
      /\ work' \in [Threads -> SUBSET held]
      /\ pacts' \in [Threads -> SUBSET Chunks]
  BY <1>1, ForgetTypes DEF ProcessEnds
<1>7. work' \in [Threads -> SUBSET held']
  BY <1>5, <1>6
<1>8. /\ mode' \in {"closed", "opening", "open"}
      /\ handles' \subseteq locked' /\ locked' \subseteq files' /\ files' \subseteq Pools
      /\ next_pool_index_' \in Pools /\ dcpmm_is_avail_' \in BOOLEAN
      /\ dcpmm_avail_size_' \in Nat
      /\ heap' \in [Chunks -> {"free", "reserved", "allocated"}]
      /\ media' \in [Chunks -> [value : Values, compressed : BOOLEAN] \cup {Garbage}]
      /\ held' \subseteq Entries /\ lost' \subseteq Chunks
  BY <1>1, <1>3, KeptTypes, PoolFacts DEF ProcessEnds, Types
<1> QED
  BY <1>2, <1>4, <1>6, <1>7, <1>8 DEF Types

\* The calls a thread begins.
LEMMA CallTypes ==
    ASSUME Inv, NEW t \in Threads, Call(t)
    PROVE  Types'
<1> USE DEF Inv
<1>1. ASSUME NEW q \in Requests, KVSEncodeValue(t, q[1], q[2]) PROVE Types'
  BY <1>1, PoolFacts
     DEF KVSEncodeValue, Types, library, data, avail, publishing, caller
<1>2. ASSUME NEW H \in SUBSET AtRest, KVSPublish(t, H) PROVE Types'
  <2>1. H \subseteq held
    BY DEF AtRest
  <2>2. UNION {h.pacts : h \in H} \subseteq Chunks
    <3>1. ASSUME NEW h \in H PROVE h.pacts \subseteq Chunks
      <4>1. h \in Entries
        BY <2>1 DEF Types
      <4> QED
        BY <4>1, EntryFacts
    <3> QED
      BY <3>1
  <2> QED
    <3>1. work' \in [Threads -> SUBSET held'] /\ pacts' \in [Threads -> SUBSET Chunks]
      BY <1>2, <2>1, <2>2 DEF KVSPublish, Types, caller
    <3> QED
      BY <1>2, <3>1 DEF KVSPublish, Types, library, data, avail, encoding, caller
<1>3. ASSUME NEW h \in AtRest, KVSFreeValue(t, h) PROVE Types'
  <2>1. h \in held /\ (\A u \in Threads : h \notin work[u]) /\ h.ref \in Refs
    BY EntryFacts DEF AtRest, Types
  <2>2. work' \in [Threads -> SUBSET held']
    BY <1>3, <2>1 DEF KVSFreeValue, publishing, Types
  <2> QED
    BY <1>3, <2>1, <2>2 DEF KVSFreeValue, Types, library, data, avail, encoding, publishing
<1>4. ASSUME NEW h \in AtRest, KVSDumpFromValueRef(t, h) PROVE Types'
  <2>1. h \in held /\ h.ref \in Refs /\ ChunkOf(h.ref) \in Chunks
    BY EntryFacts DEF AtRest, Types
  <2>2. RawEncoding(h.ref.encoding) \in kEncodingRawCompressed .. kEncodingPtrUncompressed
    BY <2>1, RefFacts
  <2> QED
    BY <1>4, <2>1, <2>2 DEF KVSDumpFromValueRef, Types, library, avail, encoding, caller
<1> QED
  BY <1>1, <1>2, <1>3, <1>4 DEF Call

\* The steps of a call.
LEMMA StepTypes ==
    ASSUME Inv, NEW t \in Threads, Step(t)
    PROVE  Types'
<1> USE DEF Inv
<1>0. ASSUME Return(t) 
      PROVE  /\ pc' \in [Threads -> {"idle", "index", "reserve", "refused", "store",
                                     "persist", "publish", "add", "free", "check",
                                     "count", "reset", "on"}]
             /\ value' \in [Threads -> Values \cup {Garbage}]
             /\ compress' \in [Threads -> BOOLEAN]
             /\ pool_index' \in [Threads -> Pools]
             /\ round' \in [Threads -> 0 .. pool_count_]
             /\ refused' \in [Threads -> SUBSET Pools]
             /\ ref' \in [Threads -> Refs \cup {NoRef}]
             /\ work' \in [Threads -> SUBSET held]
             /\ pacts' \in [Threads -> SUBSET Chunks]
  BY <1>0, ForgetTypes DEF Return
<1>1. CASE NextIndex(t)
  BY <1>1, WrappedFacts DEF NextIndex, Types, library, data, avail, publishing, caller
<1>2. CASE Reserve(t)
  <2>1. PICK c \in Fitting(t, pool_index[t]) :
            /\ heap' = [heap EXCEPT ![c] = "reserved"]
            /\ ref' = [ref EXCEPT ![t] = Reference(t, c)]
            /\ pacts' = [pacts EXCEPT ![t] = {c}]
    BY <1>2 DEF Reserve, Reference
  <2>2. pool_index[t] \in Pools /\ c \in {pool_index[t]} \X Offsets /\ c \in Chunks
    BY DEF Types, Fitting, Chunks
  <2>3. Reference(t, c) \in Refs
    BY <1>2, <2>2, ReferenceFacts DEF Reserve, ThreadsInv, EncodeInv
  <2>4. heap' \in [Chunks -> {"free", "reserved", "allocated"}]
    BY <2>1, <2>2 DEF Types
  <2>5. ref' \in [Threads -> Refs \cup {NoRef}] /\ pacts' \in [Threads -> SUBSET Chunks]
    BY <2>1, <2>2, <2>3 DEF Types
  <2> QED
    BY <1>2, <2>4, <2>5
       DEF Reserve, Types, library, data, avail, encoding, caller
<1>3. CASE NoRoom(t)
  <2>1. round[t] + 1 \in 0 .. pool_count_
    BY <1>3, PoolFacts DEF NoRoom, ThreadsInv, EncodeInv, Types
  <2>2. pool_index[t] \in Pools /\ Wrapped(pool_index[t]) \in Pools
    BY WrappedFacts DEF Types
  <2> QED
    BY <1>3, <2>1, <2>2 DEF NoRoom, Types, library, data, avail, publishing, caller
<1>4. CASE TurnOff(t)
  BY <1>4, <1>0 DEF TurnOff, Types, library, data, caller
<1>5. CASE StoreValue(t)
  <2>1. ref[t] \in Refs /\ Request(t) \in Requests
    BY <1>5 DEF StoreValue, ThreadsInv, RefInv, EncodeInv, Stores
  <2>2. Stored(value[t], compress[t]) \in [value : Values, compressed : BOOLEAN]
    BY <2>1, PoolFacts DEF Stored, Request
  <2> QED
    BY <1>5, <2>1, <2>2, RefFacts
       DEF StoreValue, Types, library, avail, encoding, publishing, caller
<1>6. CASE Persist(t)
  <2>1. ref[t] \in Refs /\ Request(t) \in Requests /\ pacts[t] = {ChunkOf(ref[t])}
    BY <1>6 DEF Persist, ThreadsInv, RefInv, EncodeInv, WorkInv, Stores
  <2>2. value[t] \in Values /\ ChunkOf(ref[t]) \in Chunks
    BY <2>1, PoolFacts, RefFacts DEF Request
  <2>3. [ref |-> ref[t], pacts |-> pacts[t], value |-> value[t], published |-> FALSE] \in Entries
    BY <2>1, <2>2 DEF Entries
  <2>4. mem[ChunkOf(ref[t])] \in [value : Values, compressed : BOOLEAN] \cup {Garbage}
    BY <2>2 DEF Types
  <2>5. Return(t)
    BY <1>6 DEF Persist
  <2>6. held' \subseteq Entries /\ work' \in [Threads -> SUBSET held']
    BY <1>6, <2>3, <2>5, <1>0 DEF Persist, Types
  <2> QED
    BY <1>6, <2>4, <2>5, <2>6, <1>0 DEF Persist, Types, library, avail
<1>7. CASE PublishBatch(t)
  <2>1. pacts' \in [Threads -> SUBSET Chunks]
    BY <1>7 DEF PublishBatch, Types
  <2>2. heap' \in [Chunks -> {"free", "reserved", "allocated"}]
    BY <1>7 DEF PublishBatch, Types
  <2> QED
    BY <1>7, <2>1, <2>2 DEF PublishBatch, Types, library, data, avail, encoding, caller
<1>8. CASE Published(t)
  <2>1. Return(t)
    BY <1>8 DEF Published
  <2>2. held' \subseteq Entries
    <3>1. held' = (held \ work[t]) \cup {AsPublished(h) : h \in work[t]}
      BY <1>8 DEF Published, AsPublished
    <3>2. \A h \in work[t] : AsPublished(h) \in Entries
      BY PublishedEntry DEF Types
    <3> QED
      BY <3>1, <3>2 DEF Types
  <2>3. ASSUME NEW u \in Threads PROVE work'[u] \subseteq held'
    <3>1. CASE u = t
      BY <2>1, <3>1 DEF Return, ForgetCalls
    <3>2. CASE u # t
      BY <1>8, <2>1, <3>2 DEF Published, Return, ForgetCalls, HeapInv, Types
    <3> QED
      BY <3>1, <3>2
  <2>4. work' \in [Threads -> SUBSET held']
    BY <2>1, <2>3, <1>0
  <2> QED
    BY <1>8, <2>1, <2>2, <2>4, <1>0 DEF Published, Types, library, data, avail
<1>9. CASE Added(t)
  <2>1. ASSUME NEW u \in Threads PROVE work'[u] \subseteq held'
    BY <1>9 DEF Added, HeapInv, Types
  <2>2. work' \in [Threads -> SUBSET held']
    BY <1>9, <2>1 DEF Added, Types
  <2> QED
    BY <1>9, <2>2 DEF Added, Types, library, data, avail, encoding
<1>10. CASE FreePmem(t)
  <2>1. ref[t] \in Refs
    BY <1>10 DEF FreePmem, ThreadsInv, RefInv, Frees
  <2>2. kEncodingRawUncompressed \in kEncodingRawCompressed .. kEncodingPtrUncompressed
    BY DEF kEncodingRawCompressed, kEncodingRawUncompressed, kEncodingPtrUncompressed
  <2> QED
    BY <1>10, <2>1, <2>2, RefFacts
       DEF FreePmem, Freed, Types, library, avail, encoding, publishing, caller
<1>11. CASE CheckAvail(t)
  BY <1>11, <1>0 DEF CheckAvail, Types, library, data, avail, encoding, publishing, caller
<1>12. CASE CountFreed(t)
  <2>1. dcpmm_avail_size_ + ref[t].size \in Nat
    BY <1>12, RefFacts DEF CountFreed, ThreadsInv, RefInv, Frees, Types
  <2> QED
    BY <1>12, <1>0, <2>1
       DEF CountFreed, Types, library, data, encoding, publishing, caller
<1>13. CASE ResetAvail(t)
  BY <1>13 DEF ResetAvail, Types, library, data, encoding, publishing, caller
<1>14. CASE TurnOn(t)
  BY <1>14, <1>0 DEF TurnOn, Types, library, data, caller
<1> QED
  BY <1>1, <1>2, <1>3, <1>4, <1>5, <1>6, <1>7, <1>8, <1>9, <1>10, <1>11, <1>12, <1>13, <1>14
     DEF Step

\* Every step keeps the types.
LEMMA TypesStep ==
    ASSUME Inv, [Next]_vars
    PROVE  Types'
<1>1. CASE UNCHANGED vars
  BY <1>1 DEF Inv, Types, vars, library, data, avail, encoding, publishing, caller
<1>2. CASE Next
  BY <1>2, OpenTypes, FailureTypes, CallTypes, StepTypes DEF Next
<1> QED
  BY <1>1, <1>2

-----------------------------------------------------------------------------
(* The pools that are open                                                 *)

\* Calls leave the pools as they are.
LEMMA CallsLeavePools ==
    ASSUME NEW t \in Threads, Call(t) \/ Step(t)
    PROVE  UNCHANGED <<mode, library>>
<1>1. CASE Call(t)
  BY <1>1 DEF Call, KVSEncodeValue, KVSPublish, KVSFreeValue, KVSDumpFromValueRef
<1>2. CASE Step(t)
  BY <1>2 DEF Step, NextIndex, Reserve, NoRoom, TurnOff, StoreValue, Persist, PublishBatch,
              Published, Added, FreePmem, CheckAvail, CountFreed, ResetAvail, TurnOn
<1> QED
  BY <1>1, <1>2

\* Every step keeps the pools in a row, and closes the ones it lets go.
LEMMA OpenStep ==
    ASSUME Inv, [Next]_vars
    PROVE  OpenInv'
<1> USE DEF Inv
<1>1. CASE UNCHANGED vars
  BY <1>1 DEF OpenInv, vars, library
<1>2. CASE KVSOpen
  <2>1. 0 \in Pools /\ {} = 0 .. 0 - 1
    BY PoolFacts
  <2> QED
    BY <1>2, <2>1 DEF KVSOpen, OpenInv, library
<1>3. ASSUME NEW i \in Pools, OpenPool(i) PROVE OpenInv'
  <2>1. i \in Nat /\ (i # pool_count_ - 1 => i + 1 \in Pools)
    BY PoolFacts DEF Pools
  <2>2. locked' = handles' /\ handles' = 0 .. (i + 1) - 1
    BY <1>3, <2>1 DEF OpenPool, OpenInv
  <2> QED
    BY <1>3, <2>1, <2>2 DEF OpenPool, OpenInv
<1>4. ASSUME NEW i \in Pools, OpenFails(i) PROVE OpenInv'
  BY <1>4 DEF OpenFails, DeletePools, OpenInv
<1>5. CASE KVSCLose
  BY <1>5 DEF KVSCLose, DeletePools, OpenInv
<1>6. ASSUME NEW t \in Threads, Call(t) \/ Step(t) PROVE OpenInv'
  BY <1>6, CallsLeavePools DEF OpenInv, library
<1>7. CASE Crash \/ PowerFailure \/ DecodeAborts
  BY <1>7 DEF Crash, PowerFailure, DecodeAborts, ProcessEnds, OpenInv
<1> QED
  BY <1>1, <1>2, <1>3, <1>4, <1>5, <1>6, <1>7 DEF Next

-----------------------------------------------------------------------------
(* The bytes freed while the store is turned off                           *)

\* The threads about to reset the sum can be counted.
LEMMA ResettingFacts ==
    /\ IsFiniteSet(Resetting) /\ Cardinality(Resetting) \in Nat
    /\ Cardinality(Resetting) * MaxSize \in Nat
<1>1. IsFiniteSet(Resetting)
  BY BoundedAssumption, FS_Subset DEF Resetting
<1>2. Cardinality(Resetting) \in Nat
  BY <1>1, FS_CardinalityType
<1> QED
  BY <1>1, <1>2, MaxSizeFacts

\* A step that leaves the sum and the threads that reset it alone.
LEMMA AvailSame ==
    ASSUME Inv, dcpmm_avail_size_' = dcpmm_avail_size_,
           \A u \in Threads : (pc'[u] = "reset") <=> (pc[u] = "reset")
    PROVE  TurningOn' /\ AvailBounded'
<1>1. Resetting' = Resetting
  BY DEF Resetting
<1> QED
  BY <1>1 DEF Inv, TurningOn, AvailBounded

\* A step that resets the sum.
LEMMA AvailReset ==
    ASSUME dcpmm_avail_size_' = 0
    PROVE  TurningOn' /\ AvailBounded'
<1>1. IsFiniteSet(Resetting')
  BY BoundedAssumption, FS_Subset DEF Resetting
<1>2. Cardinality(Resetting') \in Nat
  BY <1>1, FS_CardinalityType
<1>3. Cardinality(Resetting') * MaxSize \in Nat
  BY <1>2, MaxSizeFacts
<1> QED
  BY <1>3, PoolFacts DEF TurningOn, AvailBounded

\* Adding a freed value's size: beyond the threshold, the thread that added
\* it is about to reset the sum.
LEMMA AvailCounted ==
    ASSUME Inv, NEW t \in Threads, CountFreed(t)
    PROVE  TurningOn' /\ AvailBounded'
<1> USE DEF Inv
<1> DEFINE k == Cardinality(Resetting)
<1>0. PICK n \in Nat : n = dcpmm_avail_size_ + ref[t].size
  BY RefFacts DEF CountFreed, ThreadsInv, RefInv, Frees, Types
<1>1. ref[t].size \in Nat /\ ref[t].size <= MaxSize /\ dcpmm_avail_size_ \in Nat
  BY RefFacts DEF CountFreed, ThreadsInv, RefInv, Frees, Types
<1>2. CASE IsEnough(n)
  <2>1. pc' = [pc EXCEPT ![t] = "reset"] /\ dcpmm_avail_size_' = n
    BY <1>0, <1>2 DEF CountFreed
  <2>2. t \notin Resetting /\ Resetting' = Resetting \cup {t}
    <3>1. \A u \in Threads : pc'[u] = IF u = t THEN "reset" ELSE pc[u]
      BY <2>1 DEF Types
    <3>2. pc[t] = "count"
      BY DEF CountFreed
    <3> QED
      BY <3>1, <3>2 DEF Resetting
  <2>3. Cardinality(Resetting') = k + 1
    BY <2>2, ResettingFacts, FS_AddElement
  <2>4. (k + 1) * MaxSize = k * MaxSize + MaxSize
    BY ResettingFacts, MaxSizeFacts
  <2>5. n <= AvailMin + k * MaxSize + MaxSize
    BY <1>0, <1>1, ResettingFacts, MaxSizeFacts, PoolFacts DEF AvailBounded
  <2>6. AvailBounded'
    BY <2>1, <2>3, <2>4, <2>5, ResettingFacts, MaxSizeFacts, PoolFacts DEF AvailBounded
  <2>7. pc'[t] = "reset"
    BY <2>1 DEF Types
  <2> QED
    BY <2>6, <2>7 DEF TurningOn
<1>3. CASE ~IsEnough(n)
  <2>1. dcpmm_avail_size_' = n /\ n <= AvailMin
    BY <1>0, <1>3, PoolFacts DEF CountFreed, IsEnough
  <2>2. IsFiniteSet(Resetting')
    BY BoundedAssumption, FS_Subset DEF Resetting
  <2>3. Cardinality(Resetting') \in Nat
    BY <2>2, FS_CardinalityType
  <2>4. Cardinality(Resetting') * MaxSize \in Nat
    BY <2>3, MaxSizeFacts
  <2> QED
    BY <2>1, <2>4, PoolFacts DEF TurningOn, AvailBounded
<1> QED
  BY <1>2, <1>3

\* Every step keeps enough freed bytes in sight, and their sum bounded.
LEMMA AvailStep ==
    ASSUME Inv, [Next]_vars
    PROVE  TurningOn' /\ AvailBounded'
<1> USE DEF Inv
<1>1. CASE UNCHANGED vars
  BY <1>1, AvailSame DEF vars, avail
<1>2. CASE KVSOpen \/ KVSCLose \/ \E i \in Pools : OpenPool(i) \/ OpenFails(i)
  BY <1>2, AvailSame DEF KVSOpen, KVSCLose, OpenPool, OpenFails, avail
<1>3. ASSUME NEW t \in Threads, Call(t) PROVE TurningOn' /\ AvailBounded'
  <2>1. dcpmm_avail_size_' = dcpmm_avail_size_ /\ pc[t] = "idle"
        /\ \E l \in {"index", "publish", "free", "add"} : pc' = [pc EXCEPT ![t] = l]
    BY <1>3 DEF Call, KVSEncodeValue, KVSPublish, KVSFreeValue, KVSDumpFromValueRef, avail
  <2> QED
    BY <2>1, AvailSame DEF Types
<1>4. ASSUME NEW t \in Threads, Step(t) PROVE TurningOn' /\ AvailBounded'
  <2>1. CASE CountFreed(t)
    BY <2>1, AvailCounted
  <2>2. CASE ResetAvail(t)
    BY <2>2, AvailReset DEF ResetAvail
  <2>3. CASE \/ NextIndex(t) \/ Reserve(t) \/ NoRoom(t) \/ StoreValue(t) \/ PublishBatch(t)
             \/ Added(t) \/ FreePmem(t)
    <3>1. dcpmm_avail_size_' = dcpmm_avail_size_ /\ pc[t] # "reset"
          /\ \E l \in {"reserve", "refused", "store", "persist", "publish", "free", "check"} :
                 pc' = [pc EXCEPT ![t] = l]
      <4>1. CASE PublishBatch(t)
        <5>1. pc' = [pc EXCEPT ![t] = "publish"]
          BY <4>1 DEF PublishBatch, Types
        <5> QED
          BY <4>1, <5>1 DEF PublishBatch, avail
      <4>2. CASE NoRoom(t)
        <5>1. PICK l \in {"reserve", "refused"} : pc' = [pc EXCEPT ![t] = l]
          BY <4>2 DEF NoRoom
        <5> QED
          BY <4>2, <5>1 DEF NoRoom, avail
      <4>3. CASE NextIndex(t) \/ Reserve(t) \/ StoreValue(t) \/ Added(t) \/ FreePmem(t)
        BY <4>3 DEF NextIndex, Reserve, StoreValue, Added, FreePmem, avail
      <4> QED
        BY <2>3, <4>1, <4>2, <4>3
    <3> QED
      BY <3>1, AvailSame DEF Types
  <2>4. CASE CheckAvail(t) /\ ~dcpmm_is_avail_
    BY <2>4, AvailSame DEF CheckAvail, avail, Types
  <2>5. CASE (CheckAvail(t) /\ dcpmm_is_avail_) \/ TurnOff(t) \/ Persist(t) \/ Published(t) \/ TurnOn(t)
    <3>1. dcpmm_avail_size_' = dcpmm_avail_size_ /\ pc[t] # "reset" /\ Return(t)
      BY <2>5 DEF CheckAvail, TurnOff, Persist, Published, TurnOn, avail
    <3> QED
      BY <3>1, AvailSame DEF Return, ForgetCalls
  <2> QED
    BY <1>4, <2>1, <2>2, <2>3, <2>4, <2>5 DEF Step
<1>5. CASE Crash \/ PowerFailure \/ DecodeAborts
  BY <1>5, AvailReset DEF Crash, PowerFailure, DecodeAborts, ProcessEnds
<1> QED
  BY <1>1, <1>2, <1>3, <1>4, <1>5 DEF Next

-----------------------------------------------------------------------------
(* What a call leaves alone                                                *)

\* The locals of another thread.
LEMMA LocalsKept ==
    ASSUME Types, NEW t \in Threads, NEW u \in Threads, u # t, Call(t) \/ Step(t)
    PROVE  /\ pc'[u] = pc[u] /\ value'[u] = value[u] /\ compress'[u] = compress[u]
           /\ pool_index'[u] = pool_index[u] /\ round'[u] = round[u]
           /\ refused'[u] = refused[u] /\ ref'[u] = ref[u]
           /\ work'[u] = work[u] /\ pacts'[u] = pacts[u]
<1> DEFINE Same == /\ pc'[u] = pc[u] /\ value'[u] = value[u] /\ compress'[u] = compress[u]
                   /\ pool_index'[u] = pool_index[u] /\ round'[u] = round[u]
                   /\ refused'[u] = refused[u] /\ ref'[u] = ref[u]
                   /\ work'[u] = work[u] /\ pacts'[u] = pacts[u]
<1>0. ASSUME Return(t) PROVE Same
  BY <1>0 DEF Return, ForgetCalls, Types
<1>1. ASSUME NEW q \in Requests, KVSEncodeValue(t, q[1], q[2]) PROVE Same
  BY <1>1 DEF KVSEncodeValue, Types, publishing
<1>2. ASSUME NEW H \in SUBSET AtRest, KVSPublish(t, H) PROVE Same
  BY <1>2 DEF KVSPublish, Types, encoding
<1>3. ASSUME NEW h \in AtRest, KVSFreeValue(t, h) PROVE Same
  BY <1>3 DEF KVSFreeValue, Types, encoding, publishing
<1>4. ASSUME NEW h \in AtRest, KVSDumpFromValueRef(t, h) PROVE Same
  BY <1>4 DEF KVSDumpFromValueRef, Types, encoding
<1>5. CASE NextIndex(t)
  BY <1>5 DEF NextIndex, Types, publishing
<1>6. CASE Reserve(t)
  <2>1. PICK c \in Chunks : pacts' = [pacts EXCEPT ![t] = {c}] /\ ref' = [ref EXCEPT ![t] = Reference(t, c)]
    BY <1>6 DEF Reserve, Reference, Fitting, Types, Chunks
  <2> QED
    BY <1>6, <2>1 DEF Reserve, Types, encoding
<1>7. CASE NoRoom(t)
  <2>1. PICK l \in {"reserve", "refused"} : pc' = [pc EXCEPT ![t] = l]
    BY <1>7 DEF NoRoom
  <2> QED
    BY <1>7, <2>1 DEF NoRoom, Types, publishing
<1>8. CASE StoreValue(t)
  BY <1>8 DEF StoreValue, Types, encoding, publishing
<1>9. CASE PublishBatch(t)
  <2>1. PICK B : pacts' = [pacts EXCEPT ![t] = @ \ B]
    BY <1>9 DEF PublishBatch
  <2> QED
    BY <1>9, <2>1 DEF PublishBatch, Types, encoding
<1>10. CASE Added(t)
  BY <1>10 DEF Added, Types, encoding
<1>11. CASE FreePmem(t)
  BY <1>11 DEF FreePmem, Types, encoding, publishing
<1>12. CASE CheckAvail(t)
  BY <1>12, <1>0 DEF CheckAvail, Types, encoding, publishing
<1>13. CASE CountFreed(t)
  BY <1>13, <1>0 DEF CountFreed, Types, encoding, publishing
<1>14. CASE ResetAvail(t)
  BY <1>14 DEF ResetAvail, Types, encoding, publishing
<1>15. CASE TurnOff(t) \/ Persist(t) \/ Published(t) \/ TurnOn(t)
  BY <1>15, <1>0 DEF TurnOff, Persist, Published, TurnOn
<1> QED
  BY <1>1, <1>2, <1>3, <1>4, <1>5, <1>6, <1>7, <1>8, <1>9, <1>10, <1>11, <1>12, <1>13, <1>14,
     <1>15 DEF Call, Step

\* The reservations a call has: the chunk it fills, or chunks of the values it
\* publishes.
LEMMA PactsOwner ==
    ASSUME Inv, NEW t \in Threads, NEW c \in pacts[t]
    PROVE  /\ pc[t] \in Stores \cup {"publish"}
           /\ heap[c] = "reserved"
           /\ pc[t] \in Stores => c \in InCall(t)
           /\ pc[t] = "publish" => \E h \in work[t] : c = ChunkOf(h.ref) /\ ~h.published
<1>1. heap[c] = "reserved"
  BY DEF Inv, Accounted
<1>2. WorkInv(t)
  BY DEF Inv, ThreadsInv
<1>3. pc[t] \in Stores \cup {"publish"}
  BY <1>2 DEF WorkInv
<1>4. pc[t] \in Stores => c \in InCall(t)
  BY <1>2 DEF WorkInv, InCall, Stores
<1>5. pc[t] = "publish" => \E h \in work[t] : c = ChunkOf(h.ref) /\ ~h.published
  BY <1>2 DEF WorkInv
<1> QED
  BY <1>1, <1>3, <1>4, <1>5

\* A chunk in use, but not by this call: its state and its data.
LEMMA ChunkKept ==
    ASSUME Inv, NEW t \in Threads, Call(t) \/ Step(t),
           NEW c \in Chunks, heap[c] # "free", c \notin InCall(t), c \notin pacts[t]
    PROVE  /\ heap'[c] = heap[c] /\ mem'[c] = mem[c] /\ media'[c] = media[c]
           /\ (\A h \in AtRest : c # ChunkOf(h.ref)) => hdr'[c] = hdr[c]
<1> USE DEF Inv
<1> DEFINE Same == /\ heap'[c] = heap[c] /\ mem'[c] = mem[c] /\ media'[c] = media[c]
                   /\ (\A h \in AtRest : c # ChunkOf(h.ref)) => hdr'[c] = hdr[c]
<1>1. CASE Call(t)
  <2>1. heap' = heap /\ mem' = mem /\ media' = media
    BY <1>1 DEF Call, KVSEncodeValue, KVSPublish, KVSFreeValue, KVSDumpFromValueRef, data
  <2>2. hdr' = hdr \/ \E h \in AtRest : hdr' = [hdr EXCEPT ![ChunkOf(h.ref)] = RawEncoding(h.ref.encoding)]
    BY <1>1 DEF Call, KVSEncodeValue, KVSPublish, KVSFreeValue, KVSDumpFromValueRef, data
  <2> QED
    BY <2>1, <2>2 DEF Types
<1>2. CASE Reserve(t)
  <2>1. PICK d \in Chunks : heap[d] = "free" /\ heap' = [heap EXCEPT ![d] = "reserved"]
    BY <1>2 DEF Reserve, Fitting, Types, Chunks
  <2> QED
    BY <1>2, <2>1 DEF Reserve, data, Types
<1>3. CASE StoreValue(t)
  <2>1. c # ChunkOf(ref[t])
    BY <1>3 DEF StoreValue, InCall
  <2> QED
    BY <1>3, <2>1 DEF StoreValue, Types
<1>4. CASE Persist(t)
  <2>1. c # ChunkOf(ref[t])
    BY <1>4 DEF Persist, InCall
  <2> QED
    BY <1>4, <2>1 DEF Persist, Types
<1>5. CASE PublishBatch(t)
  <2>1. PICK B \in SUBSET FirstPool(t) :
            heap' = [d \in Chunks |-> IF d \in B THEN "allocated" ELSE heap[d]]
    BY <1>5 DEF PublishBatch
  <2>2. c \notin B
    BY DEF FirstPool
  <2> QED
    BY <1>5, <2>1, <2>2 DEF PublishBatch, data
<1>6. CASE FreePmem(t)
  <2>1. c # ChunkOf(ref[t])
    BY <1>6 DEF FreePmem, InCall
  <2> QED
    BY <1>6, <2>1 DEF FreePmem, Freed, Types
<1>7. CASE \/ NextIndex(t) \/ NoRoom(t) \/ TurnOff(t) \/ Published(t) \/ Added(t)
           \/ CheckAvail(t) \/ CountFreed(t) \/ ResetAvail(t) \/ TurnOn(t)
  BY <1>7 DEF NextIndex, NoRoom, TurnOff, Published, Added, CheckAvail, CountFreed, ResetAvail,
              TurnOn, data
<1> QED
  BY <1>1, <1>2, <1>3, <1>4, <1>5, <1>6, <1>7 DEF Step

\* The chunk another call has is not one of this call's.
LEMMA OtherInCall ==
    ASSUME Inv, NEW t \in Threads, NEW u \in Threads, u # t, NEW c \in InCall(u)
    PROVE  c \notin InCall(t) /\ c \notin pacts[t] /\ c \in Chunks /\ heap[c] # "free"
<1>1. c \notin InCall(t)
  BY DEF Inv, Accounted
<1>2. \A h \in held : ChunkOf(h.ref) # c
  BY DEF Inv, Accounted
<1>3. c \notin pacts[t]
  BY <1>1, <1>2, PactsOwner DEF Inv, Types
<1>4. c \in Chunks /\ heap[c] # "free"
  BY DEF Inv, Accounted
<1> QED
  BY <1>1, <1>3, <1>4

\* The chunk of a value this call does not work on is not one of this call's.
LEMMA OtherHeld ==
    ASSUME Inv, NEW t \in Threads, NEW h \in held, h \notin work[t]
    PROVE  /\ ChunkOf(h.ref) \notin InCall(t) /\ ChunkOf(h.ref) \notin pacts[t]
           /\ ChunkOf(h.ref) \in Chunks /\ heap[ChunkOf(h.ref)] # "free"
<1> DEFINE c == ChunkOf(h.ref)
<1>1. c \notin InCall(t)
  BY DEF Inv, Accounted
<1>2. \A g \in work[t] : ChunkOf(g.ref) # c
  BY DEF Inv, Accounted, Types
<1>3. c \notin pacts[t]
  BY <1>1, <1>2, PactsOwner
<1>4. c \in Chunks /\ heap[c] # "free"
  BY DEF Inv, Accounted
<1> QED
  BY <1>1, <1>3, <1>4

-----------------------------------------------------------------------------
(* The calls                                                               *)

\* A thread outside any call.
LEMMA IdleInv ==
    ASSUME NEW u \in Threads, pc'[u] = "idle", round'[u] = 0, refused'[u] = {},
           work'[u] = {}, pacts'[u] = {}
    PROVE  EncodeInv(u)' /\ RefInv(u)' /\ WorkInv(u)'
BY DEF EncodeInv, RefInv, WorkInv, Stores, Frees

\* The threads whose calls are forgotten are outside any call.
LEMMA ForgottenInv ==
    ASSUME NEW T \in SUBSET Threads, ForgetCalls(T), NEW u \in T
    PROVE  EncodeInv(u)' /\ RefInv(u)' /\ WorkInv(u)'
<1>1. /\ pc'[u] = "idle" /\ round'[u] = 0 /\ refused'[u] = {}
      /\ work'[u] = {} /\ pacts'[u] = {}
  BY DEF ForgetCalls
<1> QED
  BY <1>1, IdleInv

\* What the other threads are at stays true: nobody else touches the chunks
\* they fill, publish or dump.
LEMMA OthersStep ==
    ASSUME Inv, NEW t \in Threads, NEW u \in Threads, u # t, Call(t) \/ Step(t)
    PROVE  EncodeInv(u)' /\ RefInv(u)' /\ WorkInv(u)'
<1> USE DEF Inv
<1>1. /\ pc'[u] = pc[u] /\ value'[u] = value[u] /\ compress'[u] = compress[u]
      /\ pool_index'[u] = pool_index[u] /\ round'[u] = round[u]
      /\ refused'[u] = refused[u] /\ ref'[u] = ref[u]
      /\ work'[u] = work[u] /\ pacts'[u] = pacts[u]
  BY LocalsKept
<1>2. EncodeInv(u) /\ RefInv(u) /\ WorkInv(u)
  BY DEF ThreadsInv
<1>3. EncodeInv(u)'
  BY <1>1, <1>2 DEF EncodeInv, Request
<1>4. RefInv(u)'
  <2>1. ASSUME pc[u] = "persist"
        PROVE  mem'[ChunkOf(ref[u])] = mem[ChunkOf(ref[u])]
    <3>1. ChunkOf(ref[u]) \in InCall(u)
      BY <2>1 DEF InCall
    <3> QED
      BY <3>1, OtherInCall, ChunkKept
  <2> QED
    BY <1>1, <1>2, <2>1 DEF RefInv, Request
<1>5. WorkInv(u)'
  <2>1. ASSUME NEW h \in work[u]
        PROVE  /\ heap'[ChunkOf(h.ref)] = heap[ChunkOf(h.ref)]
               /\ hdr'[ChunkOf(h.ref)] = hdr[ChunkOf(h.ref)]
    <3>1. h \in held /\ h \notin work[t]
      BY DEF HeapInv, Types
    <3>2. \A g \in AtRest : ChunkOf(h.ref) # ChunkOf(g.ref)
      BY <3>1 DEF Accounted, AtRest
    <3> QED
      BY <3>1, <3>2, OtherHeld, ChunkKept
  <2>2. work'[u] \subseteq held'
    BY TypesStep DEF Types, Next
  <2>3. ASSUME pc[u] = "publish"
        PROVE  /\ \A h \in work'[u] :
                      /\ ~h.published
                      /\ heap'[ChunkOf(h.ref)] = "allocated" \/ ChunkOf(h.ref) \in pacts'[u]
               /\ \A c \in pacts'[u] : \E h \in work'[u] : c = ChunkOf(h.ref)
    BY <1>1, <1>2, <2>1, <2>3 DEF WorkInv
  <2>4. ASSUME pc[u] = "add"
        PROVE  \E h \in held' :
                   /\ work'[u] = {h}
                   /\ h.published /\ h.ref = ref'[u]
                   /\ hdr'[ChunkOf(h.ref)] = RawEncoding(h.ref.encoding)
    <3>1. PICK h \in held : /\ work[u] = {h}
                            /\ h.published /\ h.ref = ref[u]
                            /\ hdr[ChunkOf(h.ref)] = RawEncoding(h.ref.encoding)
      BY <1>2, <2>4 DEF WorkInv
    <3>2. h \in held'
      BY <1>1, <2>2, <3>1
    <3> QED
      BY <1>1, <2>1, <3>1, <3>2
  <2> QED
    BY <1>1, <1>2, <2>3, <2>4 DEF WorkInv
<1> QED
  BY <1>3, <1>4, <1>5

\* The call a thread begins.
LEMMA OwnCall ==
    ASSUME Inv, NEW t \in Threads, Call(t)
    PROVE  EncodeInv(t)' /\ RefInv(t)' /\ WorkInv(t)'
<1> USE DEF Inv
<1>0. /\ round[t] = 0 /\ refused[t] = {} /\ work[t] = {} /\ pacts[t] = {}
  BY DEF Call, KVSEncodeValue, KVSPublish, KVSFreeValue, KVSDumpFromValueRef, ThreadsInv,
         EncodeInv, WorkInv, Stores
<1>1. ASSUME NEW q \in Requests, KVSEncodeValue(t, q[1], q[2])
      PROVE  EncodeInv(t)' /\ RefInv(t)' /\ WorkInv(t)'
  <2>1. /\ pc'[t] = "index" /\ Request(t)' = q
        /\ round'[t] = 0 /\ refused'[t] = {} /\ work'[t] = {} /\ pacts'[t] = {}
    BY <1>0, <1>1, LengthAssumption DEF KVSEncodeValue, Types, publishing, Request
  <2> QED
    BY <2>1 DEF EncodeInv, RefInv, WorkInv, Stores, Frees
<1>2. ASSUME NEW H \in SUBSET AtRest, KVSPublish(t, H)
      PROVE  EncodeInv(t)' /\ RefInv(t)' /\ WorkInv(t)'
  <2>1. /\ pc'[t] = "publish" /\ work'[t] = H
        /\ pacts'[t] = UNION {h.pacts : h \in H}
    BY <1>2 DEF KVSPublish, Types
  <2>2. \A h \in H : ~h.published /\ h.pacts = {ChunkOf(h.ref)}
    BY <1>2, EntryFacts DEF KVSPublish, AtRest, Types
  <2>3. \A c \in pacts'[t] : \E h \in work'[t] : c = ChunkOf(h.ref)
    BY <2>1, <2>2
  <2>4. \A h \in work'[t] : ~h.published /\ ChunkOf(h.ref) \in pacts'[t]
    BY <2>1, <2>2
  <2> QED
    BY <2>1, <2>3, <2>4 DEF EncodeInv, RefInv, WorkInv, Stores, Frees
<1>3. ASSUME NEW h \in AtRest, KVSFreeValue(t, h)
      PROVE  EncodeInv(t)' /\ RefInv(t)' /\ WorkInv(t)'
  <2>1. /\ pc'[t] = "free" /\ ref'[t] = h.ref /\ work'[t] = {} /\ pacts'[t] = {}
    BY <1>0, <1>3 DEF KVSFreeValue, Types, publishing
  <2>2. h.ref \in Refs
    BY EntryFacts DEF AtRest, Types
  <2> QED
    BY <2>1, <2>2 DEF EncodeInv, RefInv, WorkInv, Stores, Frees
<1>4. ASSUME NEW h \in AtRest, KVSDumpFromValueRef(t, h)
      PROVE  EncodeInv(t)' /\ RefInv(t)' /\ WorkInv(t)'
  <2>1. h \in held /\ h.ref \in Refs /\ ChunkOf(h.ref) \in Chunks
    BY EntryFacts DEF AtRest, Types
  <2>2. /\ pc'[t] = "add" /\ ref'[t] = h.ref /\ work'[t] = {h} /\ pacts'[t] = {}
        /\ held' = held /\ h.published
        /\ hdr'[ChunkOf(h.ref)] = RawEncoding(h.ref.encoding)
    BY <1>0, <1>4, <2>1 DEF KVSDumpFromValueRef, Types, caller
  <2> QED
    BY <2>1, <2>2 DEF EncodeInv, RefInv, WorkInv, Stores, Frees
<1> QED
  BY <1>1, <1>2, <1>3, <1>4 DEF Call

\* One round further from every pool but the one that was just tried.
LEMMA DistanceWrapped ==
    ASSUME NEW p \in Pools, NEW q \in Pools
    PROVE  /\ Distance(q, p) \in 1 .. pool_count_
           /\ q # p => Distance(q, Wrapped(p)) = Distance(q, p) + 1
           /\ Distance(p, Wrapped(p)) = 1
<1>1. pool_count_ \in Nat \ {0} /\ p \in 0 .. pool_count_ - 1 /\ q \in 0 .. pool_count_ - 1
  BY PoolFacts DEF Pools
<1> QED
  BY <1>1 DEF Distance, Wrapped

\* KVSEncodeValue goes on: the pools that refused are the ones tried.
LEMMA OwnEncode ==
    ASSUME Inv, NEW t \in Threads, NextIndex(t) \/ NoRoom(t)
    PROVE  EncodeInv(t)' /\ RefInv(t)' /\ WorkInv(t)'
<1> USE DEF Inv
<1>0. EncodeInv(t) /\ RefInv(t) /\ WorkInv(t)
  BY DEF ThreadsInv
<1>1. CASE NextIndex(t)
  <2>1. /\ pc[t] = "index" /\ pc'[t] = "reserve" /\ Request(t)' = Request(t)
        /\ pool_index'[t] = next_pool_index_ /\ next_pool_index_ \in Pools
        /\ round'[t] = round[t] /\ refused'[t] = refused[t]
        /\ work'[t] = work[t] /\ pacts'[t] = pacts[t]
    BY <1>1 DEF NextIndex, Types, publishing, Request
  <2>2. round[t] = 0 /\ refused[t] = {} /\ work[t] = {} /\ pacts[t] = {} /\ Request(t) \in Requests
    BY <1>0, <2>1 DEF EncodeInv, WorkInv, Stores
  <2>3. \A q \in Pools : ~(Distance(q, next_pool_index_) <= 0)
    BY <2>1, DistanceWrapped
  <2>4. refused'[t] = {q \in Pools : Distance(q, pool_index'[t]) <= round'[t]}
    BY <2>1, <2>2, <2>3
  <2>5. round'[t] < pool_count_
    BY <2>1, <2>2, PoolFacts
  <2>6. EncodeInv(t)'
    BY <2>1, <2>2, <2>4, <2>5 DEF EncodeInv, Stores, Distance
  <2> QED
    BY <2>1, <2>2, <2>6 DEF RefInv, WorkInv, Stores, Frees
<1>2. CASE NoRoom(t)
  <2>0. PICK l \in {"reserve", "refused"} :
            /\ pc' = [pc EXCEPT ![t] = l]
            /\ l = IF LastRound(round[t] + 1) THEN "refused" ELSE "reserve"
    BY <1>2 DEF NoRoom
  <2>1. /\ pc[t] = "reserve" /\ pc'[t] = l /\ Request(t)' = Request(t)
        /\ pool_index'[t] = Wrapped(pool_index[t]) /\ pool_index[t] \in Pools
        /\ round'[t] = round[t] + 1 /\ refused'[t] = refused[t] \cup {pool_index[t]}
        /\ work'[t] = work[t] /\ pacts'[t] = pacts[t] /\ round[t] \in Nat
    BY <1>2, <2>0, PoolFacts DEF NoRoom, Types, publishing, Request
  <2>2. /\ round[t] < pool_count_ /\ work[t] = {} /\ pacts[t] = {} /\ Request(t) \in Requests
        /\ refused[t] = {q \in Pools : Distance(q, pool_index[t]) <= round[t]}
    BY <1>0, <2>1 DEF EncodeInv, WorkInv, Stores
  <2>3. ASSUME NEW q \in Pools
        PROVE  q \in refused'[t] <=> Distance(q, Wrapped(pool_index[t])) <= round[t] + 1
    <3>1. PICK r \in Nat : r = round[t]
      BY <2>1
    <3>2. CASE q = pool_index[t]
      BY <2>1, <3>1, <3>2, DistanceWrapped
    <3>3. CASE q # pool_index[t]
      <4>1. PICK d \in 1 .. pool_count_ : d = Distance(q, pool_index[t])
        BY <2>1, DistanceWrapped
      <4>2. Distance(q, Wrapped(pool_index[t])) = d + 1
        BY <2>1, <3>3, <4>1, DistanceWrapped
      <4>3. q \in refused'[t] <=> d <= r
        BY <2>1, <2>2, <3>1, <3>3, <4>1
      <4>4. d \in Int /\ (d <= r <=> d + 1 <= r + 1)
        BY PoolFacts
      <4> QED
        BY <3>1, <4>2, <4>3, <4>4
    <3> QED
      BY <3>2, <3>3
  <2>4. refused'[t] \subseteq Pools
    BY <2>1, <2>2
  <2>5. refused'[t] = {q \in Pools : Distance(q, pool_index'[t]) <= round'[t]}
    BY <2>1, <2>3, <2>4
  <2>6. /\ l = "reserve" => round'[t] < pool_count_
        /\ l = "refused" => round'[t] = pool_count_
    BY <2>0, <2>1, <2>2, PoolFacts DEF LastRound
  <2>7. EncodeInv(t)'
    BY <2>0, <2>1, <2>2, <2>5, <2>6 DEF EncodeInv, Stores, Distance
  <2> QED
    BY <2>0, <2>1, <2>2, <2>7 DEF RefInv, WorkInv, Stores, Frees
<1> QED
  BY <1>1, <1>2

\* The chunk is reserved, and the value stored in it.
LEMMA OwnStore ==
    ASSUME Inv, NEW t \in Threads, Reserve(t) \/ StoreValue(t)
    PROVE  EncodeInv(t)' /\ RefInv(t)' /\ WorkInv(t)'
<1> USE DEF Inv
<1>0. EncodeInv(t) /\ RefInv(t) /\ WorkInv(t)
  BY DEF ThreadsInv
<1>1. CASE Reserve(t)
  <2>1. PICK c \in Fitting(t, pool_index[t]) :
            /\ ref' = [ref EXCEPT ![t] = Reference(t, c)]
            /\ pacts' = [pacts EXCEPT ![t] = {c}]
    BY <1>1 DEF Reserve, Reference
  <2>2. /\ pc[t] = "reserve" /\ pc'[t] = "store" /\ Request(t)' = Request(t)
        /\ compress'[t] = compress[t]
        /\ ref'[t] = Reference(t, c) /\ pacts'[t] = {c} /\ work'[t] = work[t]
    BY <1>1, <2>1 DEF Reserve, Types, encoding, Request
  <2>3. /\ Request(t) \in Requests /\ work[t] = {}
    BY <1>0, <2>2 DEF EncodeInv, WorkInv
  <2>4. /\ Reference(t, c) \in Refs /\ ChunkOf(Reference(t, c)) = c
        /\ Reference(t, c).size = UInt(Length[Request(t)])
        /\ Compressed(Reference(t, c)) <=> compress[t]
    BY <2>3, ReferenceFacts DEF Fitting, Types
  <2> QED
    BY <2>2, <2>3, <2>4 DEF EncodeInv, RefInv, WorkInv, Stores, Frees, Compressed, ChunkOf
<1>2. CASE StoreValue(t)
  <2>1. /\ pc[t] = "store" /\ pc'[t] = "persist" /\ Request(t)' = Request(t)
        /\ value'[t] = value[t] /\ compress'[t] = compress[t]
        /\ ref'[t] = ref[t] /\ pacts'[t] = pacts[t] /\ work'[t] = work[t]
        /\ mem' = [mem EXCEPT ![ChunkOf(ref[t])] = Stored(value[t], compress[t])]
    BY <1>2 DEF StoreValue, Types, encoding, publishing, Request
  <2>2. ref[t] \in Refs
    BY <1>0, <2>1 DEF RefInv, Stores
  <2>3. mem'[ChunkOf(ref[t])] = Stored(value[t], compress[t])
    BY <2>1, <2>2, RefFacts DEF Types
  <2> QED
    BY <1>0, <2>1, <2>3 DEF EncodeInv, RefInv, WorkInv, Stores, Frees, Compressed, ChunkOf, Stored
<1> QED
  BY <1>1, <1>2

\* KVSPublish goes on: what it has published is allocated.
LEMMA OwnPublish ==
    ASSUME Inv, NEW t \in Threads, PublishBatch(t)
    PROVE  EncodeInv(t)' /\ RefInv(t)' /\ WorkInv(t)'
<1> USE DEF Inv
<1>1. PICK B \in SUBSET FirstPool(t) :
          /\ heap' = [c \in Chunks |-> IF c \in B THEN "allocated" ELSE heap[c]]
          /\ pacts' = [pacts EXCEPT ![t] = @ \ B]
  BY DEF PublishBatch
<1>2. /\ pc[t] = "publish" /\ pc'[t] = pc[t]
      /\ work'[t] = work[t] /\ pacts'[t] = pacts[t] \ B
  BY <1>1 DEF PublishBatch, Types
<1>3. WorkInv(t)
  BY DEF ThreadsInv
<1>4. ASSUME NEW h \in work[t]
      PROVE  ~h.published /\ (heap'[ChunkOf(h.ref)] = "allocated" \/ ChunkOf(h.ref) \in pacts'[t])
  <2>1. ChunkOf(h.ref) \in Chunks
    BY EntryFacts DEF Types
  <2> QED
    BY <1>1, <1>2, <1>3, <2>1 DEF WorkInv
<1>5. \A c \in pacts'[t] : \E h \in work'[t] : c = ChunkOf(h.ref)
  BY <1>2, <1>3 DEF WorkInv
<1> QED
  BY <1>2, <1>4, <1>5 DEF EncodeInv, RefInv, WorkInv, Stores, Frees

\* KVSFreeValue and the dump go on.
LEMMA OwnFree ==
    ASSUME Inv, NEW t \in Threads, pc[t] \in {"add", "free", "check", "count", "reset"},
           NEW l \in {"free", "check", "count", "reset", "on"}, pc' = [pc EXCEPT ![t] = l],
           ref' = ref, pacts' = pacts, work'[t] = {}
    PROVE  EncodeInv(t)' /\ RefInv(t)' /\ WorkInv(t)'
<1>1. ref[t] \in Refs /\ pacts[t] = {}
  BY DEF Inv, ThreadsInv, RefInv, WorkInv, Stores, Frees
<1>2. pc'[t] = l
  BY DEF Inv, Types
<1> QED
  BY <1>1, <1>2 DEF EncodeInv, RefInv, WorkInv, Stores, Frees

\* Every step of a call keeps what its thread is at.
LEMMA OwnStep ==
    ASSUME Inv, NEW t \in Threads, Step(t)
    PROVE  EncodeInv(t)' /\ RefInv(t)' /\ WorkInv(t)'
<1> USE DEF Inv
<1>0. ASSUME Return(t) PROVE EncodeInv(t)' /\ RefInv(t)' /\ WorkInv(t)'
  BY <1>0, ForgottenInv DEF Return
<1>1. CASE NextIndex(t) \/ NoRoom(t)
  BY <1>1, OwnEncode
<1>2. CASE Reserve(t) \/ StoreValue(t)
  BY <1>2, OwnStore
<1>3. CASE PublishBatch(t)
  BY <1>3, OwnPublish
<1>4. CASE TurnOff(t) \/ Persist(t) \/ Published(t) \/ TurnOn(t)
  BY <1>4, <1>0 DEF TurnOff, Persist, Published, TurnOn
<1>5. CASE Added(t)
  BY <1>5, OwnFree DEF Added, Types
<1>6. ASSUME pc[t] \in Frees, work' = work PROVE work'[t] = {}
  BY <1>6 DEF ThreadsInv, WorkInv, Frees
<1>7. CASE FreePmem(t) \/ ResetAvail(t)
  BY <1>7, <1>6, OwnFree DEF FreePmem, ResetAvail, publishing, Frees
<1>8. CASE CheckAvail(t)
  BY <1>8, <1>0, <1>6, OwnFree DEF CheckAvail, publishing, Frees
<1>9. CASE CountFreed(t)
  BY <1>9, <1>0, <1>6, OwnFree DEF CountFreed, publishing, Frees
<1> QED
  BY <1>1, <1>2, <1>3, <1>4, <1>5, <1>7, <1>8, <1>9 DEF Step

\* Every step keeps what the threads are at.
LEMMA ThreadsStep ==
    ASSUME Inv, [Next]_vars
    PROVE  ThreadsInv'
<1> USE DEF Inv
<1>0. SUFFICES ASSUME NEW u \in Threads PROVE (EncodeInv(u) /\ RefInv(u) /\ WorkInv(u))'
  BY DEF ThreadsInv
<1>1. EncodeInv(u) /\ RefInv(u) /\ WorkInv(u)
  BY DEF ThreadsInv
<1>2. ASSUME pc' = pc, UNCHANGED <<heap, hdr, mem, encoding, ref, publishing, held>>
      PROVE  (EncodeInv(u) /\ RefInv(u) /\ WorkInv(u))'
  BY <1>1, <1>2 DEF EncodeInv, RefInv, WorkInv, Request, encoding, publishing
<1>3. CASE UNCHANGED vars
  BY <1>2, <1>3 DEF vars, data, caller
<1>4. CASE KVSOpen \/ \E i \in Pools : OpenPool(i) \/ OpenFails(i)
  BY <1>2, <1>4 DEF KVSOpen, OpenPool, OpenFails, data, caller
<1>5. CASE KVSCLose
  <2>1. pc'[u] = "idle" /\ pc[u] = "idle" /\ round'[u] = round[u] /\ refused'[u] = refused[u]
        /\ work'[u] = work[u] /\ pacts'[u] = pacts[u]
    BY <1>5 DEF KVSCLose, encoding, publishing
  <2>2. round[u] = 0 /\ refused[u] = {} /\ work[u] = {} /\ pacts[u] = {}
    BY <1>1, <2>1 DEF EncodeInv, WorkInv, Stores
  <2> QED
    BY <2>1, <2>2, IdleInv
<1>6. ASSUME NEW t \in Threads, Call(t) \/ Step(t)
      PROVE  (EncodeInv(u) /\ RefInv(u) /\ WorkInv(u))'
  BY <1>6, OthersStep, OwnCall, OwnStep
<1>7. CASE Crash \/ PowerFailure \/ DecodeAborts
  BY <1>7, ForgottenInv DEF Crash, PowerFailure, DecodeAborts, ProcessEnds
<1> QED
  BY <1>3, <1>4, <1>5, <1>6, <1>7 DEF Next

-----------------------------------------------------------------------------
(* What the caller holds                                                   *)

\* The data of a chunk in use that this call neither fills nor frees.
LEMMA DataKept ==
    ASSUME Inv, NEW t \in Threads, Call(t) \/ Step(t),
           NEW c \in Chunks, c \notin InCall(t)
    PROVE  mem'[c] = mem[c] /\ media'[c] = media[c]
<1> USE DEF Inv
<1>1. CASE Call(t)
  BY <1>1 DEF Call, KVSEncodeValue, KVSPublish, KVSFreeValue, KVSDumpFromValueRef, data
<1>2. CASE StoreValue(t) \/ Persist(t) \/ FreePmem(t)
  <2>1. c # ChunkOf(ref[t])
    BY <1>2 DEF StoreValue, Persist, FreePmem, InCall
  <2> QED
    BY <1>2, <2>1 DEF StoreValue, Persist, FreePmem, Freed, Types
<1>3. CASE \/ NextIndex(t) \/ Reserve(t) \/ NoRoom(t) \/ TurnOff(t) \/ PublishBatch(t)
           \/ Published(t) \/ Added(t) \/ CheckAvail(t) \/ CountFreed(t) \/ ResetAvail(t)
           \/ TurnOn(t)
  BY <1>3 DEF NextIndex, Reserve, NoRoom, TurnOff, PublishBatch, Published, Added, CheckAvail,
              CountFreed, ResetAvail, TurnOn, data
<1> QED
  BY <1>1, <1>2, <1>3 DEF Step

\* The value Persist hands to the caller.
Encoded(t) == [ref |-> ref[t], pacts |-> pacts[t], value |-> value[t], published |-> FALSE]

\* What the caller holds after a step it held before, or was just stored or
\* published; and a call lets go only of values it takes from the caller.
LEMMA HeldFrom ==
    ASSUME Inv, NEW t \in Threads, Call(t) \/ Step(t), NEW h \in held'
    PROVE  \/ h \in held /\ (h \in work[t] => h \in work'[t])
           \/ Persist(t) /\ h = Encoded(t)
           \/ Published(t) /\ \E g \in work[t] : h = AsPublished(g)
<1> USE DEF Inv
<1>0. ASSUME pc[t] \notin {"publish", "add"} PROVE h \notin work[t]
  BY <1>0 DEF ThreadsInv, WorkInv
<1>1. CASE Call(t)
  <2>1. held' \subseteq held /\ pc[t] = "idle"
    BY <1>1 DEF Call, KVSEncodeValue, KVSPublish, KVSFreeValue, KVSDumpFromValueRef, caller
  <2> QED
    BY <2>1, <1>0
<1>2. CASE Persist(t)
  BY <1>2, <1>0 DEF Persist, Encoded
<1>3. CASE Published(t)
  BY <1>3 DEF Published, AsPublished
<1>4. CASE Added(t)
  BY <1>4 DEF Added
<1>5. CASE PublishBatch(t)
  BY <1>5 DEF PublishBatch, caller
<1>6. CASE \/ NextIndex(t) \/ Reserve(t) \/ NoRoom(t) \/ TurnOff(t) \/ StoreValue(t)
           \/ FreePmem(t) \/ CheckAvail(t) \/ CountFreed(t) \/ ResetAvail(t) \/ TurnOn(t)
  <2>1. held' = held /\ pc[t] \notin {"publish", "add"}
    BY <1>6 DEF NextIndex, Reserve, NoRoom, TurnOff, StoreValue, FreePmem, CheckAvail,
                CountFreed, ResetAvail, TurnOn, caller
  <2> QED
    BY <2>1, <1>0
<1> QED
  BY <1>1, <1>2, <1>3, <1>4, <1>5, <1>6 DEF Step

\* The value that was just stored.
LEMMA EncodedFacts ==
    ASSUME Inv, NEW t \in Threads, Persist(t)
    PROVE  /\ ref[t] \in Refs /\ ChunkOf(ref[t]) \in Chunks
           /\ InCall(t) = {ChunkOf(ref[t])} /\ pacts[t] = {ChunkOf(ref[t])}
           /\ heap[ChunkOf(ref[t])] = "reserved"
           /\ mem[ChunkOf(ref[t])] = Stored(value[t], Compressed(ref[t]))
           /\ Sized(ref[t], value[t])
<1> USE DEF Inv
<1>1. pc[t] = "persist"
  BY DEF Persist
<1>2. EncodeInv(t) /\ RefInv(t) /\ WorkInv(t)
  BY DEF ThreadsInv
<1>3. ref[t] \in Refs /\ ChunkOf(ref[t]) \in Chunks
  BY <1>1, <1>2, RefFacts DEF RefInv, Stores
<1>4. InCall(t) = {ChunkOf(ref[t])} /\ pacts[t] = {ChunkOf(ref[t])}
  BY <1>1, <1>2 DEF InCall, WorkInv, Stores
<1>5. heap[ChunkOf(ref[t])] = "reserved"
  BY <1>4, PactsOwner
<1>6. compress[t] = Compressed(ref[t])
  <2>1. compress[t] \in BOOLEAN /\ Compressed(ref[t]) \in BOOLEAN
    BY DEF Types, Compressed
  <2>2. Compressed(ref[t]) <=> compress[t]
    BY <1>1, <1>2 DEF RefInv, Stores
  <2> QED
    BY <2>1, <2>2
<1>7. /\ mem[ChunkOf(ref[t])] = Stored(value[t], compress[t])
      /\ ref[t].size = UInt(Length[<<value[t], compress[t]>>])
      /\ <<value[t], compress[t]>> \in Requests
  BY <1>1, <1>2 DEF EncodeInv, RefInv, Stores, Request
<1>8. Sized(ref[t], value[t])
  BY <1>6, <1>7 DEF Sized
<1> QED
  BY <1>3, <1>4, <1>5, <1>6, <1>7, <1>8

\* A value whose publication ends is allocated.
LEMMA PublishedFacts ==
    ASSUME Inv, NEW t \in Threads, Published(t), NEW g \in work[t]
    PROVE  /\ g \in held /\ g \in Entries /\ AsPublished(g).ref = g.ref
           /\ AsPublished(g).value = g.value /\ AsPublished(g).published
           /\ heap[ChunkOf(g.ref)] = "allocated"
<1>1. g \in held /\ g \in Entries
  BY DEF Inv, Types
<1>2. heap[ChunkOf(g.ref)] = "allocated"
  BY DEF Inv, ThreadsInv, WorkInv, Published
<1> QED
  BY <1>1, <1>2, PublishedEntry

\* A call keeps the data of everything the caller holds.
LEMMA DataCalls ==
    ASSUME Inv, NEW t \in Threads, Call(t) \/ Step(t)
    PROVE  DataInv'
<1> USE DEF Inv
<1> SUFFICES ASSUME NEW h \in held'
             PROVE  /\ mem'[ChunkOf(h.ref)] = Stored(h.value, Compressed(h.ref))
                    /\ media'[ChunkOf(h.ref)] = mem'[ChunkOf(h.ref)]
                    /\ Sized(h.ref, h.value)
  BY DEF DataInv, Sized, Compressed, ChunkOf, Stored, UInt
<1>1. ASSUME NEW g \in held
      PROVE  /\ mem'[ChunkOf(g.ref)] = Stored(g.value, Compressed(g.ref))
             /\ media'[ChunkOf(g.ref)] = mem'[ChunkOf(g.ref)]
             /\ Sized(g.ref, g.value)
  <2>1. ChunkOf(g.ref) \in Chunks /\ ChunkOf(g.ref) \notin InCall(t)
    BY EntryFacts DEF Types, Accounted
  <2>2. mem'[ChunkOf(g.ref)] = mem[ChunkOf(g.ref)] /\ media'[ChunkOf(g.ref)] = media[ChunkOf(g.ref)]
    BY <2>1, DataKept
  <2> QED
    BY <2>2 DEF DataInv
<1>2. CASE h \in held
  BY <1>1, <1>2
<1>3. CASE Persist(t) /\ h = Encoded(t)
  <2>1. h.ref = ref[t] /\ h.value = value[t]
    BY <1>3 DEF Encoded
  <2>2. mem' = mem /\ media'[ChunkOf(ref[t])] = mem[ChunkOf(ref[t])]
    BY <1>3, EncodedFacts DEF Persist, Types
  <2> QED
    BY <1>3, <2>1, <2>2, EncodedFacts
<1>4. ASSUME Published(t), NEW g \in work[t], h = AsPublished(g)
      PROVE  /\ mem'[ChunkOf(h.ref)] = Stored(h.value, Compressed(h.ref))
             /\ media'[ChunkOf(h.ref)] = mem'[ChunkOf(h.ref)]
             /\ Sized(h.ref, h.value)
  BY <1>1, <1>4, PublishedFacts
<1> QED
  BY <1>2, <1>3, <1>4, HeldFrom

\* A call allocates what it publishes, and leaves the rest as it is.
LEMMA HeapCalls ==
    ASSUME Inv, NEW t \in Threads, Call(t) \/ Step(t)
    PROVE  HeapInv'
<1> USE DEF Inv
<1>1. \A c \in lost' : heap'[c] = "allocated"
  <2> SUFFICES ASSUME NEW c \in lost PROVE heap'[c] = "allocated"
    BY DEF Call, KVSEncodeValue, KVSPublish, KVSFreeValue, KVSDumpFromValueRef, Step, NextIndex,
           Reserve, NoRoom, TurnOff, StoreValue, Persist, PublishBatch, Published, Added,
           FreePmem, CheckAvail, CountFreed, ResetAvail, TurnOn, caller
  <2>1. heap[c] = "allocated" /\ c \in Chunks
    BY DEF HeapInv, Types
  <2>2. c \notin InCall(t)
    BY DEF Accounted
  <2>3. c \notin pacts[t]
    BY <2>1, PactsOwner
  <2> QED
    BY <2>1, <2>2, <2>3, ChunkKept
<1>2. ASSUME NEW h \in held, h \notin work[t] PROVE heap'[ChunkOf(h.ref)] = heap[ChunkOf(h.ref)]
  BY <1>2, OtherHeld, ChunkKept
<1>3. ASSUME NEW h \in held', h.published PROVE heap'[ChunkOf(h.ref)] = "allocated"
  <2>1. CASE h \in held /\ h \notin work[t]
    BY <1>2, <1>3, <2>1 DEF HeapInv
  <2>2. CASE h \in held /\ h \in work[t]
    <3>1. ChunkOf(h.ref) \in Chunks /\ ChunkOf(h.ref) \notin InCall(t) /\ heap[ChunkOf(h.ref)] = "allocated"
      BY <1>3, <2>2, EntryFacts DEF Types, Accounted, HeapInv
    <3>2. ChunkOf(h.ref) \notin pacts[t]
      BY <3>1, PactsOwner
    <3> QED
      BY <3>1, <3>2, ChunkKept
  <2>3. CASE Persist(t) /\ h = Encoded(t)
    BY <1>3, <2>3 DEF Encoded
  <2>4. ASSUME Published(t), NEW g \in work[t], h = AsPublished(g)
        PROVE  heap'[ChunkOf(h.ref)] = "allocated"
    BY <2>4, PublishedFacts DEF Published
  <2> QED
    BY <2>1, <2>2, <2>3, <2>4, HeldFrom
<1>4. ASSUME NEW h \in AtRest', ~h.published PROVE heap'[ChunkOf(h.ref)] = "reserved"
  <2>0. h \in held' /\ \A u \in Threads : h \notin work'[u]
    BY DEF AtRest
  <2>1. CASE h \in held /\ (h \in work[t] => h \in work'[t])
    <3>1. \A u \in Threads : h \notin work[u]
      BY <2>0, <2>1, LocalsKept
    <3>2. h \in AtRest
      BY <2>1, <3>1 DEF AtRest
    <3> QED
      BY <1>2, <1>4, <2>1, <3>1, <3>2 DEF HeapInv
  <2>2. CASE Persist(t) /\ h = Encoded(t)
    BY <2>2, EncodedFacts DEF Persist, Encoded
  <2>3. ASSUME Published(t), NEW g \in work[t], h = AsPublished(g) PROVE FALSE
    BY <1>4, <2>3, PublishedFacts
  <2> QED
    BY <2>0, <2>1, <2>2, <2>3, HeldFrom
<1>5. work'[t] \subseteq work[t] \cup AtRest
  <2>1. CASE Call(t)
    <3>1. ASSUME NEW H \in SUBSET AtRest, KVSPublish(t, H) PROVE work'[t] = H
      BY <3>1 DEF KVSPublish, Types
    <3>2. ASSUME NEW h \in AtRest, KVSDumpFromValueRef(t, h) PROVE work'[t] = {h}
      BY <3>2 DEF KVSDumpFromValueRef, Types
    <3> QED
      BY <2>1, <3>1, <3>2 DEF Call, KVSEncodeValue, KVSFreeValue, publishing
  <2>2. ASSUME Return(t) PROVE work'[t] = {}
    BY <2>2 DEF Return, ForgetCalls
  <2>3. CASE Added(t)
    BY <2>3 DEF Added, Types
  <2>4. CASE TurnOff(t) \/ Persist(t) \/ Published(t) \/ TurnOn(t) \/ CheckAvail(t) \/ CountFreed(t)
    BY <2>2, <2>4 DEF TurnOff, Persist, Published, TurnOn, CheckAvail, CountFreed, publishing
  <2>5. CASE \/ NextIndex(t) \/ Reserve(t) \/ NoRoom(t) \/ StoreValue(t) \/ PublishBatch(t)
             \/ FreePmem(t) \/ ResetAvail(t)
    BY <2>5 DEF NextIndex, Reserve, NoRoom, StoreValue, PublishBatch, FreePmem, ResetAvail, publishing
  <2> QED
    BY <2>1, <2>3, <2>4, <2>5 DEF Step
<1>6. ASSUME NEW u \in Threads, NEW v \in Threads, u # v PROVE work'[u] \cap work'[v] = {}
  <2>1. \A w \in Threads : w # t => work'[w] = work[w] /\ work[w] \cap work[t] = {} /\ work[w] \cap AtRest = {}
    BY LocalsKept DEF HeapInv, AtRest
  <2> QED
    BY <1>5, <1>6, <2>1 DEF HeapInv
<1> QED
  BY <1>1, <1>3, <1>4, <1>6 DEF HeapInv

-----------------------------------------------------------------------------
(* Who has which chunk                                                     *)

HeldChunks == {ChunkOf(h.ref) : h \in held}
CallChunks == UNION {InCall(t) : t \in Threads}

\* The parts of Accounted: every chunk in use has an owner, and only one; and
\* reservations stand.
Owned == {c \in Chunks : heap[c] # "free"} = lost \cup HeldChunks \cup CallChunks
HeldOnce == \A g, h \in held : ChunkOf(g.ref) = ChunkOf(h.ref) => g = h
CallsApart == \A t, u \in Threads : t # u => InCall(t) \cap InCall(u) = {}
OneSide ==
    /\ \A h \in held :
           ChunkOf(h.ref) \notin lost /\ \A t \in Threads : ChunkOf(h.ref) \notin InCall(t)
    /\ \A t \in Threads : InCall(t) \cap lost = {}
Standing == \A t \in Threads : \A c \in pacts[t] : heap[c] = "reserved"

LEMMA AccountedParts ==
    /\ Accounted <=> Owned /\ HeldOnce /\ CallsApart /\ OneSide /\ Standing
    /\ Accounted' <=> (Owned /\ HeldOnce /\ CallsApart /\ OneSide /\ Standing)'
BY DEF Accounted, Owned, HeldChunks, CallChunks, HeldOnce, CallsApart, OneSide, Standing

\* The reservations that calls go on with stand.
LEMMA StandingStep ==
    ASSUME Inv, NEW t \in Threads, Call(t) \/ Step(t)
    PROVE  Standing'
<1> USE DEF Inv
<1>1. ASSUME NEW u \in Threads, u # t, NEW c \in pacts'[u] PROVE heap'[c] = "reserved"
  <2>1. c \in pacts[u] /\ c \in Chunks /\ heap[c] = "reserved"
    BY <1>1, LocalsKept, PactsOwner DEF Types
  <2>2. c \notin InCall(t) /\ c \notin pacts[t]
    <3>1. CASE c \in InCall(u)
      BY <1>1, <3>1, OtherInCall
    <3>2. CASE \E h \in work[u] : c = ChunkOf(h.ref)
      <4>1. PICK h \in work[u] : c = ChunkOf(h.ref)
        BY <3>2
      <4>2. h \in held /\ h \notin work[t]
        BY <1>1 DEF HeapInv, Types
      <4> QED
        BY <4>1, <4>2, OtherHeld
    <3> QED
      BY <2>1, <3>1, <3>2, PactsOwner
  <2> QED
    BY <2>1, <2>2, ChunkKept
<1>2. ASSUME NEW c \in pacts'[t] PROVE heap'[c] = "reserved"
  <2>0. ASSUME Return(t) PROVE FALSE
    BY <1>2, <2>0 DEF Return, ForgetCalls
  <2>1. CASE heap' = heap /\ pacts' = pacts
    BY <1>2, <2>1, PactsOwner
  <2>2. ASSUME NEW H \in SUBSET AtRest, KVSPublish(t, H) PROVE heap'[c] = "reserved"
    <3>1. PICK h \in H : c \in h.pacts
      BY <1>2, <2>2 DEF KVSPublish, Types
    <3>2. h \in AtRest /\ ~h.published /\ h \in Entries
      BY <2>2, <3>1 DEF KVSPublish, AtRest, Types
    <3>3. c = ChunkOf(h.ref)
      BY <3>1, <3>2, EntryFacts
    <3> QED
      BY <2>2, <3>2, <3>3 DEF KVSPublish, HeapInv
  <2>3. CASE Reserve(t)
    BY <1>2, <2>3 DEF Reserve, Types, Fitting, Chunks
  <2>4. CASE PublishBatch(t)
    <3>1. PICK B \in SUBSET FirstPool(t) :
              /\ heap' = [d \in Chunks |-> IF d \in B THEN "allocated" ELSE heap[d]]
              /\ pacts' = [pacts EXCEPT ![t] = @ \ B]
      BY <2>4 DEF PublishBatch
    <3>2. c \in pacts[t] /\ c \notin B /\ c \in Chunks
      BY <1>2, <3>1 DEF Types
    <3> QED
      BY <3>1, <3>2, PactsOwner
  <2>5. CASE FreePmem(t)
    BY <1>2, <2>5, PactsOwner DEF FreePmem, publishing, Stores
  <2>6. CASE TurnOff(t) \/ Persist(t) \/ Published(t) \/ TurnOn(t) \/ CheckAvail(t) \/ CountFreed(t)
    BY <2>0, <2>1, <2>6 DEF TurnOff, Persist, Published, TurnOn, CheckAvail, CountFreed, publishing
  <2>7. CASE NextIndex(t) \/ NoRoom(t) \/ StoreValue(t) \/ Added(t) \/ ResetAvail(t)
    BY <2>1, <2>7 DEF NextIndex, NoRoom, StoreValue, Added, ResetAvail, publishing
  <2>8. CASE Call(t)
    BY <2>1, <2>2, <2>8 DEF Call, KVSEncodeValue, KVSFreeValue, KVSDumpFromValueRef, publishing
  <2> QED
    BY <2>3, <2>4, <2>5, <2>6, <2>7, <2>8 DEF Step
<1> QED
  BY <1>1, <1>2 DEF Standing

\* A step that changes no owner.
LEMMA OwnersSame ==
    ASSUME Inv, NEW t \in Threads, Call(t) \/ Step(t),
           InCall(t)' = InCall(t), held' = held, lost' = lost,
           \A c \in Chunks : (heap'[c] = "free") <=> (heap[c] = "free")
    PROVE  (Owned /\ HeldOnce /\ CallsApart /\ OneSide)'
<1> USE DEF Inv
<1>1. \A u \in Threads : InCall(u)' = InCall(u)
  BY LocalsKept DEF InCall
<1>2. CallChunks' = CallChunks /\ HeldChunks' = HeldChunks
  BY <1>1 DEF CallChunks, HeldChunks, ChunkOf
<1>3. Owned /\ HeldOnce /\ CallsApart /\ OneSide
  BY AccountedParts
<1> QED
  BY <1>1, <1>2, <1>3 DEF Owned, HeldOnce, CallsApart, OneSide, ChunkOf

\* The chunk a reservation takes was free: it is nobody else's.
LEMMA ReserveOwners ==
    ASSUME Inv, NEW t \in Threads, Reserve(t)
    PROVE  (Owned /\ HeldOnce /\ CallsApart /\ OneSide)'
<1> USE DEF Inv
<1>0. Owned /\ HeldOnce /\ CallsApart /\ OneSide
  BY AccountedParts
<1>1. PICK c \in Fitting(t, pool_index[t]) :
          /\ heap' = [heap EXCEPT ![c] = "reserved"]
          /\ ref' = [ref EXCEPT ![t] = Reference(t, c)]
  BY DEF Reserve, Reference
<1>2. pool_index[t] \in Pools /\ c \in {pool_index[t]} \X Offsets /\ c \in Chunks /\ heap[c] = "free"
  BY DEF Types, Fitting, Chunks
<1>3. Request(t) \in Requests
  BY DEF Reserve, ThreadsInv, EncodeInv
<1>4. ChunkOf(Reference(t, c)) = c
  BY <1>2, <1>3, ReferenceFacts
<1>5. pc'[t] = "store" /\ pc[t] = "reserve" /\ ref'[t] = Reference(t, c) /\ held' = held /\ lost' = lost
  BY <1>1 DEF Reserve, Types, caller
<1>6. InCall(t)' = {c} /\ InCall(t) = {}
  BY <1>4, <1>5 DEF InCall, ChunkOf
<1>7. \A u \in Threads : u # t => InCall(u)' = InCall(u)
  BY LocalsKept DEF InCall, Step
<1>8. CallChunks' = CallChunks \cup {c} /\ HeldChunks' = HeldChunks
  BY <1>5, <1>6, <1>7 DEF CallChunks, HeldChunks, ChunkOf
<1>9. c \notin lost /\ c \notin HeldChunks /\ c \notin CallChunks
  BY <1>0, <1>2 DEF Owned
<1>10. Owned'
  BY <1>0, <1>1, <1>2, <1>5, <1>8 DEF Owned, Types
<1>11. CallsApart' /\ OneSide'
  BY <1>0, <1>5, <1>6, <1>7, <1>9 DEF CallsApart, OneSide, CallChunks, HeldChunks, ChunkOf
<1> QED
  BY <1>0, <1>5, <1>10, <1>11 DEF HeldOnce, ChunkOf

\* The call gives its chunk to the caller.
LEMMA PersistOwners ==
    ASSUME Inv, NEW t \in Threads, Persist(t)
    PROVE  (Owned /\ HeldOnce /\ CallsApart /\ OneSide)'
<1> USE DEF Inv
<1>0. Owned /\ HeldOnce /\ CallsApart /\ OneSide
  BY AccountedParts
<1> DEFINE d == ChunkOf(ref[t])
<1>1. InCall(t) = {d} /\ d \in Chunks
  BY EncodedFacts
<1>2. Return(t) /\ held' = held \cup {Encoded(t)} /\ lost' = lost /\ heap' = heap
  BY DEF Persist, Encoded
<1>3. InCall(t)' = {}
  BY <1>2 DEF Return, ForgetCalls, InCall
<1>4. \A u \in Threads : u # t => InCall(u)' = InCall(u)
  BY LocalsKept DEF InCall, Step
<1>5. ChunkOf(Encoded(t).ref) = d
  BY DEF Encoded
<1>6. HeldChunks' = HeldChunks \cup {d}
  BY <1>2, <1>5 DEF HeldChunks, ChunkOf
<1>7. \A u \in Threads : u # t => d \notin InCall(u)
  BY <1>0, <1>1 DEF CallsApart
<1>8. CallChunks = CallChunks' \cup {d}
  BY <1>1, <1>3, <1>4, <1>7 DEF CallChunks
<1>9. d \notin lost /\ \A h \in held : ChunkOf(h.ref) # d
  BY <1>0, <1>1 DEF OneSide
<1> HIDE DEF d
<1>10. Owned'
  BY <1>0, <1>2, <1>6, <1>8 DEF Owned
<1>11. HeldOnce'
  BY <1>0, <1>2, <1>5, <1>9 DEF HeldOnce, ChunkOf
<1>12. CallsApart' /\ OneSide'
  BY <1>0, <1>2, <1>3, <1>4, <1>5, <1>7, <1>9 DEF CallsApart, OneSide, ChunkOf
<1> QED
  BY <1>10, <1>11, <1>12

\* The caller gives a value's chunk to the call that will free it.
LEMMA GivenOwners ==
    ASSUME Inv, NEW t \in Threads, Call(t) \/ Step(t), NEW h \in held,
           held' = held \ {h}, lost' = lost, heap' = heap,
           InCall(t) = {}, InCall(t)' = {ChunkOf(h.ref)}
    PROVE  (Owned /\ HeldOnce /\ CallsApart /\ OneSide)'
<1> USE DEF Inv
<1>0. Owned /\ HeldOnce /\ CallsApart /\ OneSide
  BY AccountedParts
<1> DEFINE d == ChunkOf(h.ref)
<1>1. \A u \in Threads : u # t => InCall(u)' = InCall(u)
  BY LocalsKept DEF InCall
<1>2. CallChunks' = CallChunks \cup {d}
  BY <1>1 DEF CallChunks
<1>3. HeldChunks = HeldChunks' \cup {d}
  BY DEF HeldChunks, ChunkOf
<1>4. d \notin lost /\ (\A u \in Threads : d \notin InCall(u)) /\ \A g \in held : ChunkOf(g.ref) = d => g = h
  BY <1>0 DEF OneSide, HeldOnce
<1>5. InCall(t)' = {d}
  OBVIOUS
<1> HIDE DEF d
<1>6. Owned'
  BY <1>0, <1>2, <1>3 DEF Owned
<1>7. HeldOnce'
  BY <1>0 DEF HeldOnce, ChunkOf
<1>8. CallsApart' /\ OneSide'
  BY <1>0, <1>1, <1>4, <1>5 DEF CallsApart, OneSide, ChunkOf
<1> QED
  BY <1>6, <1>7, <1>8

\* pmemobj_free: the chunk is nobody's.
LEMMA FreeOwners ==
    ASSUME Inv, NEW t \in Threads, FreePmem(t)
    PROVE  (Owned /\ HeldOnce /\ CallsApart /\ OneSide)'
<1> USE DEF Inv
<1>0. Owned /\ HeldOnce /\ CallsApart /\ OneSide
  BY AccountedParts
<1> DEFINE d == ChunkOf(ref[t])
<1>1. ref[t] \in Refs /\ d \in Chunks /\ InCall(t) = {d}
  BY RefFacts DEF FreePmem, ThreadsInv, RefInv, Frees, InCall
<1>2. heap' = [heap EXCEPT ![d] = "free"] /\ held' = held /\ lost' = lost
  BY DEF FreePmem, Freed, caller
<1>3. InCall(t)' = {}
  BY DEF FreePmem, InCall, Types
<1>4. \A u \in Threads : u # t => InCall(u)' = InCall(u)
  BY LocalsKept DEF InCall, Step
<1>5. \A u \in Threads : u # t => d \notin InCall(u)
  BY <1>0, <1>1 DEF CallsApart
<1>6. CallChunks = CallChunks' \cup {d} /\ d \notin CallChunks'
  BY <1>1, <1>3, <1>4, <1>5 DEF CallChunks
<1>7. d \notin lost /\ d \notin HeldChunks /\ HeldChunks' = HeldChunks
  BY <1>0, <1>1, <1>2 DEF OneSide, HeldChunks, ChunkOf
<1> HIDE DEF d
<1>8. Owned'
  BY <1>0, <1>1, <1>2, <1>6, <1>7 DEF Owned, Types
<1>9. HeldOnce'
  BY <1>0, <1>2 DEF HeldOnce, ChunkOf
<1>10. CallsApart' /\ OneSide'
  BY <1>0, <1>2, <1>3, <1>4 DEF CallsApart, OneSide, ChunkOf
<1> QED
  BY <1>8, <1>9, <1>10

\* A published value is the same value, with nothing to publish any more.
LEMMA PublishedOwners ==
    ASSUME Inv, NEW t \in Threads, Published(t)
    PROVE  (Owned /\ HeldOnce /\ CallsApart /\ OneSide)'
<1> USE DEF Inv
<1>0. Owned /\ HeldOnce /\ CallsApart /\ OneSide
  BY AccountedParts
<1>1. held' = (held \ work[t]) \cup {AsPublished(g) : g \in work[t]}
  BY DEF Published, AsPublished
<1>2. \A g \in work[t] : g \in held /\ AsPublished(g).ref = g.ref
  BY PublishedFacts
<1>3. lost' = lost /\ heap' = heap /\ Return(t) /\ pc[t] = "publish"
  BY DEF Published
<1>4. \A u \in Threads : InCall(u)' = InCall(u)
  BY <1>3, LocalsKept DEF InCall, Step, Return, ForgetCalls
<1>5. HeldChunks' = HeldChunks
  <2>1. \A h \in held' : \E g \in held : ChunkOf(h.ref) = ChunkOf(g.ref)
    BY <1>1, <1>2
  <2>2. \A g \in held : \E h \in held' : ChunkOf(h.ref) = ChunkOf(g.ref)
    BY <1>1, <1>2
  <2> QED
    BY <2>1, <2>2 DEF HeldChunks, ChunkOf
<1>6. CallChunks' = CallChunks
  BY <1>4 DEF CallChunks
<1>7. Owned'
  BY <1>0, <1>3, <1>5, <1>6 DEF Owned
<1>8. HeldOnce'
  <2> SUFFICES ASSUME NEW g \in held', NEW h \in held', ChunkOf(g.ref) = ChunkOf(h.ref)
               PROVE  g = h
    BY DEF HeldOnce, ChunkOf
  <2>1. CASE g \notin {AsPublished(e) : e \in work[t]} /\ h \notin {AsPublished(e) : e \in work[t]}
    BY <1>0, <1>1, <2>1 DEF HeldOnce
  <2>2. ASSUME NEW e \in work[t], g = AsPublished(e), h \in held \ work[t] PROVE FALSE
    BY <1>0, <1>2, <2>2 DEF HeldOnce
  <2>3. ASSUME NEW e \in work[t], h = AsPublished(e), g \in held \ work[t] PROVE FALSE
    BY <1>0, <1>2, <2>3 DEF HeldOnce
  <2>4. ASSUME NEW e \in work[t], g = AsPublished(e), NEW f \in work[t], h = AsPublished(f)
        PROVE  g = h
    <3>1. e = f
      BY <1>0, <1>2, <2>4 DEF HeldOnce
    <3> QED
      BY <2>4, <3>1
  <2> QED
    BY <1>1, <2>1, <2>2, <2>3, <2>4
<1>9. CallsApart' /\ OneSide'
  <2>1. \A h \in held' : \E g \in held : ChunkOf(h.ref) = ChunkOf(g.ref)
    BY <1>1, <1>2
  <2> QED
    BY <1>0, <1>3, <1>4, <2>1 DEF CallsApart, OneSide, ChunkOf
<1> QED
  BY <1>7, <1>8, <1>9

\* The owners change hands one at a time.
LEMMA AccountedCalls ==
    ASSUME Inv, NEW t \in Threads, Call(t) \/ Step(t)
    PROVE  Accounted'
<1> USE DEF Inv
<1> DEFINE Parts == (Owned /\ HeldOnce /\ CallsApart /\ OneSide)'
<1> SUFFICES Parts
  BY StandingStep, AccountedParts
<1>1. ASSUME NEW h \in AtRest, KVSFreeValue(t, h) PROVE Parts
  <2>1. h \in held /\ held' = held \ {h} /\ lost' = lost /\ heap' = heap
    BY <1>1 DEF AtRest, KVSFreeValue
  <2>2. InCall(t) = {} /\ InCall(t)' = {ChunkOf(h.ref)}
    BY <1>1 DEF KVSFreeValue, InCall, ChunkOf, Types
  <2> QED
    BY <2>1, <2>2, GivenOwners
<1>2. CASE Added(t)
  <2>1. PICK h \in held : work[t] = {h} /\ h.ref = ref[t]
    BY <1>2 DEF Added, ThreadsInv, WorkInv
  <2>2. held' = held \ {h} /\ lost' = lost /\ heap' = heap
    BY <1>2, <2>1 DEF Added
  <2>3. InCall(t) = {} /\ InCall(t)' = {ChunkOf(h.ref)}
    BY <1>2, <2>1 DEF Added, InCall, ChunkOf, Types
  <2> QED
    BY <2>2, <2>3, GivenOwners
<1>3. CASE \/ \E q \in Requests : KVSEncodeValue(t, q[1], q[2])
           \/ \E H \in SUBSET AtRest : KVSPublish(t, H)
           \/ \E h \in AtRest : KVSDumpFromValueRef(t, h)
  <2>1. /\ heap' = heap /\ held' = held /\ lost' = lost /\ pc[t] = "idle"
        /\ \E l \in {"index", "publish", "add"} : pc' = [pc EXCEPT ![t] = l]
    BY <1>3 DEF KVSEncodeValue, KVSPublish, KVSDumpFromValueRef, caller
  <2>2. InCall(t)' = InCall(t)
    BY <2>1 DEF InCall, Types
  <2> QED
    BY <2>1, <2>2, OwnersSame
<1>4. CASE NextIndex(t) \/ ResetAvail(t) \/ StoreValue(t)
  <2>1. heap' = heap /\ held' = held /\ lost' = lost /\ InCall(t)' = InCall(t)
    BY <1>4 DEF NextIndex, ResetAvail, StoreValue, caller, encoding, InCall, Types
  <2> QED
    BY <2>1, OwnersSame
<1>5. CASE NoRoom(t)
  <2>1. PICK l \in {"reserve", "refused"} : pc' = [pc EXCEPT ![t] = l]
    BY <1>5 DEF NoRoom
  <2>2. heap' = heap /\ held' = held /\ lost' = lost /\ InCall(t)' = InCall(t)
    BY <1>5, <2>1 DEF NoRoom, caller, InCall, Types
  <2> QED
    BY <2>2, OwnersSame
<1>6. CASE TurnOff(t) \/ TurnOn(t) \/ CheckAvail(t) \/ CountFreed(t)
  <2>1. heap' = heap /\ held' = held /\ lost' = lost
    BY <1>6 DEF TurnOff, TurnOn, CheckAvail, CountFreed, caller
  <2>2. InCall(t) = {}
    BY <1>6 DEF TurnOff, TurnOn, CheckAvail, CountFreed, InCall
  <2>3. pc'[t] \in {"idle", "count", "reset"}
    BY <1>6 DEF TurnOff, TurnOn, CheckAvail, CountFreed, Return, ForgetCalls, Types
  <2>4. InCall(t)' = {}
    BY <2>3 DEF InCall
  <2> QED
    BY <2>1, <2>2, <2>4, OwnersSame
<1>7. CASE PublishBatch(t)
  <2>1. PICK B \in SUBSET FirstPool(t) :
            heap' = [c \in Chunks |-> IF c \in B THEN "allocated" ELSE heap[c]]
    BY <1>7 DEF PublishBatch
  <2>2. \A c \in B : heap[c] = "reserved"
    BY PactsOwner DEF FirstPool
  <2>3. \A c \in Chunks : (heap'[c] = "free") <=> (heap[c] = "free")
    BY <2>1, <2>2
  <2>4. held' = held /\ lost' = lost /\ InCall(t)' = InCall(t)
    BY <1>7 DEF PublishBatch, caller, InCall
  <2> QED
    BY <2>3, <2>4, OwnersSame
<1>8. CASE Reserve(t)
  BY <1>8, ReserveOwners
<1>9. CASE Persist(t)
  BY <1>9, PersistOwners
<1>10. CASE FreePmem(t)
  BY <1>10, FreeOwners
<1>11. CASE Published(t)
  BY <1>11, PublishedOwners
<1> QED
  BY <1>1, <1>2, <1>3, <1>4, <1>5, <1>6, <1>7, <1>8, <1>9, <1>10, <1>11 DEF Call, Step

-----------------------------------------------------------------------------
(* Closing, and failures of the process                                    *)

\* What is left when the process is gone: the published values, and the chunks
\* that were allocated for nobody.
LEMMA EndsKeep ==
    ASSUME Inv, heap' = Released, held' = {h \in held : h.published},
           \A t \in Threads : pc'[t] = "idle" /\ work'[t] = {} /\ pacts'[t] = {},
           lost' \subseteq {c \in Chunks : Kept(c)},
           {c \in Chunks : Kept(c)} \subseteq lost' \cup HeldChunks',
           lost' \cap HeldChunks' = {}
    PROVE  Accounted' /\ HeapInv'
<1> USE DEF Inv
<1>1. \A c \in Chunks : heap'[c] = IF heap[c] = "allocated" THEN "allocated" ELSE "free"
  BY DEF Released, Kept
<1>2. \A h \in held' : /\ h \in held /\ h.published /\ ChunkOf(h.ref) \in Chunks
                       /\ heap'[ChunkOf(h.ref)] = "allocated"
  BY <1>1, EntryFacts DEF HeapInv, Types
<1>3. \A t \in Threads : InCall(t)' = {}
  BY DEF InCall
<1>4. CallChunks' = {}
  BY <1>3 DEF CallChunks
<1>5. \A c \in lost' : c \in Chunks /\ heap'[c] = "allocated"
  BY <1>1 DEF Kept
<1>6. \A c \in HeldChunks' : c \in Chunks /\ heap'[c] = "allocated"
  BY <1>2 DEF HeldChunks, ChunkOf
<1>7. Owned'
  BY <1>1, <1>4, <1>5, <1>6 DEF Owned, Kept
<1>8. HeldOnce'
  BY <1>2, AccountedParts DEF HeldOnce, ChunkOf
<1>9. CallsApart' /\ OneSide' /\ Standing'
  BY <1>3 DEF CallsApart, OneSide, Standing, HeldChunks, ChunkOf
<1>10. HeapInv'
  BY <1>2, <1>5 DEF HeapInv, AtRest, ChunkOf
<1> QED
  BY <1>7, <1>8, <1>9, <1>10, AccountedParts

\* KVSCLose is called outside any call: what is allocated is published, or was
\* lost before.
LEMMA CloseKeeps ==
    ASSUME Inv, KVSCLose
    PROVE  Accounted' /\ HeapInv' /\ DataInv'
<1> USE DEF Inv
<1>1. /\ heap' = Released /\ held' = {h \in held : h.published} /\ lost' = lost
      /\ mem' = KeptData(mem) /\ media' = KeptData(media)
  BY DEF KVSCLose
<1>2. \A t \in Threads : /\ pc[t] = "idle" /\ work[t] = {} /\ pacts[t] = {}
                         /\ pc'[t] = "idle" /\ work'[t] = {} /\ pacts'[t] = {}
  BY DEF KVSCLose, ThreadsInv, WorkInv, Stores, publishing
<1>3. \A t \in Threads : InCall(t) = {}
  BY <1>2 DEF InCall
<1>4. Owned /\ OneSide
  BY AccountedParts
<1>5. \A h \in held : ~h.published => heap[ChunkOf(h.ref)] = "reserved"
  BY <1>2 DEF HeapInv, AtRest
<1>6. {c \in Chunks : Kept(c)} \subseteq lost' \cup HeldChunks'
  BY <1>1, <1>3, <1>4, <1>5 DEF Owned, HeldChunks, CallChunks, Kept, ChunkOf
<1>7. lost' \subseteq {c \in Chunks : Kept(c)}
  BY <1>1 DEF HeapInv, Kept, Types
<1>8. lost' \cap HeldChunks' = {}
  BY <1>1, <1>4 DEF OneSide, HeldChunks, ChunkOf
<1>9. Accounted' /\ HeapInv'
  BY <1>1, <1>2, <1>6, <1>7, <1>8, EndsKeep
<1>10. DataInv'
  BY <1>1, EntryFacts DEF DataInv, HeapInv, Types, KeptData, Kept, ChunkOf, Sized, Compressed, Stored, UInt
<1> QED
  BY <1>9, <1>10

\* After a failure the caller has what was published; its data was on the
\* media, so that a power failure loses none of it.
LEMMA FailureKeeps ==
    ASSUME Inv, Crash \/ PowerFailure \/ DecodeAborts
    PROVE  Accounted' /\ HeapInv' /\ DataInv'
<1> USE DEF Inv
<1>1. /\ ProcessEnds /\ heap' = Released /\ held' = {h \in held : h.published}
      /\ media' = KeptData(media) /\ (mem' = KeptData(mem) \/ mem' = KeptData(media))
      /\ lost' = {c \in Chunks : Kept(c)} \ {ChunkOf(h.ref) : h \in held'}
  BY DEF Crash, PowerFailure, DecodeAborts, ProcessEnds
<1>2. \A t \in Threads : pc'[t] = "idle" /\ work'[t] = {} /\ pacts'[t] = {}
  BY <1>1 DEF ProcessEnds, ForgetCalls
<1>3. /\ lost' \subseteq {c \in Chunks : Kept(c)}
      /\ {c \in Chunks : Kept(c)} \subseteq lost' \cup HeldChunks'
      /\ lost' \cap HeldChunks' = {}
  BY <1>1 DEF HeldChunks, ChunkOf
<1>4. Accounted' /\ HeapInv'
  BY <1>1, <1>2, <1>3, EndsKeep
<1>5. DataInv'
  <2> SUFFICES ASSUME NEW h \in held'
               PROVE  /\ mem'[ChunkOf(h.ref)] = Stored(h.value, Compressed(h.ref))
                      /\ media'[ChunkOf(h.ref)] = mem'[ChunkOf(h.ref)]
                      /\ Sized(h.ref, h.value)
    BY DEF DataInv, Sized, Compressed, ChunkOf, Stored, UInt
  <2>1. h \in held /\ h.published /\ ChunkOf(h.ref) \in Chunks
    BY <1>1, EntryFacts DEF Types
  <2>2. Kept(ChunkOf(h.ref))
    BY <2>1 DEF HeapInv, Kept
  <2>3. /\ KeptData(mem)[ChunkOf(h.ref)] = mem[ChunkOf(h.ref)]
        /\ KeptData(media)[ChunkOf(h.ref)] = media[ChunkOf(h.ref)]
    BY <2>1, <2>2 DEF KeptData
  <2> QED
    BY <1>1, <2>1, <2>3 DEF DataInv
<1> QED
  BY <1>4, <1>5

\* Every step leaves each chunk with one owner, and each value with its data.
LEMMA ChunksStep ==
    ASSUME Inv, [Next]_vars
    PROVE  Accounted' /\ HeapInv' /\ DataInv'
<1> USE DEF Inv
<1>1. ASSUME UNCHANGED <<heap, mem, media, pc, ref, publishing, caller>>
      PROVE  Accounted' /\ HeapInv' /\ DataInv'
  <2>1. /\ heap' = heap /\ mem' = mem /\ media' = media /\ pc' = pc /\ ref' = ref
        /\ work' = work /\ pacts' = pacts /\ held' = held /\ lost' = lost
    BY <1>1 DEF publishing, caller
  <2>2. Accounted'
    BY <2>1 DEF Accounted, InCall
  <2>3. HeapInv'
    BY <2>1 DEF HeapInv, AtRest
  <2>4. DataInv'
    BY <2>1 DEF DataInv, Sized, UInt
  <2> QED
    BY <2>2, <2>3, <2>4
<1>2. CASE UNCHANGED vars
  BY <1>1, <1>2 DEF vars, data
<1>3. CASE KVSOpen \/ \E i \in Pools : OpenPool(i) \/ OpenFails(i)
  BY <1>1, <1>3 DEF KVSOpen, OpenPool, OpenFails, data
<1>4. CASE KVSCLose
  BY <1>4, CloseKeeps
<1>5. ASSUME NEW t \in Threads, Call(t) \/ Step(t)
      PROVE  Accounted' /\ HeapInv' /\ DataInv'
  BY <1>5, AccountedCalls, HeapCalls, DataCalls
<1>6. CASE Crash \/ PowerFailure \/ DecodeAborts
  BY <1>6, FailureKeeps
<1> QED
  BY <1>2, <1>3, <1>4, <1>5, <1>6 DEF Next

\* A stored value is not mistaken for a chunk without one.
LEMMA StoredFacts ==
    ASSUME NEW v \in Values, NEW b \in BOOLEAN
    PROVE  /\ Stored(v, b) # Garbage
           /\ Stored(v, b).value = v /\ Stored(v, b).compressed = b
<1>1. Stored(v, b) \in [value : Values, compressed : BOOLEAN]
  BY DEF Stored
<1>2. Stored(v, b) # Garbage
  BY <1>1, GarbageAssumption
<1> QED
  BY <1>2 DEF Stored

\* The size in the reference of a readable value is the size of its data.
LEMMA SizedFacts ==
    ASSUME NEW h, Sized(h.ref, h.value), Readable(h)
    PROVE  /\ h.ref.size = Length[<<h.value, Compressed(h.ref)>>]
           /\ Compressed(h.ref) => Snappy
           /\ Compressed(h.ref) => h.ref.size # 0
<1> DEFINE n == Length[<<h.value, Compressed(h.ref)>>]
<1>1. <<h.value, Compressed(h.ref)>> \in Requests /\ h.ref.size = UInt(n)
  BY DEF Sized
<1>2. n \in Nat
  BY <1>1, PoolFacts
<1>3. n < UIntSpan /\ (Compressed(h.ref) => Snappy)
  BY DEF Readable, Compressed
<1>4. Compressed(h.ref) => n # 0
  BY <1>1, LengthAssumption
<1> HIDE DEF n
<1>5. h.ref.size = n
  BY <1>1, <1>2, <1>3, MaxSizeFacts
<1> QED
  BY <1>3, <1>4, <1>5 DEF n

-----------------------------------------------------------------------------
(* Theorems                                                                *)

\* The invariant is inductive.
THEOREM Invariance == Spec => []Inv
<1>1. Inv /\ [Next]_vars => Inv'
  BY TypesStep, OpenStep, AvailStep, ThreadsStep, ChunksStep DEF Inv
<1> QED
  BY InitInv, <1>1, PTL DEF Spec

\* Every variable has its type in every reachable state; the freed bytes stay
\* bounded however many threads free at once (FreePmem, PersistantPool.hpp).
THEOREM TypeCorrect == Spec => []TypeOK
<1>1. Inv => TypeOK
  <2> SUFFICES ASSUME Inv PROVE TypeOK
    OBVIOUS
  <2>1. Cardinality(Resetting) <= Cardinality(Threads) /\ Cardinality(Threads) \in Nat
    BY BoundedAssumption, FS_Subset, FS_CardinalityType DEF Resetting
  <2>2. Cardinality(Resetting) * MaxSize <= Cardinality(Threads) * MaxSize
    BY <2>1, ResettingFacts, MaxSizeFacts
  <2>3. MaxAvail = AvailMin + Cardinality(Threads) * MaxSize
    BY DEF MaxAvail, MaxSize
  <2>4. Cardinality(Threads) * MaxSize \in Nat
    BY <2>1, MaxSizeFacts
  <2>5. dcpmm_avail_size_ <= MaxAvail
    BY <2>2, <2>3, <2>4, ResettingFacts, PoolFacts DEF Inv, Types, AvailBounded
  <2> QED
    BY <2>5 DEF Inv, TypeOK
<1> QED
  BY Invariance, <1>1, PTL

\* No chunk is leaked by a call that fails or returns, handed out twice or
\* freed under a reference; libpmemobj is only asked to publish reservations
\* that stand.
THEOREM ChunksAccounted == Spec => []Accounted
<1>1. Inv => Accounted
  BY DEF Inv
<1> QED
  BY Invariance, <1>1, PTL

\* A reference decodes to the value it was made from, whatever other threads
\* encode, publish, dump and free, and whatever failed since, if the build can
\* decode it and its size fits in 32 bits (KVSDecodeValueRef).
THEOREM ReferencesResolve == Spec => []Resolves
<1>1. Inv => Resolves
  <2> SUFFICES ASSUME Inv, NEW h \in held, Readable(h) PROVE Decoded(h.ref) = h.value
    BY DEF Resolves
  <2>1. h.ref \in Refs /\ ChunkOf(h.ref) \in Chunks /\ h.value \in Values
    BY EntryFacts DEF Inv, Types
  <2> DEFINE c == h.ref.encoding = kEncodingPtrCompressed
             d == mem[ChunkOf(h.ref)]
  <2>2. d = Stored(h.value, c) /\ Sized(h.ref, h.value)
    BY DEF Inv, DataInv, Compressed
  <2>3. c \in BOOLEAN
    OBVIOUS
  <2>4. d # Garbage /\ d.value = h.value /\ d.compressed = c
    BY <2>1, <2>2, <2>3, StoredFacts
  <2>5. h.ref.size = Length[<<h.value, c>>] /\ (c => Snappy /\ h.ref.size # 0)
    BY <2>2, SizedFacts DEF Readable, Compressed
  <2> HIDE DEF c, d
  <2>6. Decompressed(d, h.ref.size, c) = h.value
    BY <2>4, <2>5 DEF Decompressed
  <2> QED
    BY <2>6 DEF Decoded, c, d
<1> QED
  BY Invariance, <1>1, PTL

\* A value whose KVSPublish has returned is allocated, and on the media: a
\* power failure at any moment leaves it.
THEOREM PublishedDurable == Spec => []Durable
<1>1. Inv => Durable
  BY DEF Inv, HeapInv, DataInv, Durable
<1> QED
  BY Invariance, <1>1, PTL

\* The store is turned off only after every pool has had no room, wherever the
\* round robin began (ReservePmem).
THEOREM RefusedByAll == Spec => []AllRefused
<1>1. Inv => AllRefused
  <2> SUFFICES ASSUME Inv, NEW t \in Threads, pc[t] = "refused" PROVE refused[t] = Pools
    BY DEF AllRefused
  <2>1. refused[t] = {q \in Pools : Distance(q, pool_index[t]) <= pool_count_}
    BY DEF Inv, ThreadsInv, EncodeInv
  <2>2. \A q \in Pools : Distance(q, pool_index[t]) \in 1 .. pool_count_
    BY DistanceWrapped DEF Inv, Types
  <2>3. \A q \in Pools : Distance(q, pool_index[t]) <= pool_count_
    BY <2>2, PoolFacts
  <2> QED
    BY <2>1, <2>3
<1> QED
  BY Invariance, <1>1, PTL

\* What the dump gives to add can be read without the reference, wherever the
\* reference could, until add has taken it over (KVSDumpFromValueRef).
THEOREM DumpsWhole == Spec => []DumpedWhole
<1>1. Inv => DumpedWhole
  <2> SUFFICES ASSUME Inv, NEW t \in Threads, pc[t] = "add", NEW h \in work[t], Readable(h)
               PROVE  DecodedRaw(h.ref) = h.value
    BY DEF DumpedWhole
  <2>1. h \in held /\ hdr[ChunkOf(h.ref)] = RawEncoding(h.ref.encoding)
    BY DEF Inv, ThreadsInv, WorkInv
  <2>2. h.ref \in Refs /\ h.value \in Values
    BY <2>1, EntryFacts DEF Inv, Types
  <2> DEFINE c == h.ref.encoding = kEncodingPtrCompressed
             d == mem[ChunkOf(h.ref)]
             e == hdr[ChunkOf(h.ref)]
  <2>3. d = Stored(h.value, c) /\ Sized(h.ref, h.value)
    BY <2>1 DEF Inv, DataInv, Compressed
  <2>4. c \in BOOLEAN
    OBVIOUS
  <2>5. e \in {kEncodingRawCompressed, kEncodingRawUncompressed}
    BY <2>1 DEF RawEncoding
  <2>6. c = (e = kEncodingRawCompressed)
    BY <2>1 DEF RawEncoding, kEncodingRawCompressed, kEncodingRawUncompressed
  <2>7. d # Garbage /\ d.value = h.value /\ d.compressed = c
    BY <2>2, <2>3, <2>4, StoredFacts
  <2>8. h.ref.size = Length[<<h.value, c>>] /\ (c => Snappy /\ h.ref.size # 0)
    BY <2>3, SizedFacts DEF Readable, Compressed
  <2> HIDE DEF c, d, e
  <2>9. Decompressed(d, h.ref.size, c) = h.value
    BY <2>7, <2>8 DEF Decompressed
  <2>10. Decompressed(d, h.ref.size, e = kEncodingRawCompressed) = h.value
    BY <2>6, <2>9
  <2> QED
    BY <2>5, <2>10 DEF DecodedRaw, d, e
<1> QED
  BY Invariance, <1>1, PTL

\* A KVSOpen that fails and a KVSCLose leave no pool open.
THEOREM PoolsClosed == Spec => []HandlesClosed
<1>1. Inv => HandlesClosed
  BY DEF Inv, OpenInv, HandlesClosed
<1> QED
  BY Invariance, <1>1, PTL

\* While the count of freed bytes is above the threshold some thread is about to
\* reset it and turn the store on (FreePmem); whether a late refusal turns it off
\* again is not said.
THEOREM FreedNotForgotten == Spec => []TurningOn
<1>1. Inv => TurningOn
  BY DEF Inv
<1> QED
  BY Invariance, <1>1, PTL
=============================================================================
