# TLA+ specifications of PMEM_KV_DEMO

Models, model-checking runs and machine-checked proofs for the key-value store
of this repository. Paths are relative to the repository root.

## The system

The repository holds a persistent-memory key-value demo. `include/db.hpp`
fixes the interface (`CreateOrOpen`, `Get`, `Set`); one engine implements it
completely (`nvm_example/NvmExample.cpp`), a second one
(`nvm_engine/NvmEngine.cpp`) is a stub next to the components it is to be built
from. Nothing calls across those components yet, so each is modelled on its own.

| Component | State | Operations | Interacts with |
| --- | --- | --- | --- |
| `InlineSkipList` (`nvm_engine/InlineSkiplist.hpp`) | nodes with one link per level, `max_height_`, `seq_splice_`, splices owned by callers | `Insert`, `InsertConcurrently`, `Insert` with a splice, `Contains`; `Iterator`, `FindLessThan`, `FindLast`, `EstimateCount` | memory from an `Allocator`; threads share links and `max_height_` through atomics |
| `NvmExample` (`nvm_example/NvmExample.cpp`) | a log in a mapped file (count, records), `_end_off`, `hash_map`, `mut` | `CreateOrOpen` with `Recovery`, `Set` through `Append` and `_push_back`, `Get`, destructor | libpmem or an anonymous mapping; threads through `mut` |
| `PersistantPool` (`nvm_engine/PersistantPool.hpp`) | array of pools, round-robin index, availability flag and freed-bytes counter | `KVSOpen`, `KVSCLose`, encode/reserve, publish, decode, free, dump | libpmemobj; threads share the globals without a lock |
| `HandleTable` and `Cache` (`nvm_engine/Cache.hpp`) | buckets of `LRUHandle` chains, their number and the number of elements | `Lookup`, `Insert`, `Remove`, with `FindPointer` and `Resize`; the LRU cache is a TODO | - |
| `Iterator` (`nvm_engine/Iterator.hpp`) | list of cleanups, never written | `RegisterCleanup`, destructor | - |
| `Table`, `TableCache`, `Index`, `Allocator`, `Btree` | declarations only | - | - |
| `NvmEngine` stub | none | answers `Ok` | - |
| judge (`judge/`) | shared `key_pool` and `POOL_TOP`, per-thread random buffer | `main`, `set_pure`, `get_pure`, `Random::nextUnsignedInt` | threads share the pool without a lock; the calls of the DB are commented out |

What is hard, per component:

* **InlineSkipList** is lock-free. A node is linked level by level while other
  threads search and link; a search result (a splice) is read long before it
  is used in a CAS, and one that outlives its call is trusted by the next
  insert. An `Iterator` keeps its node across any number of inserts, and
  `SeekForPrev` is a loop of searches between which the list changes. Correct
  means: every level stays sorted and nested in the one below, no node is lost,
  every call looks atomic, no call loops for ever.
* **NvmExample** must survive the end of its process and of the power between
  any two stores, with cached words reaching the media in any order. Correct
  means: the counted records are whole in memory and on the media, recovery
  rebuilds exactly what was counted, the index agrees with the log, and the DB
  behaves as a list of `Set`s of which a failure leaves a prefix.
* **PersistantPool** shares an availability flag and a counter between threads
  in separate steps, can fail halfway through `KVSOpen`, and rewrites values
  in place.
* **HandleTable** is sequential, but replaces handles in the middle of a chain
  through a pointer to the pointer, and rehashes in the middle of an insert
  through the links it overwrites. A handle comes back with the `next_hash` of
  an earlier stay. Correct means: it is a map, and its chains end.
* **The judge's** threads copy to `key_pool + POOL_TOP` and add to `POOL_TOP`
  without a lock, so additions are lost and old values come back; what comes
  out of that is the modulus of every later draw. Correct means: no write past
  the pool, no division by zero, and random windows that never repeat.

## The modules

Shared state is one VARIABLE per field or global; a per-thread local of a
function under way is a function on `Threads`; `pc[t]` says at which access to
shared memory thread t stands. A step is one such access together with the
thread-local work up to the next one. Operators commented `Mutant:` are wrong
versions of the operator they stand in front of; no specification uses them.
`PROJECT.json` pairs each of them with the property it breaks, and gives the
source lines of every definition.

### InlineSkipList, LinearizableSet

| TLA+ | `nvm_engine/InlineSkiplist.hpp` |
| --- | --- |
| `link[n][l]`, `height[n]` | `Node::next_`, and the height stashed in it before the node is linked |
| `max_height_`; `prev_`, `next_`, `height_` | the atomic field; the fields of every `Splice`, with the extra entry `prev_[height_]` |
| `Splices` | `seq_splice_`, the caller's hints, and one name per thread for the splice on the stack of `InsertConcurrently` |
| `key`, `x`, `splice`, `cas`, `fix`, `max_height`, `recompute`, `level`, `before`, `after`, `valid` | parameters and locals of `Insert<UseCAS>`, `FindGreaterOrEqual`, `FindSpliceForLevel` |
| `ContainsCall`, `SeekAdvance`, `SeekDescend`, `SeekReturn` | `Contains` through `FindGreaterOrEqual` |
| `InsertCall` (`Insert`, `InsertConcurrently`, `InsertWithHint`), `CASMaxHeight`, `ReloadMaxHeight` | `AllocateNode`, the entry of `Insert`, the loop that raises `max_height_` |
| `OpenSplice`, `ReuseSplice`, `CheckSplice` | how many levels of the splice must be searched again, with `allow_partial_splice_fix` |
| `FindAdvance`, `FindDescend`, `Refound` | `FindSpliceForLevel` from `RecomputeSpliceLevels`, and after a lost race |
| `LinkStale`, `LinkDuplicate`, `PrepareLink`, `PublishLink`, `CASFailed`, `FinishInsert`, `Return` | the linking loops with and without CAS, and the splice that is left behind |

`LinearizableSet` is what callers are promised: a growing set on which every
call takes effect at one instant. `InlineSkipList!Linearizable` maps the set to
the keys linked at level 0 and the instant of an insert to its level-0 CAS.

Assumed of callers, as the class comment and its origin require: a sequential
insert has no other insert beside it (readers it may have); no two inserts
use one splice at a time; each node is inserted once. A failed
`compare_exchange_weak` that finds the expected value (a spurious failure)
loops without any change and is a stuttering step.

### SkipListReaders, LinearizableCursor

`SkipListReaders` extends `InlineSkipList` by threads that only read: each step
of a reader interleaves with each step of every insert.

| TLA+ | `nvm_engine/InlineSkiplist.hpp` |
| --- | --- |
| `node_[r]` | `Iterator::node_`, null while the iterator is not `Valid` |
| `method`, `target` | the call a reader is in and its argument |
| `walk[r]` | the search under way: which function, its key, `x`, `level`, `last_bigger` (or `last_not_after`), `count`, which wraps at `CountSpan` (2^64), and (history) whether it has |
| `Seek`, `SeekForPrev`, `Prev_`, `SeekToLast`, `SeekToFirst`, `Next_`, `EstimateCount` | the calls of these names; `SeekToFirst` and `Next` read one link and are one step |
| `StartWalk`, `Forward`, `Down` | the loops of `FindGreaterOrEqual`, `FindLessThan`, `FindLast` and `EstimateCount`, a link at a time; `Reaches` and `Equals` are their conditions |
| `Arrive` | the end of a search: the iterator moves, and `SeekForPrev` goes on with `FindLast` or `FindLessThan` |
| `EstimateReturns` | the end of `EstimateCount` |
| `TEST_Validate` | the assertions of the self-test, as a predicate of the list |

`LinearizableCursor` is what an iterator promises: a cursor over a growing
sorted set, each of whose calls moves it at one instant to the key the set has
for it then. That instant is the end of the search, so that a `SeekForPrev`
that took several must be right for the list as its last one finds it. Between
them `node_` holds a provisional node, which the mapping hides until the call
returns.

`EstimateCount` adds to and multiplies a `uint64_t`. It answers 0 when no node
lies before the key; the converse holds only as long as `count` has not
overflowed, and `EstimatesNone` says so: by `*= kBranching_` on level after level
4 nodes counted on level 31 become 0. With the defaults (12 levels, a factor of
4) this takes 2^42 nodes on the highest level.

`FindLessThan` has a `prev` array and bounds that no caller passes; they are
left out. The class is a template nothing instantiates: as written, lines 197
(`FindGreaterorEqual`) and 207 (`key()`) name functions that do not exist. They
are read as `FindGreaterOrEqual` and `Key()`, which is what the code around them
uses.

### NvmExample, DurableKV

| TLA+ | `nvm_example/NvmExample.cpp` |
| --- | --- |
| `mem`, `media` | the mapping as the CPUs see it and as the media hold it, in words; word 0 is `*_pmem.sequence` |
| `end_off`, `sequence`, `current` | `LogAppender::_end_off`, `RecoveryHelper::_sequence`, `_current` |
| `hash_map`, `mut` | the fields of `NvmExample` |
| `part`, `copied`, `nvm_key`, `nvm_val` | progress and locals of `Append` and `_push_back` |
| `Open`, `RecoverNext`, `RecoveryDone` | `CreateOrOpen`: the constructors and `Recovery` over `RecoveryHelper::Next` |
| `Call`, `Lock`, `Read`, `Return` | `Get`, and the entry of `Set` |
| `StoreSize`, `PersistSize`, `CopyWord`, `PersistData`, `Count`, `MapKey` | `Set` through `Append`: each store and each `_persist` of both slices, the count, the index |
| `Close`, `Fault` | the destructors; a store past the end of the mapping, whose size nothing checks |
| `WriteBack`, `Crash`, `PowerFailure` | the cache and the two ways a process ends without its destructors |

`log` and `acked` are history variables: the records counted so far with the
place of each, and how many of them were acknowledged. `DurableKV` is the DB of
`include/db.hpp` with crashes: a list of `Set`s of which a failure leaves a
prefix. `UseLibpmem` says how the program was built and never changes; the
constant `Builds` says which builds a run looks at. `FALSE` is the build the
makefile makes: an anonymous mapping, gone with its process.

Assumed: a 64-bit word reaches the media whole; words reach it in any order
unless `_persist` covers them; the page behind the mapping is not mapped, so a
store there faults (`Fault`). A load outside the mapping would read 0 in the
model; `TypeOK` says, beside the types, that there is none (`SlicesInside`): every
slice in `hash_map`, what `Append` has pushed back, and the two slices that
`Recovery` reads next end inside it.

### PersistantPool

| TLA+ | `nvm_engine/PersistantPool.hpp` |
| --- | --- |
| `mode`, `handles` | whether `pools_` is set, and which `Pool::pool` are |
| `next_pool_index_`, `dcpmm_is_avail_`, `dcpmm_avail_size_` | the atomics of these names |
| `locked`, `files`, `heap`, `media` | libpmemobj: pools open in this process, pools that exist, chunks free, reserved or allocated, persistent contents |
| `hdr`, `mem` | the `encoding` in front of a value and the value, as the CPUs see them |
| `pool_index`, `round` | locals of `ReservePmem`'s loop |
| `held` | what callers hold: each `KVSRef` with its reservation until it is published, and (history) the value it was made from |
| `refused`, `lost` | history: pools that had no room; chunks a failure leaves to nobody |
| `KVSOpen`, `OpenPool`, `OpenFails`, `KVSCLose` | `KVSOpen` with its error path, `KVSCLose` |
| `KVSEncodeValue`, `NextIndex`, `Reserve`, `NoRoom`, `TurnOff`, `StoreValue`, `Persist` | `KVSEncodeValue` with `ReservePmem` |
| `KVSPublish`, `PublishBatch`, `Published` | `KVSPublish`, a batch of 32 (here `Batch`) at a time |
| `KVSFreeValue`, `KVSDumpFromValueRef`, `Added`, `FreePmem`, `CheckAvail`, `CountFreed`, `ResetAvail`, `TurnOn` | freeing directly and after a dump, with the bookkeeping of freed bytes |
| `Decoded`, `DecodedRaw`, `Decompressed`, `DecodeAborts` | `KVSDecodeValueRef` on a `KVSRef` and on what a dump left, from line 303 on, and its `abort()` |
| `UInt`, `UIntSpan` | the assignment of a `size_t` to the 32 bits of `ref->size` |
| `Snappy` | whether the build defines `SNAPPY`; no makefile of the repository does |
| `Crash`, `PowerFailure` | the end of the process and of the power |

libpmemobj is modelled by its contract: a reservation belongs to the process
and is undone when it ends, a publish of one batch is atomic, a pool cannot be
opened twice. Assumed of callers: each reference is published once and freed or
dumped once, after it was published, by one call at a time, and `KVSCLose` is
called when no call is under way. `next_pool_index_` is kept modulo
`pool_count_`, its only use; that a `size_t` wraps (which would skip pools when
`pool_count_` is no power of two) is not modelled. `KVSRoot::size` is written
and never read, and is left out. Nor is `dcpmm_avail_size_` made to wrap: by
`TypeOK` it stays within a 32-bit size per thread of the threshold.

Three limits of what is claimed. A reference decodes (`Resolves`), and a dumped
value can be read (`DumpedWhole`), if the value is `Readable`: its size fits in
`ref->size`, and the build can decompress it if it is compressed. Values of 4 GiB
and more are stored whole and their references cut off; nothing in the code
checks it. And `TurningOn` and `FreedTurnsOn` speak of the count of freed bytes
alone: whoever takes it above the threshold resets it and turns the store on. A
refusal that stores `false` late (line 192) can turn it off again, and what was
freed between is not counted again, so that the store may stay off with nothing
left to free. A header rewritten by a dump is not persisted: after a power
failure it may have either value.

### HandleTable, HandleMap

| TLA+ | `nvm_engine/Cache.hpp` |
| --- | --- |
| `length_`, `elems_`, `list_` | the fields of these names |
| `next_hash[h]` | the field of an `LRUHandle`; stale once the handle is out of the table |
| a place (a bucket's number or a handle) | what an `LRUHandle**` points at: `list_[i]` or a handle's `next_hash` |
| `FindPointer`, `Deref`, `Stored` | `FindPointer`, `*ptr`, `*ptr = h` |
| `Rehashed` (`Loops`, `Moved`), `NewLength` | the loops of `Resize`, and a round of the inner one |
| `Init`, `Lookup`, `Insert`, `Remove` | the constructor and the public calls, each whole: nothing locks or interrupts them |

`answer` is history: the key and the result of the latest call. `HandleMap` is
the map a cache is promised, and `ImplementsMap` says that each call of
`HandleTable` is one call of it with the same answer. Lengths are powers of two
(`LengthIsPower`), so `& (length - 1)` is `%`. Assumed of the caller, a cache that is not written
yet: a handle is inserted only while it is not in the table, and `hash` is the
same for equal keys. `LRUHandle::key()` asserts `next != this`, which concerns
the LRU list that does not exist; it is not modelled.

### Judge

| TLA+ | `judge/judge.cpp`, `judge/random.h`, `judge/random.cpp` |
| --- | --- |
| `phase`, `cnt` | where `main` stands; the loop counters of `set_pure` and `get_pure` |
| `POOL_TOP` | the global |
| `rnd[t]` | a thread's `Random`: `next` is `nextIndex`, `ints` the buffer; numbers are known by the order in which they were made |
| `at`, `sum` | the address of a `memcpy` into `key_pool`, and what `POOL_TOP += 2` is about to store |
| `DrawKey`, `CopyKey`, `AddToTop`, `StoreTop` | a round of `set_pure`; the load, the addition and the store are steps of their own |
| `StartGets`, `DrawId`, `Finish` | the joins of `main`, a round of `get_pure`, the end |
| `refillRandomUnsignedInts`, `nextUnsignedInt` | the functions of these names |

`POOL_TOP` is not atomic, so the race is undefined behaviour: the model lets
`POOL_TOP += 2` load the global again or reuse the value that the address of the
`memcpy` was computed from, the two things the compiler may do. The words in
`key_pool` are not kept: the calls of the DB are commented out, so nothing reads
them (a key may be torn by two copies to one place). The normal distribution is
any value within nine deviations; `PER_SET`, `PER_GET`, the rounds at which a
key is kept and the lengths in `Random` are constants. `pthread_create` is taken
to succeed.

## What the runs check

All runs finish with every state visited; numbers are distinct states.

| Run | Instance | Shows |
| --- | --- | --- |
| `skiplist_races` (627 000) | 3 threads, 3 nodes of which 2 share a key, 2 levels | `Ordered`, `Nested`, `Complete`, `SearchOnLevel` in every interleaving of concurrent and sequential inserts and lookups; `SelfTest`: `TEST_Validate` passes whatever inserts have raced |
| `skiplist_splices` (1 595 000) | 2 threads, 3 distinct keys, one hint splice, 2 levels | `LinkBrackets`, `SpliceNested`: splices that outlive their call stay usable, with and without CAS and partial fixing; `NeverUnlinked`; `Linearizable` (implements `LinearizableSet`) |
| `skiplist_live` (121 000) | 2 threads, 3 nodes of which 2 share a key, fair | `CallsReturn`: no call loops for ever; `Linearizable` with racing duplicates |
| `skiplist_readers` (743 000) | 1 inserter of 3 keys on 2 levels beside 1 reader, a count that wraps at 4, fair | `LinearizableReads` (implements `LinearizableCursor`), `CursorsLinked`, `EstimatesNone`, `ReadsReturn` |
| `nvm_failures` (738 000) | 1 thread, slices of 1 and 2 words, 10 words, libpmem, crash and power failure, fair | `Tiled`, `Counted`, `Durable`, `Indexed`, `AppendOnly` at every step of a `Set`, of recovery, and after every failure; `TypeOK`: no load leaves the mapping; `NeverStuck`: recovery ends, and so does every `Set` and `Get` or its process |
| `nvm_store` (617 000) | 2 threads, 9 words, both builds | `ImplementsStore`: a linearizable DB of which a failure leaves a prefix |
| `pool_values` (1 396 000) | 2 threads, 2 pools with a small and two big chunks, a compressed value and another, with `SNAPPY` | `Resolves`, `Durable`, `Accounted`, `AllRefused`, `DumpedWhole`, `HandlesClosed`, `TurningOn` |
| `pool_live` (115 000) | 2 threads, 2 pools with a chunk each, without `SNAPPY`, a length that `ref->size` cuts off, fair | `FreedTurnsOn` |
| `handle_table` (16 000) | 6 handles of 5 keys, 3 of them in one bucket, 2 with one hash | `ImplementsMap` (implements `HandleMap`), `ChainsSound`, `CountIsExact` in every sequence of calls, across the growth from 4 buckets to 8 |
| `judge_pool` (133 000) | 3 threads that keep 3 keys each, windows of 4 in a buffer of 8 | `PoolFits`, `GetsDefined`, `WindowsFresh` |
| `nvm_acked` (violation) | as `nvm_store` | a `Set` that has returned is lost when the power fails: the count is never persisted. Line 14 of the repository's `README.md` asks for the opposite of the engine; its FAQ (line 58) says of the example that it does not pass the verification and has bugs |
| `pool_decodes` (violation) | as `pool_live`, no length cut off | without `SNAPPY` a value stored with `compress` makes `KVSDecodeValueRef` call `abort()` |

Why the bounds are enough. *Skip list*: two levels are needed for a level that
is linked later than the one below and for a splice whose lower part only is
searched again; three nodes let two inserts race for one gap while a third
changes its border; a shared key gives racing duplicates; three threads let a
reader watch two inserters, and a third inserter win against both; `TEST_Validate`
is evaluated in each of these states without an insert under way. *Readers*:
one inserter is enough to change the list between any two steps of a reader,
whatever the number of inserters, because a reader sees links only, and three
keys on two levels let a node appear before, at and behind the one a search
stands on, on one level before the other; with `CountSpan = 4` two nodes counted on level 1
become 0, the overflow that takes 2^42 of them in the program; a second inserter does not finish in
the time of a run. That inserters together keep the levels as a reader needs
them is what `skiplist_races` checks, and `CursorsStayLinked` is proved for any
number of both. *NvmExample*:
ten words hold two records of one-word slices, or one longer record and the
beginning of another that does not fit, so the log fills up, faults and is
recovered; values and keys share words with sizes and counts, so a slice read
at a wrong offset is told apart. The bound on the number of records is the
capacity itself. *Pool*: values fit differently into the chunks, so that one
pool refuses and the other accepts, both refuse, and two threads race for the
last chunk; with `Batch = 1` publishing takes several batches; the threshold of
1 byte is passed by one or two frees. In `pool_live` a 32-bit size is one bit
wide, so that a length of 2 is cut off to 0; in `pool_values`, whose properties
are about values that fit, both lengths do. *HandleTable*: the fifth key makes the
table grow; two keys of one hash and a third of the same bucket make chains of
three, of which the rehash moves some to another bucket; the sixth handle
replaces another of its key at each place of a chain. *Judge*: three threads let
one store a value that two others have passed since; three keys each are one
more than the two that `GetsDefined` needs (with one key each it does not hold:
all additions but one can be lost, and `id %= POOL_TOP - 2` then divides by
zero; a thread of the program keeps a second key from a `PER_SET` of 30592 on,
and its default is 48 000 000); the buffer is refilled after every second window. No
counter needed a cap of its own: the skip list ends with its nodes, the log with
its capacity, the judge with its rounds, the freed bytes are reset.

Symmetry is used for threads in `skiplist_races` and `pool_values` only, which
check invariants and a step property that treat all threads alike, never with
liveness or refinement.

Fairness. `WF_vars(Step(t))` for each thread: a thread inside a call is
scheduled again, which is all an operating system promises. It is weak, so a CAS
that keeps being lost is not helped by it: `CallsReturn` holds because each loss
is another insert's progress and inserts are finite. In NvmExample recovery and
the fault of a thread are fair too (the process runs); `Lock` is weakly fair
only, so nothing is said about starvation at the mutex, just that it is
released. Calls, failures, write-backs and `Open` are never fair. Readers are weakly fair
within a call as well: `ReadsReturn` holds although `SeekForPrev` searches again
for each node inserted behind its target, because inserts end. In the pool
nothing obliges callers to free: `FreedTurnsOn` starts from a sum already above
the threshold.

## What is proved

Every invariant, action property and refinement that a passing run checks is
also a theorem about every value of the constants, but for those listed at
the end of this section. `PROJECT.json` lists the theorems with what each says.
None of the properties is inductive. For each component there is an inductive
invariant, a conjunction of named parts, which TLC checked on the instances of
the runs before its proof was begun; the proof has one lemma per action and
part, and the theorems follow.

### InlineSkipListProofs: types, levels

For any number of threads, nodes, keys, levels and hints: `TypeCorrect`
(`TypeOK`), `LevelsNested` (`Nested`), `NothingUnlinked` (`NeverUnlinked`). They
rest on the named assumptions of `InlineSkipList` (keys are integers, at least
one level, the special values differ).

* `Shape` makes `TypeOK` inductive. A step follows `prev_` and `next_` entries,
  which must have been written: `SpliceShape` says an entry up to `height_` is
  written unless a recomputation still has to come to it, `CallShape` bounds
  the locals of a call by one another (`level < height <= max_height <=
  height_`), `Exclusive` that overlapping inserts have different splices and
  nodes, so that one does not disturb what another knows of its own.
* `Links` adds what is known of links. `Placed` says at exactly which levels the
  node of an insert is linked, from its `pc`, `level` and answer, which gives
  `Nested` at each publication; `SplicesOnLevel` and `CursorOnLevel` that
  splices and searches stand on nodes of their level; `Prepared` that a node
  about to be published points where its splice says; `Tight` that the
  neighbours a sequential insert will store between without CAS are still
  adjacent; `Pointed` that a linked node is pointed at by a linked node.
  With `Prepared` and a CAS that succeeds (or `Tight` for the plain store), the
  successor that loses a pointer gets one from the new node, so nothing is
  unlinked.

Frame lemmas (`SpliceShapeKept` and its like) say what other threads' steps
leave alone.

### InlineSkipListOrderProofs: order

`LevelsOrdered` (`Ordered`), `SearchesOnLevel` (`SearchOnLevel`), `LinksBracket`
(`LinkBrackets`), `SplicesStayNested` (`SpliceNested`), `NodesComplete`
(`Complete`). The invariant `Order` adds to `Shape` and `Links` that the levels
are `Ordered`, that two nodes have two keys (`DistinctKeys`), that the levels of
a splice that have not to be searched again nest (`SplicesNested`), and for
each thread:

* `SearchBrackets`: a search stands before its key, and not before the node its
  splice has one level up;
* `SpliceBrackets`: the levels of its splice that an insert found, or found to be
  good, bracket its key. Which these are depends on `pc` (`Found`); `OpenSplice`
  and `ReuseSplice` may count on the levels they do not look at because a nested
  splice that brackets a key on one level brackets it on every level above;
* `NoDuplicate`: the successor of a node about to be published has another key,
  which with the CAS (or `Tight`) gives `DistinctKeys`;
* `Threaded`: what a sequential insert has linked on the levels below stays
  between the neighbours its splice names, so that the splice it leaves nests;
* `GivenUp`: a splice is given up only for a race lost above level 0.

A node is put between two adjacent nodes of its level that bracket its key, so
`Ordered` is kept at that level; at the others nothing changes. The order is
needed at all levels at once, because a splice recomputed partly is trusted
above.

### InlineSkipListLinearProofs: the refinement of LinearizableSet

`SetRefined` (`Linearizable`), with the invariant `Shape /\ Links /\ Order /\
NoEarlyAnswer`. Each action maps as follows: the calls to the calls; the step
that publishes a node at level 0 to the effect of an insert that answers true;
`LinkDuplicate` to one that answers false, because the node that it found is of
the set; `SeekReturn` to a lookup's effect, because between the node the search
stands on and its successor at level 0 there is no other (`Ordered`); `Return`
to the return; every other step to a stutter. After a lost race an insert
searches its place again and repeats the test for a duplicate, so that its
answer is right for the list as that test finds it.

### SkipListReadersProofs: the readers

For any number of readers beside any number of inserters. `ReadersTypeCorrect`
(`ReadersTypeOK`) and `CursorsStayLinked` (`CursorsLinked`) rest on `Shape`,
`Links` and `WalkOK`, that a search that has begun is one of the four functions
and has a key if it needs one. A step of an insert keeps them because no node
leaves a level (`NextLinks`); a step of a reader because a link leads to a node
of its level, because a node of a level is on all levels below (`Nested`), and
because the loop condition has just compared the key. They add the assumption
`ReadersAssumption` (null is no key, the branching factor and the span of the
count are at least two).

`EstimateCountsNone` (`EstimatesNone`) and `CursorRefined` (`LinearizableReads`,
the refinement of `LinearizableCursor`) need `Order` and `ReadersFit` besides:
`CallFits` says which search each call has under way and with which key (a
`SeekForPrev` goes on with `FindLessThan` from the node it overshot to), and
`SearchFits` what a search knows of `last_bigger`, `last_not_after` and `count`
(which is not 0 once a node was counted, unless it has overflowed).
`Arrive` is the one step of the abstract cursor: at level 0 nothing lies between
the node a search stands on and its successor, so the key it arrives at is the
one the whole set has for the call, at that instant.

`SelfTestPasses` (`SelfTest`) needs no more than `Order`, and that the list ends
(`Ends`: of any nodes of it one is the last, kept because a step adds one node).
`TEST_Validate` is a recursive function; that it passes is shown by a greatest
set of places that pass (`TestExists`) and a least counterexample (`TestPasses`),
in place of an induction. Between two rounds each level stands on the last of its
nodes that is not behind `nodes[0]` (`InStep`), so it moves if and only if the
next node is of that level. The proof does not use that no insert is under way:
a node that is not linked on all its levels yet does not fail the test.

### NvmExampleProofs: the log, its recovery, the store

For any number of threads, any capacity, any sets of slices and either build:
`TypeCorrect` (`TypeOK`), `RecordsTiled` (`Tiled`), `CountIsTrue` (`Counted`),
`RecordsDurable` (`Durable`), `MapIndexes` (`Indexed`), `LogAppendOnly`
(`AppendOnly`), `StoreRefined` (`ImplementsStore`). The invariant:

* `LogInv`: the records lie one behind the other (`Chained`, `Growing`), they
  are `Counted` and `Durable`, and with libpmem the words before the end of the
  log are the same on the media as in memory (`Agrees`), which `AppendOnly` needs
  when a power failure loses no
  record;
* `ThreadsInv`: the mutex is held by the one thread that stands between `Lock`
  and `Return`, and what a thread has of a call fits its `pc`;
* `AppendInv`: at each `pc` of `Append`, which words of the record under way have
  been stored and which of them persisted, and that all of them lie behind the
  end of the log;
* `MapInv`: whom `hash_map` points at, with one record of the log not yet indexed
  between the count and `MapKey`; `EndInv`: where `_end_off` stands.

That slices end inside the mapping is read off `MapInv` and the records Recovery
finds (`NextRecord`); for those of `Append` it is an invariant of its own
(`Pushing`).

A word stored by `Append` lies behind every counted record, which keeps
`Counted`, `Durable` and `AppendOnly`; the step of the count finds both slices
stored and persisted. `StoreRefined` maps `Call` to a call, `Read` to the
effect of a `Get`, `Count` to that of a `Set`, `MapKey` and `Return` to the
return, `Close`, `Crash`, `PowerFailure` and `Fault` to a crash that
leaves a prefix (the counted records, or those that the media counts), and
every other step to a stutter.

### PersistantPoolProofs: the values in the pools

For any number of threads, pools, chunks and requests: `TypeCorrect` (`TypeOK`
with its bound on the freed bytes), `ChunksAccounted` (`Accounted`),
`ReferencesResolve` (`Resolves`), `PublishedDurable` (`Durable`), `RefusedByAll`
(`AllRefused`), `DumpsWhole` (`DumpedWhole`), `PoolsClosed` (`HandlesClosed`),
`FreedNotForgotten` (`TurningOn`). The invariant `Inv`:

* `OpenInv`: libpmemobj has open exactly what has a handle, and while the pools
  are opened they are opened in a row, so that the error path closes all;
* `EncodeInv`: the pools that refused a request are those within `round[t]` of
  `pool_index[t]` in the order of the round robin (`Distance`); at `pool_count_`
  rounds these are all;
* `RefInv`, `DataInv`: what a call has stored where its reference points, and
  that a chunk somebody has a reference to holds its value, on the media too;
* `WorkInv`, `HeapInv`, `Accounted`: which values a publish or a dump works on,
  that no two calls share one, and who has which chunk. A step moves one chunk
  from one pair of hands to another, and it had one owner before;
* `TurningOn`, `AvailBounded`: the freed bytes exceed the threshold by at most
  one largest 32-bit size for each thread about to reset them, since whoever
  takes the sum over the threshold, or adds to it beyond, becomes one.

Assumed, beside the ranges of the constants: finitely many threads
(`BoundedAssumption`), without which the bound on the freed bytes does not exist;
snappy writes at least a byte (`LengthAssumption`); what an unwritten chunk holds
is no stored value, and an aborted decode yields none (`GarbageAssumption`). The
theorems hold for either build and for lengths of any size: those about decoding
by their condition `Readable`, which `DataInv` (`Sized`) needs to conclude that a
reference has the length of its data.

### JudgeProofs: the load generator

For any number of threads, rounds, sampled rounds and any buffer whose size is a
multiple of four and of the window: `CopiesFit` (`PoolFits`), `DrawsDefined`
(`GetsDefined`), `NumbersFresh` (`WindowsFresh`). `UpperInv` bounds `POOL_TOP`,
the addresses computed from it and the sums to be stored by two words for each
sample stored so far, plus the one under way. `LowerInv` is the argument that lost
additions do no worse than this: a thread's first sample leaves two words
whatever is stored later, since whoever stores later added to at least 0; so
after it every load finds at least two words, and a thread's second sample
stores at least four. `POOL_TOP` is below four words only as long as some
thread, the one that stored last, has not stored its second. `RandomInv` says
that the buffer is sorted by the order in which the numbers were made, and that
windows fill it with nothing left over.

### HandleTableProofs: the hash table

For any finite set of handles, any keys and any hash: `ChainsAreSound`
(`ChainsSound`), `CountExact` (`CountIsExact`), `MapImplemented`
(`ImplementsMap`, the refinement of `HandleMap`). They assume that handles,
bucket numbers and `nullptr` are told apart (`HandlesAssumption`) and that a
hash is a natural number (`HashAssumption`).

The loops of the code are recursive functions here, and TLA+ does not grant that
such a function exists. `LoopExists` shows that it does for every loop that steps
within a set, whether it ends or not, and `LoopEnds` that it stops where it
should if some rank falls at each step: the argument is a least counterexample,
by the well-foundedness of the naturals, in place of an induction. With them
`FindPointerFacts` (the place found leads to the key's handle, or to the end of a
bucket that does not hold the key), `NewLengthFacts`, `RehashTable` and
`ReachedFacts` are proved for any chains. `LengthIsPower` is a by-product: the
length is always 4 or what `NewLength` doubles to.

The invariant `Inv` says that the links are a table of some set `M` of handles:
the handles have different keys and different ranks, and each place leads to the
one of highest rank among those of its bucket behind it (`Table`). `ChainsSound`
speaks of the handles that the links lead to, which a proof cannot recompute
after each change of a link; `M` and the ranks change by one handle, and
`ReachedFacts` says that `M` is what the links lead to. `AppendTable`,
`ReplaceTable` (the new handle takes the rank of the old one) and `RemoveTable`
give the new table after each call; `RehashTable` has an invariant of its own for the loops of `Resize` (`Moving`): the handles
moved so far are a table of the new length, and the links of the others are as
they were, although `next_hash` is overwritten in the same field.

### Only model-checked

* `CallsReturn`, `ReadsReturn`, `NeverStuck`, `FreedTurnsOn`: liveness under
  fairness is out of the prover's reach.

## Not modelled

* Memory orders weaker than sequential consistency: a relaxed `SetNext` is
  published by the CAS or release store after it. A step of the model is one
  access in one total order.
* The random height (any height may be drawn), comparators (keys are
  integers), prefetching, memory layout.
* The iterator's cleanup list: `RegisterCleanup` picks or allocates a `Cleanup`
  and stores nothing in it, so that the destructor's test of
  `cleanup_.function` always fails; no operation changes a state that another
  one reads.
* The LRU cache of `Cache.hpp`, whose methods are declared only, and the fields
  of `LRUHandle` that belong to it.
* In `Random`, the arithmetic of `generateSSE4`, and `nextUnsignedInt(maxValue)`
  and `nextBool`, which nothing calls. In the judge, `pool_seed`, which is filled
  and never used, and the timing output.
* A run of the judge so short that a thread keeps fewer than two keys (see the
  bounds above), and a `key_pool` smaller than two words per kept key:
  `judge/README.md` leaves `MAX_POOL_SIZE` to whoever runs it.
* Declarations without an implementation (`Table`, `TableCache`, `Index`,
  `Allocator`, `Btree`), the `NvmEngine` stub (it keeps no state), tutorials and
  their samples.

## Plan

Done, in this order because the first carries the hardest concurrency and the
second the crash consistency: `InlineSkipList` with `LinearizableSet`,
`NvmExample` with `DurableKV`, `PersistantPool`, `SkipListReaders` with
`LinearizableCursor`, `HandleTable` with `HandleMap`, `Judge`, and the theorems
above. Every part of the repository that has state and code is modelled.

Every safety property that a passing run checks has a theorem, under the
assumptions named in the modules. Next: review the statements and the assumptions
of the theorems against the source again, and state what no run states yet, first
the bounds of the arrays that `InsertConcurrently` indexes (the hazard at
`InlineSkiplist.hpp:429`).
