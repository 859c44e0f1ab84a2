--------------------------- MODULE NvmExampleProofs ---------------------------
(***************************************************************************)
(* Proofs about NvmExample: its variables keep their types, the log is an  *)
(* unbroken chain of whole records that the count agrees with, in the      *)
(* mapping and on the media, it is never overwritten, hash_map points at   *)
(* the latest record of every key, and the whole implements DurableKV.     *)
(***************************************************************************)
EXTENDS NvmExample, SequenceTheorems, TLAPS

\* Append holds the mutex from "size" to "map", Get at "read".
Appending == {"size", "persistSize", "copy", "count", "map"}
Holding == Appending \cup {"read"}

\* Where the next record goes.
Base == EndOfLog(Len(log))

\* The log's records lie one behind the other.
Chained == \A i \in 1 .. Len(log) : log[i].at = EndOfLog(i - 1)
Growing == \A j \in 1 .. Len(log) : \A i \in 1 .. j : EndOf(log[i]) <= EndOf(log[j])

\* The media holds the counted records as the CPUs read them.
Agrees == UseLibpmem => \A a \in 1 .. Base - 1 : media[a] = mem[a]

LogInv == Chained /\ Growing /\ Counted /\ Durable /\ Agrees

\* What a thread's call is, and who has the mutex.
ThreadOK(t) ==
    /\ pc[t] \in Holding <=> mut = t
    /\ mode # "open" => pc[t] = "idle"
    /\ pc[t] = "idle" => op[t] = "none" /\ key[t] = <<>> /\ value[t] = <<>>
    /\ pc[t] # "idle" => op[t] \in {"get", "set"} /\ key[t] \in Keys
    /\ pc[t] \in {"read", "ret"} => op[t] = "get"
    /\ pc[t] \in Appending => op[t] = "set"
    /\ op[t] = "set" => value[t] \in Values
    /\ pc[t] # "ret" => answer[t] = NotFound

ThreadsInv == \A t \in Threads : ThreadOK(t)

\* Slice s lies at word a, on the media as well.
Stored(a, s) == Holds(mem, a, s) /\ (UseLibpmem => Holds(media, a, s))

KeyPushed(t) ==
    /\ Stored(Base, key[t])
    /\ nvm_key = [off |-> Base + 1, len |-> Len(key[t])]

ValuePushed(t) ==
    /\ Stored(Base + 1 + Len(key[t]), value[t])
    /\ nvm_val = [off |-> Base + 2 + Len(key[t]), len |-> Len(value[t])]

\* How far Append has come.
AppendOK(t) ==
    /\ pc[t] \in {"size", "persistSize", "copy"} =>
        /\ part = "key" => end_off = Base
        /\ part = "value" => end_off = Base + 1 + Len(key[t]) /\ KeyPushed(t)
    /\ pc[t] \in {"persistSize", "copy"} =>
        end_off < Capacity /\ mem[end_off] = Len(Pushed(t))
    /\ pc[t] = "copy" =>
        /\ copied <= Len(Pushed(t))
        /\ end_off + copied < Capacity
        /\ UseLibpmem => media[end_off] = Len(Pushed(t))
        /\ \A i \in 1 .. copied : mem[end_off + i] = Pushed(t)[i]
    /\ pc[t] = "count" =>
        /\ KeyPushed(t) /\ ValuePushed(t)
        /\ end_off = Base + 2 + Len(key[t]) + Len(value[t])
    /\ pc[t] = "map" =>
        /\ Len(log) > 0
        /\ log[Len(log)].key = key[t]
        /\ nvm_key = [off |-> log[Len(log)].at + 1, len |-> Len(key[t])]
        /\ nvm_val = ValueSlice(log[Len(log)])

\* The records that hash_map knows.
MapInv ==
    /\ mode = "down" => \A k \in Keys : hash_map[k] = NoSlice
    /\ mode = "recovering" => \A k \in Keys : PointsTo(k, current)
    /\ mode = "open" =>
        \A k \in Keys :
            PointsTo(k, IF \E t \in Threads : pc[t] = "map" THEN Len(log) - 1 ELSE Len(log))

\* Where _end_off stands, apart from Append.
EndInv ==
    /\ mode = "recovering" =>
        sequence = Len(log) /\ current <= sequence /\ end_off = EndOfLog(current)
    /\ mode = "open" /\ (\A t \in Threads : pc[t] \notin Appending \ {"map"}) => end_off = Base
    /\ (\A t \in Threads : pc[t] \notin Appending) => part = "key"

AppendInv == \A t \in Threads : AppendOK(t)

Inv == Types /\ LogInv /\ ThreadsInv /\ AppendInv /\ MapInv /\ EndInv

-----------------------------------------------------------------------------
(* Slices, records and the log                                             *)

\* The arguments of calls are sequences of numbers.
LEMMA SlicesAreSequences ==
    /\ \A s \in Keys \cup Values \cup {<<>>} :
           /\ s \in Seq(Nat)
           /\ Len(s) \in Nat
           /\ \A i \in 1 .. Len(s) : s[i] \in Nat
<1> SUFFICES ASSUME NEW s \in Keys \cup Values \cup {<<>>}
             PROVE  s \in Seq(Nat) /\ Len(s) \in Nat /\ \A i \in 1 .. Len(s) : s[i] \in Nat
  OBVIOUS
<1>1. s \in Seq(Nat)
  <2>1. CASE s = <<>>
    BY <2>1, EmptySeq
  <2>2. CASE s # <<>>
    <3>1. s \in Seq(Words)
      BY <2>2, SlicesAssumption
    <3>2. QED
      BY <3>1, WordsAssumption, SeqMonotonic
  <2>3. QED
    BY <2>1, <2>2
<1>2. QED
  BY <1>1, LenProperties, ElementOfSeq

\* The records of the log.
Records == [key : Keys, value : Values, at : Nat]

LEMMA LogType ==
    ASSUME Types
    PROVE  /\ Len(log) \in Nat
           /\ \A i \in 1 .. Len(log) : log[i] \in Records
<1>1. log \in Seq(Records)
  BY DEF Types, Records
<1>2. QED
  BY <1>1, LenProperties, ElementOfSeq

\* The value slice of a record comes behind its key slice, and the next record
\* behind both.
LEMMA RecordType ==
    ASSUME NEW r \in Records
    PROVE  /\ r.key \in Keys /\ r.value \in Values /\ r.at \in Nat
           /\ Len(r.key) \in Nat /\ Len(r.value) \in Nat
           /\ ValueAt(r) = r.at + 1 + Len(r.key)
           /\ EndOf(r) = r.at + 2 + Len(r.key) + Len(r.value)
           /\ ValueAt(r) + 1 + Len(r.value) = EndOf(r)
           /\ ValueAt(r) \in Nat
           /\ EndOf(r) \in Nat
           /\ ValueSlice(r) \in Slices
           /\ r.at < ValueAt(r) /\ ValueAt(r) < EndOf(r) /\ 1 < EndOf(r)
  BY SlicesAreSequences DEF Records, ValueAt, EndOf, ValueSlice, Slices

\* EndOfLog counts from word 1 on.
LEMMA EndOfLogType ==
    ASSUME Types, NEW n \in 0 .. Len(log)
    PROVE  EndOfLog(n) \in Nat /\ 1 <= EndOfLog(n)
<1>1. Len(log) \in Nat
  BY LogType
<1>2. CASE n = 0
  BY <1>2 DEF EndOfLog
<1>3. CASE n # 0
  <2>1. log[n] \in Records
    BY <1>1, <1>3, LogType
  <2>2. QED
    BY <2>1, <1>3, RecordType DEF EndOfLog
<1>4. QED
  BY <1>2, <1>3

\* The records lie between word 1 and Base.
LEMMA RecordPlace ==
    ASSUME Types, Chained, Growing, NEW i \in 1 .. Len(log)
    PROVE  /\ log[i] \in Records
           /\ log[i].at = EndOfLog(i - 1)
           /\ 1 <= log[i].at
           /\ EndOf(log[i]) <= Base
           /\ EndOfLog(i) = EndOf(log[i])
<1>1. log[i] \in Records /\ Len(log) \in Nat
  BY LogType
<1>2. log[i].at = EndOfLog(i - 1)
  BY DEF Chained
<1>3. 1 <= EndOfLog(i - 1)
  <2>1. i - 1 \in 0 .. Len(log)
    BY <1>1
  <2>2. QED
    BY <2>1, EndOfLogType
<1>4. Len(log) \in 1 .. Len(log) /\ i \in 1 .. Len(log)
  BY <1>1
<1>5. EndOf(log[i]) <= EndOf(log[Len(log)])
  BY <1>4 DEF Growing
<1>6. Base = EndOf(log[Len(log)])
  BY <1>1 DEF Base, EndOfLog
<1>7. QED
  BY <1>1, <1>2, <1>3, <1>5, <1>6 DEF EndOfLog

\* Base is an address or one word past the last.
LEMMA BaseFits ==
    ASSUME Types, LogInv
    PROVE  Base \in Nat /\ 1 <= Base /\ Base <= Capacity
<1>1. Len(log) \in Nat
  BY LogType
<1>2. Base \in Nat /\ 1 <= Base
  <2>1. Len(log) \in 0 .. Len(log)
    BY <1>1
  <2>2. QED
    BY <2>1, EndOfLogType DEF Base
<1>3. CASE Len(log) = 0
  BY <1>3, CapacityAssumption DEF Base, EndOfLog
<1>4. CASE Len(log) # 0
  <2>1. Len(log) \in 1 .. Len(log)
    BY <1>1, <1>4
  <2>2. Holds(mem, ValueAt(log[Len(log)]), log[Len(log)].value)
    BY <2>1 DEF LogInv, Counted, RecordsIn
  <2>3. ValueAt(log[Len(log)]) + Len(log[Len(log)].value) < Capacity
    BY <2>2 DEF Holds
  <2>4. PICK r \in Records : r = log[Len(log)]
    BY <2>1, RecordPlace DEF LogInv
  <2>5. Base = EndOf(r)
    BY <1>4, <2>4 DEF Base, EndOfLog
  <2>6. Base = ValueAt(r) + 1 + Len(r.value) /\ ValueAt(r) \in Nat /\ Len(r.value) \in Nat
    BY <2>5, RecordType
  <2>7. QED
    BY <2>3, <2>4, <2>6, <1>2, CapacityAssumption
<1>5. QED
  BY <1>2, <1>3, <1>4

\* A slice that lies in the mapping is what its Slice points at.
LEMMA ContentHeld ==
    ASSUME Types, NEW a \in Nat, NEW s \in Keys \cup Values, Holds(mem, a, s)
    PROVE  /\ Content([off |-> a + 1, len |-> Len(s)]) = s
           /\ SliceAt(a) = [off |-> a + 1, len |-> Len(s)]
<1>1. s \in Seq(Nat) /\ Len(s) \in Nat
  BY SlicesAreSequences
<1>2. a + Len(s) < Capacity
  BY DEF Holds
<1>3. Load(a) = Len(s)
  BY <1>1, <1>2, CapacityAssumption DEF Holds, Load, Addresses
<1>4. ASSUME NEW i \in 1 .. Len(s)
      PROVE  Load(a + 1 + i - 1) = s[i]
  <2>1. a + 1 + i - 1 = a + i
    OBVIOUS
  <2>2. a + i \in Addresses
    BY <1>1, <1>2, CapacityAssumption DEF Addresses
  <2>3. mem[a + i] = s[i]
    BY DEF Holds
  <2>4. QED
    BY <2>1, <2>2, <2>3 DEF Load
<1>5. s = [i \in 1 .. Len(s) |-> s[i]]
  BY <1>1
<1>6. Content([off |-> a + 1, len |-> Len(s)]) = [i \in 1 .. Len(s) |-> Load(a + 1 + i - 1)]
  BY DEF Content
<1>7. [i \in 1 .. Len(s) |-> Load(a + 1 + i - 1)] = [i \in 1 .. Len(s) |-> s[i]]
  BY <1>4
<1>8. QED
  BY <1>3, <1>5, <1>6, <1>7 DEF SliceAt

\* Contents of slices are sequences of numbers.
LEMMA ContentType ==
    ASSUME Types, NEW s \in Slices
    PROVE  Content(s) \in Seq(Nat)
<1>1. s.len \in Nat /\ s.off \in Nat
  BY DEF Slices
<1>2. \A a \in Int : Load(a) \in Nat
  BY DEF Load, Types
<1>3. Content(s) \in [1 .. s.len -> Nat]
  BY <1>1, <1>2 DEF Content
<1>4. QED
  BY <1>1, <1>3

-----------------------------------------------------------------------------
(* The log is kept by whatever stores behind it                            *)

\* A slice stays where it is if its words do.
LEMMA HoldsKept ==
    ASSUME NEW m, NEW n, NEW a \in Nat, NEW s, Len(s) \in Nat, Holds(m, a, s),
           \A b \in a .. a + Len(s) : n[b] = m[b]
    PROVE  Holds(n, a, s)
<1>1. n[a] = m[a]
  OBVIOUS
<1>2. \A i \in 1 .. Len(s) : n[a + i] = m[a + i]
  OBVIOUS
<1>3. QED
  BY <1>1, <1>2 DEF Holds

\* The words of a record lie between its first and the next record's.
LEMMA RecordWords ==
    ASSUME NEW r \in Records, 1 <= r.at, NEW n \in Nat, EndOf(r) <= n
    PROVE  /\ \A b \in r.at .. r.at + Len(r.key) : b \in 1 .. n - 1
           /\ \A b \in ValueAt(r) .. ValueAt(r) + Len(r.value) : b \in 1 .. n - 1
<1>1. /\ Len(r.key) \in Nat /\ Len(r.value) \in Nat
      /\ ValueAt(r) = r.at + 1 + Len(r.key)
      /\ EndOf(r) = r.at + 2 + Len(r.key) + Len(r.value)
      /\ r.at \in Nat
  BY RecordType
<1>2. ASSUME NEW k \in Nat, NEW v \in Nat, NEW a \in Nat, 1 <= a, a + 2 + k + v <= n
      PROVE  /\ \A b \in a .. a + k : b \in 1 .. n - 1
             /\ \A b \in a + 1 + k .. a + 1 + k + v : b \in 1 .. n - 1
  BY <1>2
<1>3. QED
  BY <1>1, <1>2

\* So does a log whose words do.
LEMMA RecordsKept ==
    ASSUME Types, Chained, Growing, NEW m, NEW n, RecordsIn(m),
           \A b \in 1 .. Base - 1 : n[b] = m[b], Base \in Nat
    PROVE  RecordsIn(n)
<1> SUFFICES ASSUME NEW i \in 1 .. Len(log)
             PROVE  /\ Holds(n, log[i].at, log[i].key)
                    /\ Holds(n, ValueAt(log[i]), log[i].value)
  BY DEF RecordsIn
<1>1. PICK r \in Records : r = log[i] /\ 1 <= r.at /\ EndOf(r) <= Base
  BY RecordPlace
<1>2. /\ Len(r.key) \in Nat /\ Len(r.value) \in Nat
      /\ ValueAt(r) = r.at + 1 + Len(r.key)
      /\ EndOf(r) = r.at + 2 + Len(r.key) + Len(r.value)
      /\ ValueAt(r) \in Nat /\ EndOf(r) \in Nat /\ r.at \in Nat
  BY <1>1, RecordType
<1>3. Holds(m, r.at, r.key) /\ Holds(m, ValueAt(r), r.value)
  BY <1>1 DEF RecordsIn
<1>4. /\ \A b \in r.at .. r.at + Len(r.key) : b \in 1 .. Base - 1
      /\ \A b \in ValueAt(r) .. ValueAt(r) + Len(r.value) : b \in 1 .. Base - 1
  BY <1>1, RecordWords
<1>5. /\ \A b \in r.at .. r.at + Len(r.key) : n[b] = m[b]
      /\ \A b \in ValueAt(r) .. ValueAt(r) + Len(r.value) : n[b] = m[b]
  BY <1>4
<1>6. Holds(n, r.at, r.key)
  BY <1>2, <1>3, <1>5, HoldsKept
<1>7. Holds(n, ValueAt(r), r.value)
  BY <1>2, <1>3, <1>5, HoldsKept
<1>8. QED
  BY <1>1, <1>6, <1>7

\* A step that leaves the log and its words alone keeps what is known of it.
LEMMA LogKept ==
    ASSUME Types, LogInv, log' = log, UseLibpmem' = UseLibpmem,
           \A a \in 0 .. Base - 1 : mem'[a] = mem[a],
           UseLibpmem => \A a \in 1 .. Base - 1 : media'[a] = media[a],
           UseLibpmem => media'[0] <= Len(log)
    PROVE  LogInv' /\ Base' = Base
<1>1. Base \in Nat /\ 1 <= Base
  BY BaseFits
<1>2. Base' = Base
  BY DEF Base, EndOfLog
<1>3. Chained' /\ Growing'
  BY DEF LogInv, Chained, Growing, EndOfLog
<1>4. RecordsIn(mem')
  <2>1. RecordsIn(mem)
    BY DEF LogInv, Counted
  <2>2. \A b \in 1 .. Base - 1 : mem'[b] = mem[b]
    OBVIOUS
  <2>3. QED
    BY <2>1, <2>2, <1>1, RecordsKept DEF LogInv
<1>5. UseLibpmem => RecordsIn(media')
  <2>1. UseLibpmem => RecordsIn(media)
    BY DEF LogInv, Durable
  <2>2. QED
    BY <2>1, <1>1, RecordsKept DEF LogInv
<1>7. RecordsIn(mem)' /\ (UseLibpmem => RecordsIn(media)')
  BY <1>4, <1>5 DEF RecordsIn
<1>8. Counted'
  BY <1>1, <1>7 DEF LogInv, Counted
<1>9. Durable'
  BY <1>7 DEF Durable
<1>10. Agrees'
  BY <1>1, <1>2 DEF LogInv, Agrees
<1>11. QED
  BY <1>2, <1>3, <1>8, <1>9, <1>10 DEF LogInv

-----------------------------------------------------------------------------
(* What the invariant says at a step                                       *)

\* Only one thread is in the critical section, and only while the store is open.
LEMMA OneHolder ==
    ASSUME Types, ThreadsInv, NEW t \in Threads
    PROVE  /\ pc[t] # "idle" => mode = "open"
           /\ pc[t] \in Holding => mut = t /\ \A u \in Threads \ {t} : pc[u] \notin Holding
           /\ mut = NoOwner => \A u \in Threads : pc[u] \notin Holding
  BY NoValuesAssumption DEF ThreadsInv, ThreadOK

\* A thread that appends has a key and a value.
LEMMA Appends ==
    ASSUME Types, ThreadsInv, NEW t \in Threads, pc[t] \in Appending
    PROVE  /\ op[t] = "set"
           /\ key[t] \in Keys
           /\ value[t] \in Values
           /\ Pushed(t) \in Keys \cup Values
           /\ Len(key[t]) \in Nat /\ Len(value[t]) \in Nat /\ Len(Pushed(t)) \in Nat
           /\ \A i \in 1 .. Len(Pushed(t)) : Pushed(t)[i] \in Nat
<1>1. op[t] = "set" /\ key[t] \in Keys /\ value[t] \in Values
  BY DEF ThreadsInv, ThreadOK, Appending
<1>2. Pushed(t) \in Keys \cup Values
  BY <1>1 DEF Pushed
<1>3. QED
  BY <1>1, <1>2, SlicesAreSequences

\* Append stores at or behind Base.
LEMMA Behind ==
    ASSUME Types, LogInv, ThreadsInv, AppendInv, NEW t \in Threads,
           pc[t] \in {"size", "persistSize", "copy"}
    PROVE  end_off \in Nat /\ Base <= end_off /\ Base \in Nat /\ 1 <= Base
<1>1. pc[t] \in Appending
  BY DEF Appending
<1>2. Base \in Nat /\ 1 <= Base
  BY BaseFits
<1>3. Len(key[t]) \in Nat
  BY <1>1, Appends
<1>4. part \in {"key", "value"} /\ end_off \in Nat
  BY CapacityAssumption DEF Types
<1>5. part = "key" => end_off = Base
  BY DEF AppendInv, AppendOK
<1>6. part = "value" => end_off = Base + 1 + Len(key[t])
  BY DEF AppendInv, AppendOK
<1>7. CASE part = "key"
  BY <1>2, <1>4, <1>5, <1>7
<1>8. CASE part = "value"
  <2>1. PICK n \in Nat : n = Len(key[t])
    BY <1>3
  <2>2. end_off = Base + 1 + n
    BY <1>6, <1>8, <2>1
  <2>3. QED
    BY <1>2, <1>4, <2>2
<1>9. QED
  BY <1>4, <1>7, <1>8

\* What Recovery reads next is the record the log has there.
LEMMA NextRecord ==
    ASSUME Inv, mode = "recovering", current < sequence
    PROVE  LET r == log[current + 1] IN
           /\ current + 1 \in 1 .. Len(log)
           /\ r \in Records
           /\ Content(SliceAt(end_off)) = r.key
           /\ SliceAt(SliceAt(end_off).off + SliceAt(end_off).len) = ValueSlice(r)
           /\ ValueSlice(r).off + ValueSlice(r).len = EndOf(r)
           /\ EndOf(r) <= Capacity
<1>1. /\ Types /\ Chained /\ Growing /\ Counted /\ LogInv
      /\ mode = "recovering" /\ current < sequence
  BY DEF Inv, LogInv
<1>2. sequence = Len(log) /\ end_off = EndOfLog(current) /\ current \in Nat
  BY <1>1 DEF Inv, EndInv, Types
<1>3. Len(log) \in Nat
  BY <1>1, LogType
<1>4. current + 1 \in 1 .. Len(log)
  BY <1>1, <1>2, <1>3
<1>5. PICK i \in 1 .. Len(log) : i = current + 1
  BY <1>4
<1>6. PICK r \in Records : r = log[i] /\ EndOf(r) <= Base /\ r.at = EndOfLog(i - 1)
  BY <1>1, RecordPlace
<1>7. end_off = r.at
  BY <1>2, <1>5, <1>6
<1>8. Holds(mem, r.at, r.key) /\ Holds(mem, ValueAt(r), r.value)
  BY <1>1, <1>6 DEF Counted, RecordsIn
<1>9. /\ r.key \in Keys /\ r.value \in Values /\ r.at \in Nat /\ ValueAt(r) \in Nat
      /\ Len(r.key) \in Nat /\ Len(r.value) \in Nat
      /\ ValueAt(r) = r.at + 1 + Len(r.key)
      /\ EndOf(r) = r.at + 2 + Len(r.key) + Len(r.value)
      /\ EndOf(r) \in Nat
  BY RecordType
<1>10. /\ Content([off |-> r.at + 1, len |-> Len(r.key)]) = r.key
       /\ SliceAt(r.at) = [off |-> r.at + 1, len |-> Len(r.key)]
  BY <1>1, <1>8, <1>9, ContentHeld
<1>11. SliceAt(ValueAt(r)) = [off |-> ValueAt(r) + 1, len |-> Len(r.value)]
  BY <1>1, <1>8, <1>9, ContentHeld
<1>12. Content(SliceAt(end_off)) = r.key
  BY <1>7, <1>10
<1>13. SliceAt(end_off).off + SliceAt(end_off).len = ValueAt(r)
  BY <1>7, <1>9, <1>10
<1>14. SliceAt(SliceAt(end_off).off + SliceAt(end_off).len) = ValueSlice(r)
  BY <1>11, <1>13 DEF ValueSlice
<1>15. ValueSlice(r).off + ValueSlice(r).len = EndOf(r)
  <2>1. ValueSlice(r).off = ValueAt(r) + 1 /\ ValueSlice(r).len = Len(r.value)
    BY DEF ValueSlice
  <2>2. ValueAt(r) + 1 + Len(r.value) = EndOf(r)
    BY RecordType
  <2>3. QED
    BY <2>1, <2>2
<1>16. EndOf(r) <= Capacity
  BY <1>1, <1>6, <1>9, BaseFits, CapacityAssumption
<1>17. QED
  BY <1>4, <1>5, <1>6, <1>12, <1>14, <1>15, <1>16

\* Reading it stays inside the mapping.
LEMMA NextInside ==
    ASSUME Inv, mode = "recovering", current < sequence
    PROVE  InMapping(SliceAt(SliceAt(end_off).off + SliceAt(end_off).len))
  BY NextRecord DEF InMapping

\* And the index and _end_off follow it.
LEMMA RecoveryReads ==
    ASSUME Inv, RecoverNext
    PROVE  LET r == log[current + 1] IN
           /\ current + 1 \in 1 .. Len(log)
           /\ r \in Records
           /\ Content(SliceAt(end_off)) = r.key
           /\ SliceAt(SliceAt(end_off).off + SliceAt(end_off).len) = ValueSlice(r)
           /\ end_off' = EndOf(r)
           /\ EndOf(r) <= Capacity
           /\ hash_map' = [hash_map EXCEPT ![r.key] = ValueSlice(r)]
<1> DEFINE r == log[current + 1]
<1>1. mode = "recovering" /\ current < sequence
  BY DEF RecoverNext
<1>2. /\ current + 1 \in 1 .. Len(log)
      /\ r \in Records
      /\ Content(SliceAt(end_off)) = r.key
      /\ SliceAt(SliceAt(end_off).off + SliceAt(end_off).len) = ValueSlice(r)
      /\ ValueSlice(r).off + ValueSlice(r).len = EndOf(r)
      /\ EndOf(r) <= Capacity
  BY <1>1, NextRecord
<1>3. end_off' = EndOf(r)
  BY <1>2 DEF RecoverNext
<1>4. hash_map' = [hash_map EXCEPT ![r.key] = ValueSlice(r)]
  BY <1>2 DEF RecoverNext
<1>5. QED
  BY <1>2, <1>3, <1>4

-----------------------------------------------------------------------------
(* Types                                                                   *)

\* The end of a process leaves the types as they are.
LEMMA StopType ==
    ASSUME Types, NEW m \in [Addresses -> Nat], NEW n \in 0 .. Len(log), Stop(m, n),
           media' = media
    PROVE  Types'
<1>1. log' \in Seq(Records)
  <2>1. \A i \in 1 .. n : log[i] \in Records
    BY LogType
  <2>2. SubSeq(log, 1, n) \in Seq(Records)
    BY <2>1, SubSeqProperties
  <2>3. QED
    BY <2>2 DEF Stop
<1>2. NullSlice \in Slices
  BY DEF NullSlice, Slices
<1>3. hash_map' \in [Keys -> Slices \cup {NoSlice}]
  BY DEF Stop
<1>4. /\ pc' \in [Threads -> {"idle", "lock", "read", "size", "persistSize", "copy",
                              "count", "map", "ret"}]
      /\ op' \in [Threads -> {"get", "set", "none"}]
      /\ key' \in [Threads -> Keys \cup {<<>>}]
      /\ value' \in [Threads -> Values \cup {<<>>}]
      /\ answer' \in [Threads -> Seq(Nat) \cup {NotFound}]
  BY DEF Stop
<1>5. /\ UseLibpmem' \in Builds
      /\ mem' \in [Addresses -> Nat]
      /\ media' \in [Addresses -> Nat]
      /\ acked' \in Nat
  BY DEF Types, Stop
<1>6. /\ mode' \in {"down", "recovering", "open"}
      /\ end_off' \in 0 .. Capacity
      /\ sequence' \in Nat /\ current' \in Nat
      /\ mut' \in Threads \cup {NoOwner}
  BY CapacityAssumption DEF Stop
<1>7. part' \in {"key", "value"} /\ copied' \in Nat /\ nvm_key' \in Slices /\ nvm_val' \in Slices
  BY <1>2 DEF Stop, NoAppend
<1>8. QED
  BY <1>1, <1>3, <1>4, <1>5, <1>6, <1>7 DEF Types, Records

\* The four ways for a process to end leave a prefix of the log, and memory
\* that held the log.
LEMMA Ends ==
    ASSUME Inv, Close \/ Crash \/ Fault \/ PowerFailure
    PROVE  /\ media' = media
           /\ \E m \in [Addresses -> Nat], n \in 0 .. Len(log) :
                  /\ Stop(m, n)
                  /\ m[0] = n
                  /\ UseLibpmem => RecordsIn(m)
                  /\ UseLibpmem => m = media \/ m = mem
                  /\ ~UseLibpmem => n = 0
                  /\ m = mem => n = Len(log)
<1>1. /\ Types /\ Len(log) \in Nat /\ 0 \in Addresses
      /\ mem \in [Addresses -> Nat] /\ media \in [Addresses -> Nat]
      /\ mem[0] = Len(log)
  <2>1. Types /\ mem[0] = Len(log)
    BY DEF Inv, LogInv, Counted
  <2>2. mem \in [Addresses -> Nat] /\ media \in [Addresses -> Nat]
    BY <2>1 DEF Types
  <2>3. 0 \in Addresses
    BY CapacityAssumption DEF Addresses
  <2>4. QED
    BY <2>1, <2>2, <2>3, LogType
<1>2. ASSUME ProcessEnds
      PROVE  /\ media' = media
             /\ \/ UseLibpmem /\ Stop(mem, Len(log))
                \/ ~UseLibpmem /\ Stop([a \in Addresses |-> 0], 0)
  BY <1>2 DEF ProcessEnds
<1>3. CASE UseLibpmem /\ ProcessEnds
  <2>1. RecordsIn(mem)
    BY DEF Inv, LogInv, Counted
  <2>2. Len(log) \in 0 .. Len(log)
    BY <1>1
  <2>3. media' = media /\ Stop(mem, Len(log))
    BY <1>2, <1>3
  <2>4. QED
    BY <1>1, <1>3, <2>1, <2>2, <2>3
<1>4. CASE ~UseLibpmem /\ ProcessEnds
  <2> DEFINE z == [a \in Addresses |-> 0]
  <2>1. z \in [Addresses -> Nat] /\ 0 \in 0 .. Len(log) /\ z[0] = 0
    BY <1>1
  <2>2. media' = media /\ Stop(z, 0)
    BY <1>2, <1>4
  <2>3. z = mem => 0 = Len(log)
    BY <1>1, <2>1
  <2> HIDE DEF z
  <2>4. QED
    BY <1>4, <2>1, <2>2, <2>3
<1>5. CASE UseLibpmem /\ Stop(media, media[0]) /\ media' = media
  <2>1. media[0] <= Len(log) /\ RecordsIn(media) /\ media[0] \in Nat
    BY <1>1, <1>5 DEF Inv, LogInv, Durable
  <2>2. media[0] \in 0 .. Len(log)
    BY <1>1, <2>1
  <2>3. media = mem => media[0] = Len(log)
    BY <1>1
  <2>4. QED
    BY <1>1, <1>5, <2>1, <2>2, <2>3
<1>6. ProcessEnds \/ (UseLibpmem /\ Stop(media, media[0]) /\ media' = media)
  BY DEF Close, Crash, Fault, PowerFailure
<1>7. QED
  BY <1>3, <1>4, <1>5, <1>6

\* No step gives a variable a value outside its type.
LEMMA TypeStep ==
    ASSUME Inv, [Next]_vars
    PROVE  Types'
<1>1. Types /\ LogInv /\ ThreadsInv /\ AppendInv
  BY DEF Inv
<1>2. CASE Open
  <2>1. 1 \in 0 .. Capacity /\ 0 \in Addresses
    BY CapacityAssumption DEF Addresses
  <2>2. mem[0] \in Nat
    BY <1>1, <2>1 DEF Types
  <2>3. QED
    BY <1>1, <1>2, <2>1, <2>2 DEF Open, Types, pmem, append, call, history
<1>3. CASE RecoverNext
  <2>1. PICK r \in Records : r = log[current + 1]
    BY RecoveryReads, <1>3
  <2>2. /\ end_off' = EndOf(r) /\ EndOf(r) <= Capacity
        /\ hash_map' = [hash_map EXCEPT ![r.key] = ValueSlice(r)]
    BY RecoveryReads, <1>3, <2>1
  <2>3. EndOf(r) \in Nat /\ ValueSlice(r) \in Slices
    BY RecordType
  <2>4. end_off' \in 0 .. Capacity
    BY <2>2, <2>3, CapacityAssumption
  <2>5. hash_map' \in [Keys -> Slices \cup {NoSlice}]
    BY <1>1, <2>2, <2>3 DEF Types
  <2>6. current' \in Nat
    BY <1>1, <1>3 DEF RecoverNext, Types
  <2>7. QED
    BY <1>1, <1>3, <2>4, <2>5, <2>6 DEF RecoverNext, Types, pmem, append, call, history
<1>4. CASE RecoveryDone
  BY <1>1, <1>4 DEF RecoveryDone, Types, pmem, recovery, append, call, history
<1>5. ASSUME NEW t \in Threads, NEW k \in Keys, Call(t, "get", k, <<>>)
      PROVE  Types'
  BY <1>1, <1>5 DEF Call, Types, pmem, recovery, append, history
<1>6. ASSUME NEW t \in Threads, NEW k \in Keys, NEW v \in Values, Call(t, "set", k, v)
      PROVE  Types'
  BY <1>1, <1>6 DEF Call, Types, pmem, recovery, append, history
<1>7. ASSUME NEW t \in Threads, Lock(t)
      PROVE  Types'
  BY <1>1, <1>7 DEF Lock, LockGuard, Types, pmem, recovery, append, call, history
<1>8. ASSUME NEW t \in Threads, Read(t)
      PROVE  Types'
  <2>1. key[t] \in Keys
    BY <1>1, <1>8 DEF ThreadsInv, ThreadOK, Read
  <2>2. hash_map[key[t]] # NoSlice => Content(hash_map[key[t]]) \in Seq(Nat)
    BY <1>1, <2>1, ContentType DEF Types
  <2>3. answer' \in [Threads -> Seq(Nat) \cup {NotFound}]
    BY <1>1, <1>8, <2>2 DEF Read, Types
  <2>4. QED
    BY <1>1, <1>8, <2>3 DEF Read, Unlock, Types, pmem, recovery, append, history
<1>9. ASSUME NEW t \in Threads, StoreSize(t)
      PROVE  Types'
  <2>1. Len(Pushed(t)) \in Nat
    BY <1>1, <1>9, Appends DEF StoreSize, Appending
  <2>2. mem' \in [Addresses -> Nat]
    BY <1>1, <1>9, <2>1 DEF StoreSize, StoreWord, Types
  <2>3. QED
    BY <1>1, <1>9, <2>2 DEF StoreSize, Types, recovery, append, call, history
<1>10. ASSUME NEW t \in Threads, PersistSize(t)
       PROVE  Types'
  <2>1. media' \in [Addresses -> Nat]
    BY <1>1, <1>10 DEF PersistSize, Persist, Types
  <2>2. QED
    BY <1>1, <1>10, <2>1 DEF PersistSize, Types, recovery, call, history
<1>11. ASSUME NEW t \in Threads, CopyWord(t)
       PROVE  Types'
  <2>1. copied \in Nat /\ copied < Len(Pushed(t))
    BY <1>1, <1>11 DEF CopyWord, Types
  <2>2. Len(Pushed(t)) \in Nat /\ \A i \in 1 .. Len(Pushed(t)) : Pushed(t)[i] \in Nat
    BY <1>1, <1>11, Appends DEF CopyWord, Appending
  <2>3. Pushed(t)[copied + 1] \in Nat
    BY <2>1, <2>2
  <2>4. mem' \in [Addresses -> Nat]
    BY <1>1, <1>11, <2>3 DEF CopyWord, StoreWord, Types
  <2>5. copied' \in Nat
    BY <1>11, <2>1 DEF CopyWord
  <2>6. QED
    BY <1>1, <1>11, <2>4, <2>5 DEF CopyWord, Types, recovery, call, history
<1>12. ASSUME NEW t \in Threads, PersistData(t)
       PROVE  Types'
  <2>1. pc[t] = "copy" /\ copied = Len(Pushed(t))
    BY <1>12 DEF PersistData
  <2>2. end_off + copied < Capacity
    BY <1>1, <2>1 DEF AppendInv, AppendOK
  <2>3. end_off \in Nat /\ copied \in Nat
    BY <1>1, CapacityAssumption DEF Types
  <2>4. end_off' = end_off + 1 + copied
    BY <1>12, <2>1 DEF PersistData, NextOffset
  <2>5. end_off' \in 0 .. Capacity
    BY <2>2, <2>3, <2>4, CapacityAssumption
  <2>6. media' \in [Addresses -> Nat]
    BY <1>1, <1>12 DEF PersistData, Persist, Types
  <2>7. [off |-> end_off + 1, len |-> Len(Pushed(t))] \in Slices
    BY <2>1, <2>3 DEF Slices
  <2>8. part' \in {"key", "value"} /\ nvm_key' \in Slices /\ nvm_val' \in Slices
    BY <1>1, <1>12, <2>7 DEF PersistData, Types
  <2>9. pc' \in [Threads -> {"idle", "lock", "read", "size", "persistSize", "copy",
                             "count", "map", "ret"}]
    BY <1>1, <1>12 DEF PersistData, Types
  <2>10. QED
    BY <1>1, <1>12, <2>5, <2>6, <2>8, <2>9 DEF PersistData, Types, recovery, call, history
<1>13. ASSUME NEW t \in Threads, Count(t)
       PROVE  Types'
  <2>1. key[t] \in Keys /\ value[t] \in Values
    BY <1>1, <1>13, Appends DEF Count, Appending
  <2>2. nvm_key.off = Base + 1 /\ Base \in Nat
    BY <1>1, <1>13, BaseFits DEF Count, AppendInv, AppendOK, KeyPushed
  <2>3. nvm_key.off - 1 \in Nat
    BY <2>2
  <2>4. [key |-> key[t], value |-> value[t], at |-> nvm_key.off - 1] \in Records
    BY <2>1, <2>3 DEF Records
  <2>5. log' \in Seq(Records)
    BY <1>1, <1>13, <2>4 DEF Count, Types, Records
  <2>6. mem' \in [Addresses -> Nat]
    <3>1. mem \in [Addresses -> Nat] /\ 0 \in Addresses
      BY <1>1, CapacityAssumption DEF Types, Addresses
    <3>2. mem[0] + 1 \in Nat
      BY <3>1
    <3>3. mem' = [mem EXCEPT ![0] = mem[0] + 1]
      BY <1>13 DEF Count
    <3>4. QED
      BY <3>1, <3>2, <3>3
  <2>7. QED
    BY <1>1, <1>13, <2>5, <2>6 DEF Count, Types, recovery, append, call, Records
<1>14. ASSUME NEW t \in Threads, MapKey(t)
       PROVE  Types'
  <2>1. hash_map' \in [Keys -> Slices \cup {NoSlice}]
    BY <1>1, <1>14 DEF MapKey, Types
  <2>2. NullSlice \in Slices
    BY DEF NullSlice, Slices
  <2>3. part' \in {"key", "value"} /\ copied' \in Nat /\ nvm_key' \in Slices /\ nvm_val' \in Slices
    BY <1>14, <2>2 DEF MapKey, NoAppend
  <2>4. acked' \in Nat
    BY <1>1, <1>14, LogType DEF MapKey
  <2>5. QED
    BY <1>1, <1>14, <2>1, <2>3, <2>4 DEF MapKey, Unlock, CallEnds, Types, pmem, recovery
<1>15. ASSUME NEW t \in Threads, Return(t)
       PROVE  Types'
  BY <1>1, <1>15 DEF Return, CallEnds, Types, pmem, recovery, append, history
<1>16. CASE WriteBack
  <2>1. media' \in [Addresses -> Nat]
    BY <1>1, <1>16 DEF WriteBack, Types
  <2>2. QED
    BY <1>1, <1>16, <2>1 DEF WriteBack, Types, recovery, append, call, history
<1>17. CASE Close \/ Crash \/ Fault \/ PowerFailure
  <2>1. PICK m \in [Addresses -> Nat], n \in 0 .. Len(log) : Stop(m, n)
    BY <1>17, Ends
  <2>2. media' = media
    BY <1>17, Ends
  <2>3. QED
    BY <1>1, <2>1, <2>2, StopType
<1>18. CASE UNCHANGED vars
  BY <1>1, <1>18 DEF vars, Types, pmem, recovery, append, call, history
<1>19. QED
  BY <1>2, <1>3, <1>4, <1>5, <1>6, <1>7, <1>8, <1>9, <1>10, <1>11, <1>12, <1>13, <1>14,
     <1>15, <1>16, <1>17, <1>18 DEF Next, Recover, Step

-----------------------------------------------------------------------------
(* The log                                                                 *)

\* A step that stores nothing before Base and leaves the media as it is.
LEMMA LogUnderStore ==
    ASSUME Inv, log' = log, UseLibpmem' = UseLibpmem, media' = media,
           \A a \in 0 .. Base - 1 : mem'[a] = mem[a]
    PROVE  LogInv' /\ Base' = Base
<1>1. UseLibpmem => media'[0] <= Len(log)
  BY DEF Inv, LogInv, Durable
<1>2. UseLibpmem => \A a \in 1 .. Base - 1 : media'[a] = media[a]
  OBVIOUS
<1>3. Types /\ LogInv
  BY DEF Inv
<1>4. QED
  BY <1>1, <1>2, <1>3, LogKept

\* A step that persists nothing before Base.
LEMMA LogUnderPersist ==
    ASSUME Inv, log' = log, UseLibpmem' = UseLibpmem, mem' = mem,
           NEW a \in Nat, NEW n \in Nat, Base <= a, Persist(a, n)
    PROVE  LogInv' /\ Base' = Base
<1>1. Types /\ LogInv /\ Base \in Nat /\ 1 <= Base /\ Base <= Capacity
  BY BaseFits DEF Inv
<1>2. UseLibpmem => \A b \in 0 .. Base - 1 : media'[b] = media[b]
  <2>1. \A b \in 0 .. Base - 1 : b \in Addresses /\ b \notin a .. a + n - 1
    BY <1>1, CapacityAssumption DEF Addresses
  <2>2. QED
    BY <2>1 DEF Persist
<1>3. UseLibpmem => media'[0] <= Len(log)
  <2>1. UseLibpmem => media'[0] = media[0]
    BY <1>1, <1>2
  <2>2. QED
    BY <2>1 DEF Inv, LogInv, Durable
<1>4. UseLibpmem => \A b \in 1 .. Base - 1 : media'[b] = media[b]
  BY <1>1, <1>2
<1>5. QED
  BY <1>1, <1>3, <1>4, LogKept

\* A counted record is whole and in its place.
LEMMA LogCounts ==
    ASSUME Inv, NEW t \in Threads, Count(t)
    PROVE  /\ LogInv'
           /\ Len(log') = Len(log) + 1
           /\ log'[Len(log) + 1] = [key |-> key[t], value |-> value[t], at |-> Base]
           /\ \A i \in 1 .. Len(log) : log'[i] = log[i]
           /\ Base' = Base + 2 + Len(key[t]) + Len(value[t])
<1>1. Types /\ LogInv /\ ThreadsInv /\ AppendInv /\ pc[t] = "count"
  BY DEF Inv, Count
<1> DEFINE r == [key |-> key[t], value |-> value[t], at |-> Base]
<1>2. /\ key[t] \in Keys /\ value[t] \in Values
      /\ Len(key[t]) \in Nat /\ Len(value[t]) \in Nat
  BY <1>1, Appends DEF Appending
<1>3. KeyPushed(t) /\ ValuePushed(t)
  BY <1>1 DEF AppendInv, AppendOK
<1>4. Base \in Nat /\ 1 <= Base
  BY <1>1, BaseFits
<1>5. nvm_key.off - 1 = Base
  <2>1. nvm_key.off = Base + 1
    BY <1>3 DEF KeyPushed
  <2>2. QED
    BY <1>4, <2>1
<1>6. log' = Append(log, r)
  BY <1>5 DEF Count
<1>7. r \in Records
  BY <1>2, <1>4 DEF Records
<1>8. log \in Seq(Records)
  BY <1>1 DEF Types, Records
<1>9. /\ Len(log) \in Nat
      /\ Len(log') = Len(log) + 1
      /\ log'[Len(log) + 1] = r
      /\ \A i \in 1 .. Len(log) : log'[i] = log[i]
  <2>1. \A s : s \in Seq(Records) =>
            /\ Len(s) \in Nat
            /\ Len(Append(s, r)) = Len(s) + 1
            /\ Append(s, r)[Len(s) + 1] = r
            /\ \A i \in 1 .. Len(s) : Append(s, r)[i] = s[i]
    BY <1>7
  <2>2. QED
    BY <1>6, <1>8, <2>1
<1>10. /\ r.at = Base /\ r.key = key[t] /\ r.value = value[t]
  OBVIOUS
<1>11. /\ ValueAt(r) = Base + 1 + Len(key[t])
       /\ EndOf(r) = Base + 2 + Len(key[t]) + Len(value[t])
       /\ EndOf(r) \in Nat /\ Base < EndOf(r)
  <2>1. PICK q \in Records : q = r
    BY <1>7
  <2>2. /\ ValueAt(q) = q.at + 1 + Len(q.key)
        /\ EndOf(q) = q.at + 2 + Len(q.key) + Len(q.value)
        /\ EndOf(q) \in Nat /\ ValueAt(q) \in Nat /\ q.at \in Nat
        /\ q.at < ValueAt(q) /\ ValueAt(q) < EndOf(q)
    BY RecordType
  <2>3. q.at < EndOf(q)
    BY <2>2
  <2>4. QED
    BY <1>10, <2>1, <2>2, <2>3
<1>12. Base' = EndOf(r)
  <2>1. Len(log') # 0 /\ log'[Len(log')] = r
    BY <1>9
  <2>2. QED
    BY <2>1 DEF Base, EndOfLog, EndOf
<1> HIDE DEF r
<1>13. \A i \in 1 .. Len(log') : i \in 1 .. Len(log) \/ i = Len(log) + 1
  BY <1>9
<1>14. \A i \in 0 .. Len(log) : EndOfLog(i)' = EndOfLog(i)
  <2>1. \A i \in 0 .. Len(log) : i # 0 => log'[i] = log[i]
    BY <1>9
  <2>2. QED
    BY <2>1 DEF EndOfLog, EndOf
<1>15. Chained'
  <2> SUFFICES ASSUME NEW i \in 1 .. Len(log')
               PROVE  log'[i].at = EndOfLog(i - 1)'
    BY DEF Chained
  <2>1. CASE i \in 1 .. Len(log)
    <3>1. i - 1 \in 0 .. Len(log)
      BY <1>9, <2>1
    <3>2. log[i].at = EndOfLog(i - 1)
      BY <1>1, <2>1 DEF LogInv, Chained
    <3>3. QED
      BY <1>9, <1>14, <2>1, <3>1, <3>2
  <2>2. CASE i = Len(log) + 1
    <3>1. i - 1 = Len(log) /\ Len(log) \in 0 .. Len(log)
      BY <1>9, <2>2
    <3>2. EndOfLog(i - 1)' = Base
      BY <1>14, <3>1 DEF Base
    <3>3. QED
      BY <1>9, <1>10, <2>2, <3>2
  <2>3. QED
    BY <1>13, <2>1, <2>2
<1>16. Growing'
  <2> SUFFICES ASSUME NEW j \in 1 .. Len(log'), NEW i \in 1 .. j
               PROVE  EndOf(log'[i]) <= EndOf(log'[j])
    BY DEF Growing, EndOf
  <2>1. CASE j \in 1 .. Len(log)
    <3>1. i \in 1 .. Len(log)
      BY <1>9, <2>1
    <3>2. EndOf(log[i]) <= EndOf(log[j])
      BY <1>1, <2>1 DEF LogInv, Growing
    <3>3. QED
      BY <1>9, <2>1, <3>1, <3>2
  <2>2. CASE j = Len(log) + 1 /\ i = j
    BY <1>9, <1>11, <2>2
  <2>3. CASE j = Len(log) + 1 /\ i # j
    <3>1. i \in 1 .. Len(log)
      BY <1>9, <2>3
    <3>2. log[i] \in Records /\ EndOf(log[i]) <= Base
      BY <1>1, <3>1, RecordPlace DEF LogInv
    <3>3. PICK d \in Nat, e \in Nat : d = EndOf(log[i]) /\ e = EndOf(r)
      BY <1>11, <3>2, RecordType
    <3>4. d <= Base /\ Base < e
      BY <1>11, <3>2, <3>3
    <3>5. d <= e
      BY <1>4, <3>4
    <3>6. QED
      BY <1>9, <2>3, <3>1, <3>3, <3>5
  <2>4. QED
    BY <1>13, <2>1, <2>2, <2>3
<1>17. mem' = [mem EXCEPT ![0] = mem[0] + 1] /\ media' = media /\ UseLibpmem' = UseLibpmem
  BY DEF Count
<1>18. \A a \in 1 .. Base - 1 : mem'[a] = mem[a]
  BY <1>1, <1>4, <1>17 DEF Types
<1>19. ASSUME NEW m, NEW n, \A a : a # 0 => n[a] = m[a], RecordsIn(m),
              Holds(m, Base, key[t]), Holds(m, Base + 1 + Len(key[t]), value[t])
       PROVE  \A i \in 1 .. Len(log') :
                  /\ Holds(n, log'[i].at, log'[i].key)
                  /\ Holds(n, ValueAt(log'[i]), log'[i].value)
  <2>1. Holds(n, r.at, r.key) /\ Holds(n, ValueAt(r), r.value)
    <3>1. \A b \in Base .. Base + Len(key[t]) : n[b] = m[b]
      BY <1>2, <1>4, <1>19
    <3>2. Holds(n, Base, key[t])
      BY <1>2, <1>4, <1>19, <3>1, HoldsKept
    <3>3. PICK b \in Nat : b = Base + 1 + Len(key[t]) /\ 0 < b
      <4>1. \A k \in Nat : Base + 1 + k \in Nat /\ 0 < Base + 1 + k
        BY <1>4
      <4>2. QED
        BY <1>2, <4>1
    <3>4. \A c \in b .. b + Len(value[t]) : n[c] = m[c]
      BY <1>2, <1>19, <3>3
    <3>5. Holds(n, b, value[t])
      BY <1>2, <1>19, <3>3, <3>4, HoldsKept
    <3>6. QED
      BY <1>10, <1>11, <3>2, <3>3, <3>5
  <2>2. RecordsIn(n)
    <3>1. \A b \in 1 .. Base - 1 : n[b] = m[b]
      BY <1>4, <1>19
    <3>2. QED
      BY <1>1, <1>4, <1>19, <3>1, RecordsKept DEF LogInv
  <2>3. QED
    BY <1>9, <1>13, <2>1, <2>2 DEF RecordsIn
<1>20. Counted'
  <2>1. \A a : a # 0 => mem'[a] = mem[a]
    BY <1>1, <1>17 DEF Types
  <2>2. /\ RecordsIn(mem) /\ Holds(mem, Base, key[t])
        /\ Holds(mem, Base + 1 + Len(key[t]), value[t])
    BY <1>1, <1>3 DEF LogInv, Counted, KeyPushed, ValuePushed, Stored
  <2>3. RecordsIn(mem)'
    BY <1>19, <2>1, <2>2 DEF RecordsIn, ValueAt
  <2>4. mem'[0] = Len(log')
    <3>1. mem[0] = Len(log) /\ mem \in [Addresses -> Nat] /\ 0 \in Addresses
      BY <1>1, CapacityAssumption DEF LogInv, Counted, Types, Addresses
    <3>2. QED
      BY <1>9, <1>17, <3>1
  <2>5. QED
    BY <2>3, <2>4 DEF Counted
<1>21. Durable'
  <2> SUFFICES ASSUME UseLibpmem
               PROVE  media'[0] <= Len(log') /\ RecordsIn(media)'
    BY <1>17 DEF Durable
  <2>1. /\ RecordsIn(media) /\ Holds(media, Base, key[t])
        /\ Holds(media, Base + 1 + Len(key[t]), value[t])
    BY <1>1, <1>3 DEF LogInv, Durable, KeyPushed, ValuePushed, Stored
  <2>2. RecordsIn(media)'
    BY <1>17, <1>19, <2>1 DEF RecordsIn, ValueAt
  <2>3. media[0] <= Len(log) /\ media[0] \in Nat
    BY <1>1, CapacityAssumption DEF LogInv, Durable, Types, Addresses
  <2>4. QED
    BY <1>9, <1>17, <2>2, <2>3
<1>22. Agrees'
  <2> SUFFICES ASSUME UseLibpmem, NEW a \in 1 .. Base' - 1
               PROVE  media'[a] = mem'[a]
    BY <1>17 DEF Agrees
  <2>1. media'[a] = media[a] /\ mem'[a] = mem[a] /\ a \in Int
    BY <1>1, <1>17 DEF Types
  <2>2. PICK k \in Nat, v \in Nat : k = Len(key[t]) /\ v = Len(value[t])
    BY <1>2
  <2>3. Base' = Base + 2 + k + v
    BY <1>11, <1>12, <2>2
  <2>4. \/ a \in 1 .. Base - 1
        \/ a = Base
        \/ a - Base \in 1 .. k
        \/ a = Base + 1 + k
        \/ a - (Base + 1 + k) \in 1 .. v
    BY <1>4, <2>3
  <2>5. /\ Holds(mem, Base, key[t]) /\ Holds(mem, Base + 1 + k, value[t])
        /\ Holds(media, Base, key[t]) /\ Holds(media, Base + 1 + k, value[t])
    BY <1>3, <2>2 DEF KeyPushed, ValuePushed, Stored
  <2>6. CASE a \in 1 .. Base - 1
    BY <1>1, <2>1, <2>6 DEF LogInv, Agrees
  <2>7. CASE a = Base \/ a = Base + 1 + k
    BY <2>1, <2>5, <2>7 DEF Holds
  <2>8. CASE a - Base \in 1 .. k
    <3>1. PICK i \in 1 .. k : a = Base + i
      BY <1>4, <2>1, <2>8
    <3>2. QED
      BY <2>1, <2>2, <2>5, <3>1 DEF Holds
  <2>9. CASE a - (Base + 1 + k) \in 1 .. v
    <3>1. PICK i \in 1 .. v : a = Base + 1 + k + i
      BY <1>4, <2>1, <2>9
    <3>2. QED
      BY <2>1, <2>2, <2>5, <3>1 DEF Holds
  <2>10. QED
    BY <2>4, <2>6, <2>7, <2>8, <2>9
<1>23. QED
  BY <1>9, <1>11, <1>12, <1>15, <1>16, <1>20, <1>21, <1>22 DEF LogInv, r

\* What the end of a process leaves is a log.
LEMMA LogStops ==
    ASSUME Inv, Close \/ Crash \/ Fault \/ PowerFailure
    PROVE  LogInv' /\ \E n \in 0 .. Len(log) : log' = SubSeq(log, 1, n)
<1>1. /\ Types /\ LogInv
      /\ Len(log) \in Nat
      /\ \A i \in 1 .. Len(log) : log[i] \in Records
  BY LogType DEF Inv
<1>2. media' = media
  BY Ends
<1>3. PICK m \in [Addresses -> Nat], n \in 0 .. Len(log) :
          /\ Stop(m, n)
          /\ m[0] = n
          /\ UseLibpmem => RecordsIn(m)
          /\ UseLibpmem => m = media \/ m = mem
          /\ ~UseLibpmem => n = 0
          /\ m = mem => n = Len(log)
  BY Ends
<1>4. n \in Nat /\ n <= Len(log)
  BY <1>1
<1>5. mem' = m /\ log' = SubSeq(log, 1, n) /\ UseLibpmem' = UseLibpmem
  BY <1>3 DEF Stop
<1>6. Len(log') = n /\ \A i \in 1 .. n : log'[i] = log[i]
  <2>1. \A i \in 1 .. n : log[i] \in Records
    BY <1>1, <1>4
  <2>2. /\ Len(SubSeq(log, 1, n)) = IF 1 <= n THEN n - 1 + 1 ELSE 0
        /\ \A i \in 1 .. n - 1 + 1 : SubSeq(log, 1, n)[i] = log[1 + i - 1]
    BY <1>4, <2>1, SubSeqProperties
  <2>3. n - 1 + 1 = n /\ \A i \in 1 .. n : 1 + i - 1 = i
    BY <1>4
  <2>4. Len(log') = n
    BY <1>4, <1>5, <2>2, <2>3
  <2>5. \A i \in 1 .. n : log'[i] = log[i]
    BY <1>5, <2>2, <2>3
  <2>6. QED
    BY <2>4, <2>5
<1>7. \A i \in 1 .. n : i \in 1 .. Len(log) /\ i - 1 \in 0 .. n
  BY <1>4
<1>8. \A i \in 0 .. n : EndOfLog(i)' = EndOfLog(i)
  <2>1. \A i \in 0 .. n : i # 0 => log'[i] = log[i]
    BY <1>4, <1>6
  <2>2. QED
    BY <2>1 DEF EndOfLog, EndOf
<1>9. Chained'
  BY <1>1, <1>6, <1>7, <1>8 DEF LogInv, Chained
<1>10. Growing'
  <2>1. \A j \in 1 .. n : \A i \in 1 .. j : i \in 1 .. n
    BY <1>4
  <2>2. QED
    BY <1>1, <1>6, <1>7, <2>1 DEF LogInv, Growing, EndOf
<1>11. UseLibpmem => RecordsIn(mem)'
  <2>1. UseLibpmem => RecordsIn(mem')
    BY <1>3, <1>5
  <2>2. QED
    BY <1>6, <1>7, <2>1 DEF RecordsIn, ValueAt
<1>12. Counted'
  <2>1. mem'[0] = Len(log')
    BY <1>3, <1>5, <1>6
  <2>2. ~UseLibpmem => RecordsIn(mem)'
    BY <1>3, <1>6 DEF RecordsIn
  <2>3. QED
    BY <1>11, <2>1, <2>2 DEF Counted
<1>13. Durable'
  <2> SUFFICES ASSUME UseLibpmem
               PROVE  media[0] <= n /\ RecordsIn(media)'
    BY <1>2, <1>5, <1>6 DEF Durable
  <2>1. RecordsIn(media)
    BY <1>1 DEF LogInv, Durable
  <2>2. RecordsIn(media)'
    BY <1>2, <1>6, <1>7, <2>1 DEF RecordsIn, ValueAt
  <2>3. CASE m = media
    BY <1>3, <1>4, <2>2, <2>3
  <2>4. CASE m = mem
    BY <1>1, <1>3, <2>2, <2>4 DEF LogInv, Durable
  <2>5. QED
    BY <1>3, <2>3, <2>4
<1>14. Agrees'
  <2> SUFFICES ASSUME UseLibpmem
               PROVE  \A a \in 1 .. Base' - 1 : media[a] = m[a]
    BY <1>2, <1>5 DEF Agrees
  <2>1. CASE m = media
    BY <2>1
  <2>2. CASE m = mem
    <3>1. n = Len(log)
      BY <1>3, <2>2
    <3>2. Base' = Base
      <4>1. Len(log) \in 0 .. n /\ Len(log') = Len(log)
        BY <1>1, <1>6, <3>1
      <4>3. EndOfLog(n)' = EndOfLog(n)
        BY <1>8, <3>1, <4>1
      <4>4. QED
        BY <1>6, <3>1, <4>3 DEF Base, EndOfLog
    <3>3. QED
      BY <1>1, <2>2, <3>2 DEF LogInv, Agrees
  <2>3. QED
    BY <1>3, <2>1, <2>2
<1>15. QED
  BY <1>5, <1>9, <1>10, <1>12, <1>13, <1>14 DEF LogInv

\* No step breaks the log.
LEMMA LogStep ==
    ASSUME Inv, [Next]_vars
    PROVE  LogInv'
<1>1. /\ Types /\ LogInv /\ ThreadsInv /\ AppendInv
      /\ Base \in Nat /\ 1 <= Base /\ Base <= Capacity
  BY BaseFits DEF Inv
<1>2. CASE mem' = mem /\ media' = media /\ log' = log /\ UseLibpmem' = UseLibpmem
  BY <1>2, LogUnderStore
<1>3. ASSUME NEW a \in Nat, Base <= a, NEW w, StoreWord(a, w), media' = media,
             log' = log, UseLibpmem' = UseLibpmem
      PROVE  LogInv'
  <2>1. \A b \in 0 .. Base - 1 : mem'[b] = mem[b]
    <3>1. \A b \in 0 .. Base - 1 : b # a /\ b \in Addresses
      BY <1>1, <1>3, CapacityAssumption DEF Addresses
    <3>2. mem' = [mem EXCEPT ![a] = w] /\ mem \in [Addresses -> Nat]
      BY <1>1, <1>3 DEF StoreWord, Types
    <3>3. QED
      BY <3>1, <3>2
  <2>2. QED
    BY <1>3, <2>1, LogUnderStore
<1>4. ASSUME NEW t \in Threads, StoreSize(t)
      PROVE  LogInv'
  <2>1. pc[t] = "size" /\ StoreWord(end_off, Len(Pushed(t)))
    BY <1>4 DEF StoreSize
  <2>2. end_off \in Nat /\ Base <= end_off
    BY <1>1, <2>1, Behind
  <2>3. QED
    BY <1>3, <1>4, <2>1, <2>2 DEF StoreSize, history
<1>5. ASSUME NEW t \in Threads, PersistSize(t)
      PROVE  LogInv'
  <2>1. pc[t] = "persistSize" /\ Persist(end_off, 1)
    BY <1>5 DEF PersistSize
  <2>2. end_off \in Nat /\ Base <= end_off
    BY <1>1, <2>1, Behind
  <2>3. mem' = mem /\ log' = log /\ UseLibpmem' = UseLibpmem
    BY <1>5 DEF PersistSize, history
  <2>4. QED
    BY <2>1, <2>2, <2>3, LogUnderPersist
<1>6. ASSUME NEW t \in Threads, CopyWord(t)
      PROVE  LogInv'
  <2>1. pc[t] = "copy" /\ StoreWord(end_off + 1 + copied, Pushed(t)[copied + 1])
    BY <1>6 DEF CopyWord
  <2>2. end_off \in Nat /\ Base <= end_off /\ copied \in Nat
    BY <1>1, <2>1, Behind DEF Types
  <2>3. end_off + 1 + copied \in Nat /\ Base <= end_off + 1 + copied
    BY <1>1, <2>2
  <2>4. QED
    BY <1>3, <1>6, <2>1, <2>3 DEF CopyWord, history
<1>7. ASSUME NEW t \in Threads, PersistData(t)
      PROVE  LogInv'
  <2>1. pc[t] = "copy" /\ copied = Len(Pushed(t)) /\ Persist(end_off + 1, copied)
    BY <1>7 DEF PersistData
  <2>2. end_off \in Nat /\ Base <= end_off /\ copied \in Nat
    BY <1>1, <2>1, Behind DEF Types
  <2>3. end_off + 1 \in Nat /\ Base <= end_off + 1
    BY <1>1, <2>2
  <2>4. mem' = mem /\ log' = log /\ UseLibpmem' = UseLibpmem
    BY <1>7 DEF PersistData, history
  <2>5. QED
    BY <2>1, <2>2, <2>3, <2>4, LogUnderPersist
<1>8. CASE WriteBack
  <2>1. UseLibpmem /\ mem' = mem /\ log' = log /\ UseLibpmem' = UseLibpmem
    BY <1>8 DEF WriteBack, history
  <2>2. PICK a \in Addresses : media' = [media EXCEPT ![a] = mem[a]]
    BY <1>8 DEF WriteBack
  <2>3. \A b \in 1 .. Base - 1 : b \in Addresses /\ media[b] = mem[b]
    BY <1>1, <2>1, CapacityAssumption DEF LogInv, Agrees, Addresses
  <2>4. \A b \in 1 .. Base - 1 : media'[b] = media[b]
    BY <1>1, <2>2, <2>3 DEF Types
  <2>5. 0 \in Addresses /\ mem[0] = Len(log) /\ media[0] <= Len(log) /\ Len(log) \in Nat
    BY <1>1, <2>1, LogType, CapacityAssumption DEF LogInv, Counted, Durable, Addresses
  <2>6. media'[0] \in {media[0], mem[0]}
    BY <1>1, <2>2, <2>5 DEF Types
  <2>7. media'[0] <= Len(log)
    BY <2>5, <2>6
  <2>8. QED
    BY <1>1, <2>1, <2>4, <2>7, LogKept
<1>9. ASSUME NEW t \in Threads, Count(t)
      PROVE  LogInv'
  BY <1>9, LogCounts
<1>10. CASE Close \/ Crash \/ Fault \/ PowerFailure
  BY <1>10, LogStops
<1>11. CASE Open \/ RecoverNext \/ RecoveryDone
  BY <1>2, <1>11 DEF Open, RecoverNext, RecoveryDone, pmem, history
<1>12. ASSUME NEW t \in Threads,
              \/ \E k \in Keys : Call(t, "get", k, <<>>)
              \/ \E k \in Keys, v \in Values : Call(t, "set", k, v)
              \/ Lock(t) \/ Read(t) \/ MapKey(t) \/ Return(t)
       PROVE  LogInv'
  BY <1>2, <1>12 DEF Call, Lock, Read, MapKey, Return, pmem, history
<1>13. CASE UNCHANGED vars
  BY <1>2, <1>13 DEF vars, pmem, history
<1>14. QED
  BY <1>4, <1>5, <1>6, <1>7, <1>8, <1>9, <1>10, <1>11, <1>12, <1>13 DEF Next, Recover, Step

-----------------------------------------------------------------------------
(* Calls and the mutex                                                     *)

\* The locks and arguments of calls stay what they are said to be.
LEMMA ThreadsStep ==
    ASSUME Inv, [Next]_vars
    PROVE  ThreadsInv'
<1> USE DEF Holding, Appending
<1>1. Types /\ ThreadsInv /\ \A u \in Threads : ThreadOK(u)
  BY DEF Inv, ThreadsInv
<1> SUFFICES ASSUME NEW u \in Threads
             PROVE  ThreadOK(u)'
  BY DEF ThreadsInv
<1>2. ThreadOK(u)
  BY <1>1
<1>3. CASE Open \/ RecoverNext \/ RecoveryDone \/ WriteBack
  <2>1. pc' = pc /\ mut' = mut /\ UNCHANGED call
    BY <1>3 DEF Open, RecoverNext, RecoveryDone, WriteBack
  <2>2. mode' # "open" => mode # "open"
    BY <1>3 DEF Open, RecoverNext, RecoveryDone, WriteBack
  <2>3. QED
    BY <1>2, <2>1, <2>2 DEF ThreadOK, call
<1>4. ASSUME NEW t \in Threads, NEW k \in Keys, NEW v, NEW o, Call(t, o, k, v),
             o \in {"get", "set"}, o = "set" => v \in Values
      PROVE  ThreadOK(u)'
  <2>1. CASE u = t
    BY <1>1, <1>2, <1>4, <2>1 DEF Call, ThreadOK, Types
  <2>2. CASE u # t
    BY <1>1, <1>2, <1>4, <2>2 DEF Call, ThreadOK, Types
  <2>3. QED
    BY <2>1, <2>2
<1>5. ASSUME NEW t \in Threads, Lock(t)
      PROVE  ThreadOK(u)'
  <2>1. CASE u = t
    BY <1>1, <1>2, <1>5, <2>1 DEF Lock, LockGuard, call, ThreadOK, Types
  <2>2. CASE u # t
    <3>1. pc[u] \notin Holding
      BY <1>2, <1>5, NoValuesAssumption DEF Lock, LockGuard, ThreadOK
    <3>2. QED
      BY <1>1, <1>2, <1>5, <2>2, <3>1 DEF Lock, LockGuard, call, ThreadOK, Types
  <2>3. QED
    BY <2>1, <2>2
<1>6. ASSUME NEW t \in Threads, Read(t)
      PROVE  ThreadOK(u)'
  <2>1. CASE u = t
    BY <1>1, <1>2, <1>6, <2>1, NoValuesAssumption DEF Read, Unlock, ThreadOK, Types
  <2>2. CASE u # t
    <3>1. pc[u] \notin Holding
      BY <1>1, <1>6, <2>2, OneHolder DEF Read
    <3>2. QED
      BY <1>1, <1>2, <1>6, <2>2, <3>1, NoValuesAssumption DEF Read, Unlock, ThreadOK, Types
  <2>3. QED
    BY <2>1, <2>2
<1>7. ASSUME NEW t \in Threads, StoreSize(t) \/ PersistSize(t) \/ CopyWord(t) \/ PersistData(t)
                                \/ Count(t)
      PROVE  ThreadOK(u)'
  <2>1. pc[t] \in Appending /\ pc'[t] \in Appending /\ pc' = [pc EXCEPT ![t] = pc'[t]]
    BY <1>1, <1>7 DEF StoreSize, PersistSize, CopyWord, PersistData, Count, Types
  <2>2. mode' = mode /\ mut' = mut /\ UNCHANGED call
    BY <1>7 DEF StoreSize, PersistSize, CopyWord, PersistData, Count
  <2>3. CASE u = t
    BY <1>1, <1>2, <2>1, <2>2, <2>3 DEF ThreadOK, call
  <2>4. CASE u # t
    <3>1. pc'[u] = pc[u]
      BY <1>1, <2>1, <2>4 DEF Types
    <3>2. QED
      BY <1>2, <2>2, <3>1 DEF ThreadOK, call
  <2>5. QED
    BY <2>3, <2>4
<1>8. ASSUME NEW t \in Threads, MapKey(t)
      PROVE  ThreadOK(u)'
  <2>1. CASE u = t
    BY <1>1, <1>2, <1>8, <2>1, NoValuesAssumption DEF MapKey, Unlock, CallEnds, ThreadOK, Types
  <2>2. CASE u # t
    <3>1. pc[u] \notin Holding
      BY <1>1, <1>8, <2>2, OneHolder DEF MapKey
    <3>2. QED
      BY <1>1, <1>2, <1>8, <2>2, <3>1, NoValuesAssumption
         DEF MapKey, Unlock, CallEnds, ThreadOK, Types
  <2>3. QED
    BY <2>1, <2>2
<1>9. ASSUME NEW t \in Threads, Return(t)
      PROVE  ThreadOK(u)'
  <2>1. CASE u = t
    BY <1>1, <1>2, <1>9, <2>1 DEF Return, CallEnds, ThreadOK, Types
  <2>2. CASE u # t
    BY <1>1, <1>2, <1>9, <2>2 DEF Return, CallEnds, ThreadOK, Types
  <2>3. QED
    BY <2>1, <2>2
<1>10. CASE Close \/ Crash \/ Fault \/ PowerFailure
  <2>1. PICK m \in [Addresses -> Nat], n \in 0 .. Len(log) : Stop(m, n)
    BY <1>10, Ends
  <2>2. QED
    BY <2>1, NoValuesAssumption DEF Stop, ThreadOK
<1>11. CASE UNCHANGED vars
  BY <1>2, <1>11 DEF vars, call, ThreadOK
<1>12. QED
  BY <1>3, <1>4, <1>5, <1>6, <1>7, <1>8, <1>9, <1>10, <1>11 DEF Next, Recover, Step

-----------------------------------------------------------------------------
(* Append                                                                  *)

\* A slice stays where it is, on the media as well.
LEMMA StoredKept ==
    ASSUME NEW a \in Nat, NEW s, Len(s) \in Nat, Stored(a, s), UseLibpmem' = UseLibpmem,
           \A b \in a .. a + Len(s) : mem'[b] = mem[b],
           UseLibpmem => \A b \in a .. a + Len(s) : media'[b] = media[b]
    PROVE  Stored(a, s)'
<1>1. Holds(mem', a, s)
  BY HoldsKept DEF Stored
<1>2. UseLibpmem => Holds(media', a, s)
  BY HoldsKept DEF Stored
<1>3. QED
  BY <1>1, <1>2 DEF Stored, Holds

\* A pushed key stays what it is while the words up to the next slice do.
LEMMA KeyKept ==
    ASSUME Inv, NEW t \in Threads, pc[t] \in Appending, KeyPushed(t),
           key' = key, nvm_key' = nvm_key, UseLibpmem' = UseLibpmem, Base' = Base,
           \A b \in Base .. Base + Len(key[t]) : mem'[b] = mem[b],
           UseLibpmem => \A b \in Base .. Base + Len(key[t]) : media'[b] = media[b]
    PROVE  KeyPushed(t)'
<1>1. Base \in Nat /\ Len(key[t]) \in Nat
  BY BaseFits, Appends DEF Inv
<1>2. PICK a \in Nat : a = Base
  BY <1>1
<1>3. PICK s : s = key[t]
  OBVIOUS
<1>4. Stored(a, s)
  BY <1>2, <1>3 DEF KeyPushed
<1>5. Stored(a, s)'
  BY <1>1, <1>2, <1>3, <1>4, StoredKept
<1>6. QED
  BY <1>2, <1>3, <1>5 DEF KeyPushed

\* What a thread knows of its Append depends on nothing that others change.
LEMMA AppendKept ==
    ASSUME Inv, NEW u \in Threads, pc'[u] = pc[u], key'[u] = key[u], value'[u] = value[u],
           UseLibpmem' = UseLibpmem, mem' = mem, log' = log, end_off' = end_off,
           UNCHANGED append,
           UseLibpmem => \A a \in Addresses : media'[a] \in {media[a], mem[a]}
    PROVE  AppendOK(u)'
<1>1. Types /\ AppendOK(u) /\ Base' = Base
  BY DEF Inv, AppendInv, Base, EndOfLog
<1>2. CASE pc[u] \notin Appending
  BY <1>2 DEF AppendOK, Appending
<1>3. CASE pc[u] \in Appending
  <2>1. /\ Base \in Nat /\ Base <= Capacity
        /\ Len(key[u]) \in Nat /\ Len(value[u]) \in Nat /\ Len(Pushed(u)) \in Nat
    BY <1>3, BaseFits, Appends DEF Inv
  <2>2. ASSUME NEW a \in Nat, NEW s, Len(s) \in Nat, Stored(a, s)
        PROVE  Stored(a, s)'
    <3>1. Holds(mem, a, s)'
      BY <2>2 DEF Stored, Holds
    <3>2. ASSUME UseLibpmem
          PROVE  Holds(media, a, s)'
      <4>1. Holds(mem, a, s) /\ Holds(media, a, s)
        BY <2>2, <3>2 DEF Stored
      <4>2. \A b \in a .. a + Len(s) : b \in Addresses
        BY <2>2, <4>1, CapacityAssumption DEF Holds, Addresses
      <4>3. a \in Addresses /\ \A i \in 1 .. Len(s) : a + i \in Addresses
        BY <2>2, <4>2
      <4>4. QED
        BY <3>2, <4>1, <4>3 DEF Holds
    <3>3. QED
      BY <3>1, <3>2 DEF Stored
  <2>3. KeyPushed(u) => KeyPushed(u)'
    <3>1. PICK a \in Nat, s \in {key[u]} : a = Base
      BY <2>1
    <3>2. Stored(a, s) => Stored(a, s)'
      BY <2>1, <2>2, <3>1
    <3>3. QED
      BY <1>1, <3>1, <3>2 DEF KeyPushed, append
  <2>4. ValuePushed(u) => ValuePushed(u)'
    <3>1. PICK k \in Nat : k = Len(key[u])
      BY <2>1
    <3>2. PICK a \in Nat, s \in {value[u]} : a = Base + 1 + k
      BY <2>1
    <3>3. Stored(a, s) => Stored(a, s)'
      BY <2>1, <2>2, <3>2
    <3>4. QED
      BY <1>1, <3>1, <3>2, <3>3 DEF ValuePushed, append
  <2>5. Pushed(u)' = Pushed(u)
    BY DEF Pushed, append
  <2>6. pc[u] = "copy" /\ UseLibpmem => media'[end_off] = Len(Pushed(u))
    <3> SUFFICES ASSUME pc[u] = "copy", UseLibpmem
                 PROVE  media'[end_off] = Len(Pushed(u))
      OBVIOUS
    <3>1. end_off < Capacity /\ end_off \in Nat
      BY <1>1, CapacityAssumption DEF AppendOK, Types
    <3>2. end_off \in Addresses
      BY <3>1, CapacityAssumption DEF Addresses
    <3>3. mem[end_off] = Len(Pushed(u)) /\ media[end_off] = Len(Pushed(u))
      BY <1>1 DEF AppendOK
    <3>4. QED
      BY <3>2, <3>3
  <2>7. QED
    BY <1>1, <2>3, <2>4, <2>5, <2>6 DEF AppendOK, append
<1>4. QED
  BY <1>2, <1>3

\* Taking the mutex, a Set is about to push its key to the end of the log.
LEMMA AppendLock ==
    ASSUME Inv, NEW t \in Threads, Lock(t)
    PROVE  AppendOK(t)'
<1>1. Types /\ ThreadsInv /\ EndInv /\ mut = NoOwner /\ pc[t] = "lock"
  BY DEF Inv, Lock, LockGuard
<1>2. \A u \in Threads : pc[u] \notin Holding
  BY <1>1, OneHolder
<1>3. mode = "open"
  BY <1>1, OneHolder
<1>4. end_off = Base /\ part = "key"
  BY <1>1, <1>2, <1>3 DEF EndInv, Holding
<1>5. pc'[t] \in {"read", "size"}
  BY <1>1 DEF Lock, Types
<1>6. end_off' = end_off /\ part' = part /\ Base' = Base
  BY DEF Lock, append, history, Base, EndOfLog
<1>7. QED
  BY <1>4, <1>5, <1>6 DEF AppendOK

\* The size of a slice is stored behind the log, and behind the key.
LEMMA AppendStoreSize ==
    ASSUME Inv, NEW t \in Threads, StoreSize(t)
    PROVE  AppendOK(t)'
<1>1. /\ Types /\ LogInv /\ ThreadsInv /\ AppendInv /\ AppendOK(t)
      /\ pc[t] = "size" /\ pc[t] \in Appending
  BY DEF Inv, StoreSize, AppendInv, Appending
<1>2. end_off \in Addresses /\ mem' = [mem EXCEPT ![end_off] = Len(Pushed(t))]
  BY DEF StoreSize, StoreWord
<1>3. /\ end_off' = end_off /\ key' = key /\ value' = value /\ UNCHANGED append
      /\ media' = media /\ UseLibpmem' = UseLibpmem /\ log' = log
  BY DEF StoreSize, call, history
<1>4. pc'[t] = "persistSize" /\ Pushed(t)' = Pushed(t) /\ Base' = Base
  BY <1>1, <1>3 DEF StoreSize, Types, Pushed, append, Base, EndOfLog
<1>5. end_off < Capacity /\ mem'[end_off] = Len(Pushed(t))
  BY <1>1, <1>2, CapacityAssumption DEF Types, Addresses
<1>6. part = "key" => end_off = Base
  BY <1>1 DEF AppendOK
<1>7. part = "value" => end_off = Base + 1 + Len(key[t]) /\ KeyPushed(t)'
  <2> SUFFICES ASSUME part = "value"
               PROVE  end_off = Base + 1 + Len(key[t]) /\ KeyPushed(t)'
    OBVIOUS
  <2>1. end_off = Base + 1 + Len(key[t]) /\ KeyPushed(t)
    BY <1>1 DEF AppendOK
  <2>2. Base \in Nat /\ Len(key[t]) \in Nat
    BY <1>1, BaseFits, Appends
  <2>3. \A b \in Base .. Base + Len(key[t]) : mem'[b] = mem[b]
    <3>1. PICK n \in Nat : n = Len(key[t])
      BY <2>2
    <3>2. end_off = Base + 1 + n
      BY <2>1, <3>1
    <3>3. \A b \in Base .. Base + n : b \in Addresses /\ b # end_off
      BY <1>5, <2>2, <3>2, CapacityAssumption DEF Addresses
    <3>4. QED
      BY <1>1, <1>2, <3>1, <3>3 DEF Types
  <2>4. KeyPushed(t)'
    BY <1>1, <1>3, <1>4, <2>1, <2>3, KeyKept DEF append
  <2>5. QED
    BY <2>1, <2>4
<1>8. QED
  BY <1>3, <1>4, <1>5, <1>6, <1>7 DEF AppendOK, append

\* The size is persisted and no word of the data copied yet.
LEMMA AppendPersistSize ==
    ASSUME Inv, NEW t \in Threads, PersistSize(t)
    PROVE  AppendOK(t)'
<1>1. /\ Types /\ LogInv /\ ThreadsInv /\ AppendInv /\ AppendOK(t)
      /\ pc[t] = "persistSize" /\ pc[t] \in Appending
  BY DEF Inv, PersistSize, AppendInv, Appending
<1>2. Persist(end_off, 1) /\ copied' = 0
  BY DEF PersistSize
<1>3. /\ end_off' = end_off /\ key' = key /\ value' = value /\ part' = part
      /\ nvm_key' = nvm_key /\ nvm_val' = nvm_val
      /\ mem' = mem /\ UseLibpmem' = UseLibpmem /\ log' = log
  BY DEF PersistSize, call, history
<1>4. pc'[t] = "copy" /\ Pushed(t)' = Pushed(t) /\ Base' = Base
  BY <1>1, <1>3 DEF PersistSize, Types, Pushed, Base, EndOfLog
<1>5. end_off < Capacity /\ mem[end_off] = Len(Pushed(t)) /\ end_off \in Addresses
  BY <1>1, CapacityAssumption DEF AppendOK, Types, Addresses
<1>6. UseLibpmem => media'[end_off] = Len(Pushed(t))
  <2>1. end_off \in end_off .. end_off + 1 - 1
    BY <1>1, CapacityAssumption DEF Types
  <2>2. QED
    BY <1>2, <1>5, <2>1 DEF Persist
<1>7. part = "key" => end_off = Base
  BY <1>1 DEF AppendOK
<1>8. part = "value" => end_off = Base + 1 + Len(key[t]) /\ KeyPushed(t)'
  <2> SUFFICES ASSUME part = "value"
               PROVE  end_off = Base + 1 + Len(key[t]) /\ KeyPushed(t)'
    OBVIOUS
  <2>1. end_off = Base + 1 + Len(key[t]) /\ KeyPushed(t)
    BY <1>1 DEF AppendOK
  <2>2. Base \in Nat /\ Len(key[t]) \in Nat
    BY <1>1, BaseFits, Appends
  <2>3. UseLibpmem => \A b \in Base .. Base + Len(key[t]) : media'[b] = media[b]
    <3>1. PICK n \in Nat : n = Len(key[t])
      BY <2>2
    <3>2. end_off = Base + 1 + n
      BY <2>1, <3>1
    <3>3. \A b \in Base .. Base + n : b \in Addresses /\ b \notin end_off .. end_off + 1 - 1
      BY <1>5, <2>2, <3>2, CapacityAssumption DEF Addresses
    <3>4. QED
      BY <1>2, <3>1, <3>3 DEF Persist
  <2>4. KeyPushed(t)'
    BY <1>1, <1>3, <1>4, <2>1, <2>3, KeyKept
  <2>5. QED
    BY <2>1, <2>4
<1>9. 0 <= Len(Pushed(t)) /\ end_off + 0 < Capacity
  <2>1. PICK n \in Nat : n = Len(Pushed(t))
    BY <1>1, Appends
  <2>2. QED
    BY <1>1, <1>5, <2>1, CapacityAssumption DEF Types
<1>10. QED
  BY <1>2, <1>3, <1>4, <1>5, <1>6, <1>7, <1>8, <1>9 DEF AppendOK

\* One more word of the slice is in its place.
LEMMA AppendCopyWord ==
    ASSUME Inv, NEW t \in Threads, CopyWord(t)
    PROVE  AppendOK(t)'
<1>1. /\ Types /\ LogInv /\ ThreadsInv /\ AppendInv /\ AppendOK(t)
      /\ pc[t] = "copy" /\ pc[t] \in Appending
      /\ copied \in Nat /\ end_off \in Nat /\ mem \in [Addresses -> Nat]
  BY CapacityAssumption DEF Inv, CopyWord, AppendInv, Appending, Types
<1>2. /\ end_off + 1 + copied \in Addresses
      /\ mem' = [mem EXCEPT ![end_off + 1 + copied] = Pushed(t)[copied + 1]]
      /\ copied < Len(Pushed(t))
      /\ copied' = copied + 1
  BY DEF CopyWord, StoreWord
<1>3. /\ end_off' = end_off /\ key' = key /\ value' = value /\ part' = part
      /\ nvm_key' = nvm_key /\ nvm_val' = nvm_val /\ pc' = pc
      /\ media' = media /\ UseLibpmem' = UseLibpmem /\ log' = log
  BY DEF CopyWord, call, history
<1>4. Pushed(t)' = Pushed(t) /\ Base' = Base
  BY <1>3 DEF Pushed, Base, EndOfLog
<1>5. PICK n \in Nat : n = Len(Pushed(t))
  BY <1>1, Appends
<1>6. copied' <= Len(Pushed(t)) /\ end_off + copied' < Capacity
  BY <1>1, <1>2, <1>5, CapacityAssumption DEF Addresses
<1>7. /\ end_off < Capacity /\ mem[end_off] = Len(Pushed(t)) /\ end_off \in Addresses
      /\ UseLibpmem => media[end_off] = Len(Pushed(t))
      /\ end_off + copied < Capacity
      /\ \A i \in 1 .. copied : mem[end_off + i] = Pushed(t)[i]
  BY <1>1, CapacityAssumption DEF AppendOK, Addresses
<1>8. \A b \in 0 .. end_off + copied : b \in Addresses /\ mem'[b] = mem[b]
  <2>1. \A b \in 0 .. end_off + copied : b \in Addresses /\ b # end_off + 1 + copied
    BY <1>1, <1>7, CapacityAssumption DEF Addresses
  <2>2. QED
    BY <1>1, <1>2, <2>1
<1>9. mem'[end_off] = Len(Pushed(t))
  <2>1. end_off \in 0 .. end_off + copied
    BY <1>1
  <2>2. QED
    BY <1>7, <1>8, <2>1
<1>10. ASSUME NEW i \in 1 .. copied'
       PROVE  mem'[end_off + i] = Pushed(t)[i]
  <2>1. CASE i \in 1 .. copied
    <3>1. end_off + i \in 0 .. end_off + copied
      BY <1>1, <2>1
    <3>2. QED
      BY <1>7, <1>8, <2>1, <3>1
  <2>2. CASE i = copied + 1
    <3>1. end_off + i = end_off + 1 + copied
      BY <1>1, <2>2
    <3>2. QED
      BY <1>1, <1>2, <2>2, <3>1
  <2>3. QED
    BY <1>1, <1>2, <2>1, <2>2
<1>11. part = "key" => end_off = Base
  BY <1>1 DEF AppendOK
<1>12. part = "value" => end_off = Base + 1 + Len(key[t]) /\ KeyPushed(t)'
  <2> SUFFICES ASSUME part = "value"
               PROVE  end_off = Base + 1 + Len(key[t]) /\ KeyPushed(t)'
    OBVIOUS
  <2>1. end_off = Base + 1 + Len(key[t]) /\ KeyPushed(t)
    BY <1>1 DEF AppendOK
  <2>2. Base \in Nat /\ Len(key[t]) \in Nat
    BY <1>1, BaseFits, Appends
  <2>3. \A b \in Base .. Base + Len(key[t]) : mem'[b] = mem[b]
    <3>1. PICK k \in Nat : k = Len(key[t])
      BY <2>2
    <3>2. end_off = Base + 1 + k
      BY <2>1, <3>1
    <3>3. \A b \in Base .. Base + k : b \in 0 .. end_off + copied
      BY <1>1, <2>2, <3>2
    <3>4. QED
      BY <1>8, <3>1, <3>3
  <2>4. KeyPushed(t)'
    BY <1>1, <1>3, <1>4, <2>1, <2>3, KeyKept
  <2>5. QED
    BY <2>1, <2>4
<1>13. QED
  BY <1>1, <1>3, <1>4, <1>6, <1>7, <1>9, <1>10, <1>11, <1>12 DEF AppendOK

\* A slice whose size and data are in place is persisted.
LEMMA SlicePersisted ==
    ASSUME Inv, NEW t \in Threads, PersistData(t)
    PROVE  /\ \A a, s : a = end_off /\ s = Pushed(t) => Stored(a, s)'
           /\ UseLibpmem => \A b \in Addresses : b <= end_off => media'[b] = media[b]
<1>1. /\ Types /\ ThreadsInv /\ AppendOK(t) /\ pc[t] = "copy" /\ pc[t] \in Appending
      /\ copied \in Nat /\ end_off \in Nat
  BY CapacityAssumption DEF Inv, PersistData, AppendInv, Appending, Types
<1>2. /\ copied = Len(Pushed(t)) /\ Persist(end_off + 1, copied)
      /\ mem' = mem /\ UseLibpmem' = UseLibpmem
  BY DEF PersistData
<1>3. /\ end_off < Capacity /\ mem[end_off] = Len(Pushed(t)) /\ end_off \in Addresses
      /\ UseLibpmem => media[end_off] = Len(Pushed(t))
      /\ end_off + copied < Capacity
      /\ \A i \in 1 .. copied : mem[end_off + i] = Pushed(t)[i]
  BY <1>1, CapacityAssumption DEF AppendOK, Addresses
<1>4. UseLibpmem => \A b \in Addresses : b <= end_off => media'[b] = media[b]
  <2>1. \A b \in Addresses : b <= end_off => b \notin end_off + 1 .. end_off + 1 + copied - 1
    BY <1>1, CapacityAssumption DEF Addresses
  <2>2. QED
    BY <1>2, <2>1 DEF Persist
<1>5. UseLibpmem => \A i \in 1 .. copied : media'[end_off + i] = Pushed(t)[i]
  <2>1. \A i \in 1 .. copied : /\ end_off + i \in Addresses
                               /\ end_off + i \in end_off + 1 .. end_off + 1 + copied - 1
    BY <1>1, <1>3, CapacityAssumption DEF Addresses
  <2>2. QED
    BY <1>2, <1>3, <2>1 DEF Persist
<1>6. PICK s : s = Pushed(t)
  OBVIOUS
<1>7. PICK a \in Nat : a = end_off
  BY <1>1
<1>8. Holds(mem', a, s)
  BY <1>2, <1>3, <1>6, <1>7 DEF Holds
<1>9. UseLibpmem => Holds(media', a, s)
  <2>1. UseLibpmem => media'[end_off] = Len(Pushed(t))
    BY <1>1, <1>3, <1>4
  <2>2. QED
    BY <1>2, <1>3, <1>5, <1>6, <1>7, <2>1 DEF Holds
<1>10. Stored(a, s)'
  BY <1>2, <1>8, <1>9 DEF Stored, Holds
<1>11. QED
  BY <1>4, <1>6, <1>7, <1>10

\* A pushed key is followed by the value, a pushed value by the count.
LEMMA AppendPersistData ==
    ASSUME Inv, NEW t \in Threads, PersistData(t)
    PROVE  AppendOK(t)'
<1>1. /\ Types /\ LogInv /\ ThreadsInv /\ AppendInv /\ AppendOK(t)
      /\ pc[t] = "copy" /\ pc[t] \in Appending
      /\ part \in {"key", "value"}
  BY DEF Inv, PersistData, AppendInv, Appending, Types
<1>2. /\ Base \in Nat /\ 1 <= Base /\ end_off \in Nat
      /\ Len(key[t]) \in Nat /\ Len(value[t]) \in Nat
  BY <1>1, BaseFits, Appends, Behind
<1>3. PICK k \in Nat, v \in Nat : k = Len(key[t]) /\ v = Len(value[t])
  BY <1>2
<1>4. /\ end_off' = end_off + 1 + Len(Pushed(t))
      /\ key' = key /\ value' = value /\ mem' = mem /\ UseLibpmem' = UseLibpmem /\ log' = log
  BY DEF PersistData, NextOffset, call, history
<1>5. Base' = Base
  BY <1>4 DEF Base, EndOfLog
<1>6. CASE part = "key"
  <2>1. end_off = Base /\ Pushed(t) = key[t]
    BY <1>1, <1>6 DEF AppendOK, Pushed
  <2>2. /\ part' = "value" /\ nvm_key' = [off |-> end_off + 1, len |-> Len(Pushed(t))]
        /\ pc'[t] = "size"
    BY <1>1, <1>6 DEF PersistData, Types
  <2>3. PICK a \in Nat, s \in {key[t]} : a = Base
    BY <1>2
  <2>4. Stored(a, s)'
    BY <2>1, <2>3, SlicePersisted
  <2>5. KeyPushed(t)'
    BY <1>4, <1>5, <2>1, <2>2, <2>3, <2>4 DEF KeyPushed
  <2>6. end_off' = Base + 1 + Len(key[t])
    BY <1>4, <2>1
  <2>7. QED
    BY <1>4, <1>5, <2>2, <2>5, <2>6 DEF AppendOK
<1>7. CASE part = "value"
  <2>1. end_off = Base + 1 + k /\ KeyPushed(t) /\ Pushed(t) = value[t]
    BY <1>1, <1>3, <1>7 DEF AppendOK, Pushed
  <2>2. /\ nvm_val' = [off |-> end_off + 1, len |-> v] /\ nvm_key' = nvm_key
        /\ pc'[t] = "count"
    BY <1>1, <1>3, <1>7, <2>1 DEF PersistData, Types
  <2>3. PICK a \in Nat, s \in {value[t]} : a = Base + 1 + k
    BY <1>2
  <2>4. Stored(a, s)'
    BY <2>1, <2>3, SlicePersisted
  <2>5. end_off + 1 = Base + 2 + k
    BY <1>2, <2>1
  <2>6. ValuePushed(t)'
    BY <1>3, <1>4, <1>5, <2>2, <2>3, <2>4, <2>5 DEF ValuePushed
  <2>7. UseLibpmem => \A b \in Base .. Base + Len(key[t]) : media'[b] = media[b]
    <3>1. end_off < Capacity
      BY <1>1 DEF AppendOK
    <3>2. \A b \in Base .. Base + k : b \in Addresses /\ b <= end_off
      BY <1>2, <2>1, <3>1, CapacityAssumption DEF Addresses
    <3>3. QED
      BY <1>3, <3>2, SlicePersisted
  <2>8. KeyPushed(t)'
    BY <1>1, <1>4, <1>5, <2>1, <2>2, <2>7, KeyKept
  <2>9. end_off' = Base + 2 + Len(key[t]) + Len(value[t])
    <3>1. end_off' = Base + 1 + k + 1 + v
      BY <1>3, <1>4, <2>1
    <3>2. end_off' = Base + 2 + k + v
      BY <1>2, <3>1
    <3>3. QED
      BY <1>3, <3>2
  <2>10. QED
    BY <1>4, <1>5, <2>2, <2>6, <2>8, <2>9 DEF AppendOK
<1>8. QED
  BY <1>1, <1>6, <1>7

\* The record that was counted is the one hash_map will learn of.
LEMMA AppendCount ==
    ASSUME Inv, NEW t \in Threads, Count(t)
    PROVE  AppendOK(t)'
<1>1. /\ Types /\ LogInv /\ ThreadsInv /\ AppendInv /\ AppendOK(t)
      /\ pc[t] = "count" /\ pc[t] \in Appending
  BY DEF Inv, Count, AppendInv, Appending
<1>2. Base \in Nat /\ Len(key[t]) \in Nat /\ Len(value[t]) \in Nat /\ Len(log) \in Nat
  BY <1>1, BaseFits, Appends, LogType
<1>3. PICK r : r = [key |-> key[t], value |-> value[t], at |-> Base]
  OBVIOUS
<1>4. Len(log') = Len(log) + 1 /\ log'[Len(log')] = r
  BY <1>3, LogCounts
<1>5. PICK k \in Nat, v \in Nat : k = Len(key[t]) /\ v = Len(value[t])
  BY <1>2
<1>6. ValueSlice(r) = [off |-> Base + 2 + k, len |-> v]
  <2>1. r.at = Base /\ Len(r.key) = k /\ Len(r.value) = v
    BY <1>3, <1>5
  <2>2. ValueSlice(r) = [off |-> Base + 1 + k + 1, len |-> v]
    BY <2>1 DEF ValueSlice, ValueAt
  <2>3. Base + 1 + k + 1 = Base + 2 + k
    BY <1>2
  <2>4. QED
    BY <2>2, <2>3
<1>7. /\ nvm_key = [off |-> Base + 1, len |-> k]
      /\ nvm_val = [off |-> Base + 2 + k, len |-> v]
  BY <1>1, <1>5 DEF AppendOK, KeyPushed, ValuePushed
<1>8. pc'[t] = "map" /\ key' = key /\ nvm_key' = nvm_key /\ nvm_val' = nvm_val
  BY <1>1 DEF Count, Types, append, call
<1>9. ValueSlice(r)' = ValueSlice(r)
  OBVIOUS
<1>10. Len(log') > 0
  BY <1>2, <1>4
<1>11. log'[Len(log')].key = key[t] /\ log'[Len(log')].at = Base
  BY <1>3, <1>4
<1>12. nvm_val' = ValueSlice(log'[Len(log')])
  BY <1>4, <1>6, <1>7, <1>8
<1>13. QED
  BY <1>5, <1>7, <1>8, <1>10, <1>11, <1>12 DEF AppendOK, ValueSlice, ValueAt

\* Every step leaves every Append where its thread believes it to be.
LEMMA AppendStep ==
    ASSUME Inv, [Next]_vars
    PROVE  AppendInv'
<1>1. Types /\ ThreadsInv /\ AppendInv
  BY DEF Inv
<1> SUFFICES ASSUME NEW u \in Threads
             PROVE  AppendOK(u)'
  BY DEF AppendInv
<1>2. ASSUME pc'[u] \notin Appending
      PROVE  AppendOK(u)'
  BY <1>2 DEF AppendOK, Appending
<1>3. CASE Open \/ RecoverNext \/ RecoveryDone
  <2>1. mode # "open" /\ pc' = pc
    BY <1>3 DEF Open, RecoverNext, RecoveryDone
  <2>2. pc[u] = "idle"
    BY <1>1, <2>1, OneHolder
  <2>3. QED
    BY <1>2, <2>1, <2>2 DEF Appending
<1>4. CASE WriteBack \/ UNCHANGED vars
  <2>1. /\ pc' = pc /\ key' = key /\ value' = value /\ UseLibpmem' = UseLibpmem
        /\ mem' = mem /\ log' = log /\ end_off' = end_off /\ UNCHANGED append
    BY <1>4 DEF WriteBack, vars, call, history, pmem
  <2>2. \A a \in Addresses : media'[a] \in {media[a], mem[a]}
    BY <1>1, <1>4 DEF WriteBack, vars, pmem, Types
  <2>3. QED
    BY <2>1, <2>2, AppendKept
<1>5. ASSUME NEW t \in Threads,
             \/ \E k \in Keys : Call(t, "get", k, <<>>)
             \/ \E k \in Keys, v \in Values : Call(t, "set", k, v)
             \/ Return(t)
      PROVE  AppendOK(u)'
  <2>1. CASE u = t
    <3>1. pc'[t] \in {"lock", "idle"}
      BY <1>1, <1>5 DEF Call, Return, CallEnds, Types
    <3>2. QED
      BY <1>2, <2>1, <3>1 DEF Appending
  <2>2. CASE u # t
    <3>1. /\ pc'[u] = pc[u] /\ key'[u] = key[u] /\ value'[u] = value[u]
          /\ UseLibpmem' = UseLibpmem /\ mem' = mem /\ media' = media
          /\ log' = log /\ end_off' = end_off /\ UNCHANGED append
      BY <1>1, <1>5, <2>2 DEF Call, Return, CallEnds, Types, pmem, history
    <3>2. QED
      BY <3>1, AppendKept
  <2>3. QED
    BY <2>1, <2>2
<1>6. ASSUME NEW t \in Threads, Lock(t)
      PROVE  AppendOK(u)'
  <2>1. CASE u = t
    BY <1>6, <2>1, AppendLock
  <2>2. CASE u # t
    <3>1. pc'[u] = pc[u] /\ pc[u] \notin Holding
      BY <1>1, <1>6, <2>2, OneHolder DEF Lock, LockGuard, Types
    <3>2. QED
      BY <1>2, <3>1 DEF Holding
  <2>3. QED
    BY <2>1, <2>2
<1>7. ASSUME NEW t \in Threads, Step(t), pc[t] \in Holding, u # t
      PROVE  AppendOK(u)'
  <2>1. pc[u] \notin Holding
    BY <1>1, <1>7, OneHolder
  <2>2. pc'[u] = pc[u]
    BY <1>1, <1>7 DEF Step, Lock, Read, StoreSize, PersistSize, CopyWord, PersistData, Count,
                      MapKey, Return, CallEnds, Types
  <2>3. QED
    BY <1>2, <2>1, <2>2 DEF Holding
<1>8. ASSUME NEW t \in Threads, Read(t) \/ MapKey(t)
      PROVE  AppendOK(u)'
  <2>1. pc[t] \in Holding /\ pc'[t] \in {"ret", "idle"}
    BY <1>1, <1>8 DEF Read, MapKey, CallEnds, Holding, Appending, Types
  <2>2. CASE u = t
    BY <1>2, <2>1, <2>2 DEF Appending
  <2>3. QED
    BY <1>7, <1>8, <2>1, <2>2 DEF Step
<1>9. ASSUME NEW t \in Threads, StoreSize(t) \/ PersistSize(t) \/ CopyWord(t) \/ PersistData(t)
                                \/ Count(t)
      PROVE  AppendOK(u)'
  <2>1. pc[t] \in Holding
    BY <1>9 DEF StoreSize, PersistSize, CopyWord, PersistData, Count, Holding, Appending
  <2>2. CASE u = t
    BY <1>9, <2>2, AppendStoreSize, AppendPersistSize, AppendCopyWord, AppendPersistData,
       AppendCount
  <2>3. QED
    BY <1>7, <1>9, <2>1, <2>2 DEF Step
<1>10. CASE Close \/ Crash \/ Fault \/ PowerFailure
  <2>1. PICK m \in [Addresses -> Nat], n \in 0 .. Len(log) : Stop(m, n)
    BY <1>10, Ends
  <2>2. pc'[u] = "idle"
    BY <2>1 DEF Stop
  <2>3. QED
    BY <1>2, <2>2 DEF Appending
<1>11. QED
  BY <1>3, <1>4, <1>5, <1>6, <1>8, <1>9, <1>10 DEF Next, Recover, Step

-----------------------------------------------------------------------------
(* hash_map and _end_off                                                   *)

\* What hash_map knows of n records depends on those records only.
LEMMA PointsKept ==
    ASSUME NEW k \in Keys, NEW n \in Nat, PointsTo(k, n), hash_map'[k] = hash_map[k],
           \A i \in 1 .. n : log'[i] = log[i]
    PROVE  PointsTo(k, n)'
<1>1. ASSUME hash_map[k] = NoSlice, \A i \in 1 .. n : log[i].key # k
      PROVE  PointsTo(k, n)'
  BY <1>1 DEF PointsTo
<1>2. ASSUME NEW i \in 1 .. n, log[i].key = k, hash_map[k] = ValueSlice(log[i]),
             \A j \in i + 1 .. n : log[j].key # k
      PROVE  PointsTo(k, n)'
  <2>1. \A j \in i + 1 .. n : j \in 1 .. n
    OBVIOUS
  <2>2. \A j \in i + 1 .. n : log'[j].key # k
    BY <1>2, <2>1
  <2>3. log'[i].key = k /\ hash_map'[k] = ValueSlice(log'[i])
    BY <1>2
  <2>4. QED
    BY <2>2, <2>3 DEF PointsTo, ValueSlice, ValueAt
<1>3. QED
  BY <1>1, <1>2 DEF PointsTo

\* Record n + 1 entered, hash_map knows one record more.
LEMMA PointsExtended ==
    ASSUME Types, NEW k \in Keys, NEW n \in Nat, PointsTo(k, n), log' = log,
           NEW r \in Records, r = log[n + 1],
           hash_map' = [hash_map EXCEPT ![r.key] = ValueSlice(r)]
    PROVE  PointsTo(k, n + 1)'
<1>1. hash_map \in [Keys -> Slices \cup {NoSlice}]
  BY DEF Types
<1>2. CASE k = r.key
  <2>1. hash_map'[k] = ValueSlice(r)
    BY <1>1, <1>2
  <2>2. n + 1 \in 1 .. n + 1 /\ n + 1 + 1 .. n + 1 = {}
    OBVIOUS
  <2>3. QED
    BY <1>2, <2>1, <2>2 DEF PointsTo, ValueSlice, ValueAt
<1>3. CASE k # r.key
  <2>1. hash_map'[k] = hash_map[k]
    BY <1>1, <1>3
  <2>2. PointsTo(k, n)'
    BY <2>1, PointsKept
  <2>3. log'[n + 1].key # k
    BY <1>3
  <2>4. ASSUME hash_map'[k] = NoSlice, \A i \in 1 .. n : log'[i].key # k
        PROVE  PointsTo(k, n + 1)'
    <3>1. \A i \in 1 .. n + 1 : i \in 1 .. n \/ i = n + 1
      OBVIOUS
    <3>2. QED
      BY <2>3, <2>4, <3>1 DEF PointsTo
  <2>5. ASSUME NEW i \in 1 .. n, log'[i].key = k, hash_map'[k] = ValueSlice(log[i])',
               \A j \in i + 1 .. n : log'[j].key # k
        PROVE  PointsTo(k, n + 1)'
    <3>1. \A j \in i + 1 .. n + 1 : j \in i + 1 .. n \/ j = n + 1
      OBVIOUS
    <3>2. \A j \in i + 1 .. n + 1 : log'[j].key # k
      BY <2>3, <2>5, <3>1
    <3>3. i \in 1 .. n + 1
      OBVIOUS
    <3>4. QED
      BY <2>5, <3>2, <3>3 DEF PointsTo, ValueSlice, ValueAt
  <2>6. QED
    BY <2>2, <2>4, <2>5 DEF PointsTo, ValueSlice, ValueAt
<1>4. QED
  BY <1>2, <1>3

\* MapKey enters the last record of the log.
LEMMA MapsLast ==
    ASSUME Inv, NEW t \in Threads, MapKey(t)
    PROVE  /\ Len(log) \in 1 .. Len(log) /\ log[Len(log)] \in Records
           /\ hash_map' = [hash_map EXCEPT ![log[Len(log)].key] = ValueSlice(log[Len(log)])]
<1>1. /\ Types /\ LogInv /\ ThreadsInv /\ AppendOK(t) /\ pc[t] = "map" /\ Chained /\ Growing
      /\ RecordsIn(mem)
  BY DEF Inv, MapKey, AppendInv, LogInv, Counted
<1>2. Len(log) \in 1 .. Len(log)
  <2>1. Len(log) \in Nat /\ Len(log) > 0
    BY <1>1, LogType DEF AppendOK
  <2>2. QED
    BY <2>1
<1>3. PICK r \in Records : r = log[Len(log)]
  BY <1>1, <1>2, RecordPlace
<1>4. Holds(mem, r.at, r.key) /\ r.at \in Nat /\ r.key \in Keys
  BY <1>1, <1>2, <1>3, RecordType DEF RecordsIn
<1>5. Content([off |-> r.at + 1, len |-> Len(r.key)]) = r.key
  BY <1>1, <1>4, ContentHeld
<1>6. nvm_key = [off |-> r.at + 1, len |-> Len(r.key)] /\ nvm_val = ValueSlice(r)
  BY <1>1, <1>3 DEF AppendOK
<1>7. hash_map' = [hash_map EXCEPT ![r.key] = ValueSlice(r)]
  BY <1>5, <1>6 DEF MapKey
<1>8. QED
  BY <1>2, <1>3, <1>7

\* hash_map goes on pointing at the latest records.
LEMMA MapStep ==
    ASSUME Inv, [Next]_vars
    PROVE  MapInv'
<1>1. Types /\ LogInv /\ ThreadsInv /\ AppendInv /\ MapInv /\ EndInv /\ Len(log) \in Nat
  BY LogType DEF Inv
<1>2. ASSUME mode' = mode, current' = current, hash_map' = hash_map, log' = log,
             \A u \in Threads : pc'[u] = "map" <=> pc[u] = "map"
      PROVE  MapInv'
  BY <1>1, <1>2 DEF MapInv, PointsTo, ValueSlice, ValueAt
<1>3. CASE Open
  <2>1. /\ mode' = "recovering" /\ current' = 0
        /\ \A k \in Keys : hash_map'[k] = NoSlice
    BY <1>1, <1>3 DEF Open, MapInv
  <2>2. QED
    BY <2>1 DEF MapInv, PointsTo
<1>4. CASE RecoverNext
  <2>1. /\ mode' = "recovering" /\ mode = "recovering" /\ log' = log
        /\ current' = current + 1 /\ current \in Nat
    BY <1>1, <1>4 DEF RecoverNext, history, Types
  <2>2. PICK r \in Records : r = log[current + 1]
    BY <1>4, RecoveryReads
  <2>3. hash_map' = [hash_map EXCEPT ![r.key] = ValueSlice(r)]
    BY <1>4, <2>2, RecoveryReads
  <2>4. PICK n \in Nat : n = current
    BY <2>1
  <2>5. ASSUME NEW k \in Keys
        PROVE  PointsTo(k, current)'
    <3>1. PointsTo(k, n)
      BY <1>1, <2>1, <2>4 DEF MapInv
    <3>2. PointsTo(k, n + 1)'
      BY <1>1, <2>1, <2>2, <2>3, <2>4, <3>1, PointsExtended
    <3>3. QED
      BY <2>1, <2>4, <3>2 DEF PointsTo
  <2>6. QED
    BY <2>1, <2>5 DEF MapInv
<1>5. CASE RecoveryDone
  <2>1. /\ mode = "recovering" /\ mode' = "open" /\ current = Len(log)
        /\ hash_map' = hash_map /\ log' = log /\ pc' = pc
    BY <1>1, <1>5 DEF RecoveryDone, Recovered, EndInv, history
  <2>2. ~\E t \in Threads : pc'[t] = "map"
    BY <1>1, <2>1, OneHolder
  <2>3. \A k \in Keys : PointsTo(k, Len(log))
    BY <1>1, <2>1 DEF MapInv
  <2>4. QED
    BY <2>1, <2>2, <2>3 DEF MapInv, PointsTo, ValueSlice, ValueAt
<1>6. ASSUME NEW t \in Threads, NEW k, NEW v, NEW o, Call(t, o, k, v)
      PROVE  MapInv'
  BY <1>1, <1>2, <1>6 DEF Call, Types, recovery, history
<1>7. ASSUME NEW t \in Threads, Lock(t) \/ Read(t) \/ Return(t)
      PROVE  MapInv'
  BY <1>1, <1>2, <1>7 DEF Lock, Read, Return, CallEnds, Types, recovery, history
<1>8. ASSUME NEW t \in Threads, StoreSize(t) \/ PersistSize(t) \/ CopyWord(t) \/ PersistData(t)
      PROVE  MapInv'
  BY <1>1, <1>2, <1>8 DEF StoreSize, PersistSize, CopyWord, PersistData, Types, recovery, history
<1>9. ASSUME NEW t \in Threads, Count(t)
      PROVE  MapInv'
  <2>1. pc[t] = "count" /\ mode' = mode /\ hash_map' = hash_map /\ pc'[t] = "map"
    BY <1>1, <1>9 DEF Count, Types
  <2>2. mode = "open" /\ \A u \in Threads : pc[u] # "map"
    BY <1>1, <2>1, OneHolder DEF Holding, Appending
  <2>3. Len(log') - 1 = Len(log) /\ \A i \in 1 .. Len(log) : log'[i] = log[i]
    <3>1. Len(log') = Len(log) + 1 /\ \A i \in 1 .. Len(log) : log'[i] = log[i]
      BY <1>9, LogCounts
    <3>2. Len(log') - 1 = Len(log)
      BY <1>1, <3>1
    <3>3. QED
      BY <3>1, <3>2
  <2>4. PICK n \in Nat : n = Len(log)
    BY <1>1
  <2>5. \A k \in Keys : PointsTo(k, n)
    BY <1>1, <2>2, <2>4 DEF MapInv
  <2>6. \A k \in Keys : PointsTo(k, n)'
    BY <2>1, <2>3, <2>4, <2>5, PointsKept
  <2>7. \A k \in Keys : PointsTo(k, Len(log) - 1)'
    BY <2>3, <2>4, <2>6 DEF PointsTo
  <2>8. QED
    BY <2>1, <2>2, <2>7 DEF MapInv
<1>10. ASSUME NEW t \in Threads, MapKey(t)
       PROVE  MapInv'
  <2>1. /\ pc[t] = "map" /\ mode' = mode /\ log' = log /\ pc' = [pc EXCEPT ![t] = "idle"]
    BY <1>10 DEF MapKey, CallEnds
  <2>2. mode = "open" /\ \A u \in Threads \ {t} : pc[u] # "map"
    BY <1>1, <2>1, OneHolder DEF Holding, Appending
  <2>3. \A u \in Threads : pc'[u] # "map"
    BY <1>1, <2>1, <2>2 DEF Types
  <2>4. PICK n \in Nat : n = Len(log) - 1
    BY <1>1, <1>10, MapsLast
  <2>5. n + 1 = Len(log)
    BY <1>1, <2>4
  <2>6. PICK r \in Records : r = log[n + 1]
    BY <1>10, <2>5, MapsLast
  <2>7. hash_map' = [hash_map EXCEPT ![r.key] = ValueSlice(r)]
    BY <1>10, <2>5, <2>6, MapsLast
  <2>8. ASSUME NEW k \in Keys
        PROVE  PointsTo(k, Len(log))'
    <3>1. PointsTo(k, n)
      BY <1>1, <2>1, <2>2, <2>4 DEF MapInv
    <3>2. PointsTo(k, n + 1)'
      BY <1>1, <2>1, <2>6, <2>7, <3>1, PointsExtended
    <3>3. QED
      BY <2>1, <2>5, <3>2 DEF PointsTo
  <2>9. QED
    BY <2>1, <2>2, <2>3, <2>8 DEF MapInv
<1>11. CASE WriteBack \/ UNCHANGED vars
  BY <1>1, <1>2, <1>11 DEF WriteBack, vars, recovery, history
<1>12. CASE Close \/ Crash \/ Fault \/ PowerFailure
  <2>1. PICK m \in [Addresses -> Nat], n \in 0 .. Len(log) : Stop(m, n)
    BY <1>12, Ends
  <2>2. mode' = "down" /\ \A k \in Keys : hash_map'[k] = NoSlice
    BY <2>1 DEF Stop
  <2>3. QED
    BY <2>2 DEF MapInv
<1>13. QED
  BY <1>3, <1>4, <1>5, <1>6, <1>7, <1>8, <1>9, <1>10, <1>11, <1>12 DEF Next, Recover, Step

\* _end_off stands where it should, apart from Append.
LEMMA EndStep ==
    ASSUME Inv, [Next]_vars
    PROVE  EndInv'
<1>1. Types /\ LogInv /\ ThreadsInv /\ AppendInv /\ EndInv /\ Len(log) \in Nat
  BY LogType DEF Inv
<1>2. ASSUME mode' = mode, sequence' = sequence, current' = current, end_off' = end_off,
             part' = part, log' = log,
             \A u \in Threads : pc'[u] \in Appending \ {"map"} <=> pc[u] \in Appending \ {"map"},
             \A u \in Threads : pc'[u] \in Appending <=> pc[u] \in Appending
      PROVE  EndInv'
  BY <1>1, <1>2 DEF EndInv, EndOfLog, EndOf, Base
<1>3. ASSUME NEW t \in Threads, pc'[t] \in Appending \ {"map"}, mode' = "open"
      PROVE  EndInv'
  BY <1>3 DEF EndInv
<1>4. CASE Open
  <2>1. /\ mode' = "recovering" /\ sequence' = mem[0] /\ current' = 0 /\ end_off' = 1
        /\ pc' = pc /\ part' = part /\ log' = log
    BY <1>4 DEF Open, append, history
  <2>2. mem[0] = Len(log) /\ 0 <= Len(log)
    BY <1>1 DEF LogInv, Counted
  <2>3. EndOfLog(0)' = 1
    BY DEF EndOfLog
  <2>4. QED
    BY <1>1, <2>1, <2>2, <2>3 DEF EndInv, EndOfLog
<1>5. CASE RecoverNext
  <2>1. /\ mode' = "recovering" /\ mode = "recovering" /\ log' = log /\ sequence' = sequence
        /\ pc' = pc /\ part' = part
        /\ current' = current + 1 /\ current < sequence /\ current \in Nat
    BY <1>1, <1>5 DEF RecoverNext, history, append, Types
  <2>2. sequence = Len(log)
    BY <1>1, <2>1 DEF EndInv
  <2>3. current' <= sequence /\ current' # 0
    BY <1>1, <2>1, <2>2
  <2>4. end_off' = EndOf(log[current + 1])
    BY <1>5, RecoveryReads
  <2>5. end_off' = EndOfLog(current)'
    BY <2>1, <2>3, <2>4 DEF EndOfLog, EndOf
  <2>6. QED
    BY <1>1, <2>1, <2>2, <2>3, <2>5 DEF EndInv
<1>6. CASE RecoveryDone
  <2>1. /\ mode = "recovering" /\ mode' = "open" /\ current = Len(log)
        /\ end_off = EndOfLog(Len(log))
        /\ end_off' = end_off /\ part' = part /\ log' = log /\ pc' = pc
    BY <1>1, <1>6 DEF RecoveryDone, Recovered, EndInv, history, append
  <2>2. end_off' = Base'
    BY <2>1 DEF Base, EndOfLog
  <2>3. QED
    BY <1>1, <2>1, <2>2 DEF EndInv
<1>7. ASSUME NEW t \in Threads,
             (\E k, v, o : Call(t, o, k, v)) \/ Read(t) \/ Return(t)
      PROVE  EndInv'
  <2>1. \A u \in Threads : pc'[u] = pc[u] \/ {pc[u], pc'[u]} \cap Appending = {}
    BY <1>1, <1>7 DEF Call, Read, Return, CallEnds, Types, Appending
  <2>2. /\ mode' = mode /\ sequence' = sequence /\ current' = current /\ end_off' = end_off
        /\ part' = part /\ log' = log
    BY <1>7 DEF Call, Read, Return, recovery, append, history
  <2>3. QED
    BY <1>2, <2>1, <2>2
<1>8. ASSUME NEW t \in Threads, Lock(t)
      PROVE  EndInv'
  <2>1. /\ mut = NoOwner /\ pc[t] = "lock" /\ pc'[t] \in {"read", "size"}
        /\ \A u \in Threads \ {t} : pc'[u] = pc[u]
        /\ mode' = mode /\ sequence' = sequence /\ current' = current /\ end_off' = end_off
        /\ part' = part /\ log' = log
    BY <1>1, <1>8 DEF Lock, LockGuard, recovery, append, history, Types
  <2>2. mode = "open"
    BY <1>1, <2>1, OneHolder
  <2>3. CASE pc'[t] = "size"
    BY <1>3, <2>1, <2>2, <2>3 DEF Appending
  <2>4. CASE pc'[t] = "read"
    <3>1. \A u \in Threads : pc[u] \notin Appending /\ pc'[u] \notin Appending
      BY <1>1, <2>1, <2>4, OneHolder DEF Holding, Appending
    <3>2. QED
      BY <1>2, <2>1, <3>1
  <2>5. QED
    BY <2>1, <2>3, <2>4
<1>9. ASSUME NEW t \in Threads, StoreSize(t) \/ PersistSize(t) \/ CopyWord(t) \/ PersistData(t)
      PROVE  EndInv'
  <2>1. pc'[t] \in {"persistSize", "copy", "size", "count"} /\ mode' = mode /\ pc[t] # "idle"
    BY <1>1, <1>9 DEF StoreSize, PersistSize, CopyWord, PersistData, Types
  <2>2. mode = "open"
    BY <1>1, <2>1, OneHolder
  <2>3. QED
    BY <1>3, <2>1, <2>2 DEF Appending
<1>10. ASSUME NEW t \in Threads, Count(t)
       PROVE  EndInv'
  <2>1. pc[t] = "count" /\ mode' = mode /\ end_off' = end_off /\ pc'[t] = "map"
    BY <1>1, <1>10 DEF Count, Types
  <2>2. mode = "open"
    BY <1>1, <2>1, OneHolder
  <2>3. end_off = Base + 2 + Len(key[t]) + Len(value[t])
    BY <1>1, <2>1 DEF AppendInv, AppendOK
  <2>4. end_off' = Base'
    BY <1>10, <2>1, <2>3, LogCounts
  <2>5. QED
    BY <2>1, <2>2, <2>4 DEF EndInv, Appending
<1>11. ASSUME NEW t \in Threads, MapKey(t)
       PROVE  EndInv'
  <2>1. /\ pc[t] = "map" /\ mode' = mode /\ end_off' = end_off /\ part' = "key" /\ log' = log
    BY <1>11 DEF MapKey, NoAppend
  <2>2. mode = "open" /\ \A u \in Threads \ {t} : pc[u] \notin Holding
    BY <1>1, <2>1, OneHolder DEF Holding, Appending
  <2>3. \A u \in Threads : pc[u] \notin Appending \ {"map"}
    BY <2>1, <2>2 DEF Holding
  <2>4. end_off = Base
    BY <1>1, <2>2, <2>3 DEF EndInv
  <2>5. Base' = Base
    BY <2>1 DEF Base, EndOfLog
  <2>6. QED
    BY <2>1, <2>2, <2>4, <2>5 DEF EndInv
<1>12. CASE WriteBack \/ UNCHANGED vars
  BY <1>1, <1>2, <1>12 DEF WriteBack, vars, recovery, append, history
<1>13. CASE Close \/ Crash \/ Fault \/ PowerFailure
  <2>1. PICK m \in [Addresses -> Nat], n \in 0 .. Len(log) : Stop(m, n)
    BY <1>13, Ends
  <2>2. mode' = "down" /\ part' = "key"
    BY <2>1 DEF Stop, NoAppend
  <2>3. QED
    BY <2>2 DEF EndInv
<1>14. QED
  BY <1>4, <1>5, <1>6, <1>7, <1>8, <1>9, <1>10, <1>11, <1>12, <1>13 DEF Next, Recover, Step

-----------------------------------------------------------------------------
(* The theorems                                                            *)

LEMMA InvInit ==
    ASSUME Init
    PROVE  Inv
<1>1. Types
  <2>1. <<>> \in Seq([key : Keys, value : Values, at : Nat])
    BY EmptySeq
  <2>2. 0 \in 0 .. Capacity /\ NullSlice \in Slices
    BY CapacityAssumption DEF NullSlice, Slices
  <2>3. QED
    BY <2>1, <2>2 DEF Init, Types
<1>2. Len(log) = 0 /\ Base = 1 /\ 0 \in Addresses
  BY CapacityAssumption DEF Init, Base, EndOfLog, Addresses
<1>3. LogInv
  BY <1>2 DEF Init, LogInv, Chained, Growing, Counted, Durable, Agrees, RecordsIn
<1>4. ThreadsInv
  BY NoValuesAssumption DEF Init, ThreadsInv, ThreadOK, Holding, Appending
<1>5. AppendInv
  BY DEF Init, AppendInv, AppendOK
<1>6. MapInv /\ EndInv
  BY DEF Init, MapInv, EndInv
<1>7. QED
  BY <1>1, <1>3, <1>4, <1>5, <1>6 DEF Inv

LEMMA InvStep ==
    ASSUME Inv, [Next]_vars
    PROVE  Inv'
  BY TypeStep, LogStep, ThreadsStep, AppendStep, MapStep, EndStep DEF Inv

LEMMA Invariant == Spec => []Inv
<1>1. Init => Inv
  BY InvInit
<1>2. Inv /\ [Next]_vars => Inv'
  BY InvStep
<1>3. QED
  BY <1>1, <1>2, PTL DEF Spec

\* What Append has pushed back lies in the mapping.
Pushing == InMapping(nvm_key) /\ InMapping(nvm_val)

LEMMA PushingStep ==
    ASSUME Inv, Types', Pushing, [Next]_vars
    PROVE  Pushing'
<1>1. InMapping(NullSlice) /\ Types
  BY CapacityAssumption DEF InMapping, NullSlice, Inv
<1>2. CASE nvm_key' = nvm_key /\ nvm_val' = nvm_val
  BY <1>2 DEF Pushing, InMapping
<1>3. CASE nvm_key' = NullSlice /\ nvm_val' = NullSlice
  BY <1>1, <1>3 DEF Pushing, InMapping
<1>4. ASSUME NEW t \in Threads, PersistData(t)
      PROVE  Pushing'
  <2> DEFINE size == Len(Pushed(t))
             ret == [off |-> end_off + 1, len |-> size]
  <2>1. \/ nvm_key' = ret /\ nvm_val' = nvm_val
        \/ nvm_key' = nvm_key /\ nvm_val' = ret
    BY <1>4 DEF PersistData
  <2>2. end_off' = end_off + 1 + size /\ end_off' \in 0 .. Capacity
    BY <1>4 DEF PersistData, NextOffset, Types
  <2>3. ret.off + ret.len <= Capacity
    BY <2>2
  <2> HIDE DEF ret
  <2>4. QED
    BY <2>1, <2>3 DEF Pushing, InMapping
<1>5. ASSUME NEW t \in Threads, Step(t), ~PersistData(t)
      PROVE  \/ nvm_key' = nvm_key /\ nvm_val' = nvm_val
             \/ nvm_key' = NullSlice /\ nvm_val' = NullSlice
  BY <1>5 DEF Step, Lock, Read, StoreSize, PersistSize, CopyWord, Count, MapKey, NoAppend,
              Return, append
<1>6. CASE Close \/ Crash \/ Fault \/ PowerFailure
  BY <1>3, <1>6 DEF Close, Crash, Fault, PowerFailure, ProcessEnds, Stop, NoAppend
<1>7. CASE Open \/ Recover \/ WriteBack \/ UNCHANGED vars
  BY <1>2, <1>7 DEF Open, Recover, RecoverNext, RecoveryDone, WriteBack, vars, append
<1>8. ASSUME NEW t \in Threads, NEW o, NEW k, NEW v, Call(t, o, k, v)
      PROVE  Pushing'
  BY <1>2, <1>8 DEF Call, append
<1>9. QED
  BY <1>2, <1>3, <1>4, <1>5, <1>6, <1>7, <1>8 DEF Next

\* What hash_map points at is in the log.
LEMMA PointsInside ==
    ASSUME Inv, NEW k \in Keys, hash_map[k] # NoSlice
    PROVE  InMapping(hash_map[k])
<1>1. PICK n \in Int : n <= Len(log) /\ PointsTo(k, n)
  <2>1. Len(log) \in Nat /\ current \in Nat
    BY LogType DEF Inv, Types
  <2>2. CASE mode = "recovering"
    BY <2>1, <2>2 DEF Inv, MapInv, EndInv
  <2>3. CASE mode = "open"
    <3>1. \E n \in {Len(log) - 1, Len(log)} : PointsTo(k, n)
      BY <2>3 DEF Inv, MapInv
    <3>2. QED
      BY <2>1, <3>1
  <2>4. CASE mode = "down"
    BY <2>4 DEF Inv, MapInv
  <2>5. QED
    BY <2>2, <2>3, <2>4 DEF Inv, Types
<1>2. PICK i \in 1 .. n : hash_map[k] = ValueSlice(log[i])
  BY <1>1 DEF PointsTo
<1>3. i \in 1 .. Len(log)
  BY <1>1, <1>2, LogType DEF Inv
<1>4. PICK r \in Records : r = log[i] /\ EndOf(r) <= Base
  BY <1>3, RecordPlace DEF Inv, LogInv
<1>5. ValueSlice(r).off + ValueSlice(r).len = EndOf(r)
  BY <1>4, RecordType DEF ValueSlice
<1>6. Base \in Nat /\ Base <= Capacity /\ EndOf(r) \in Nat
  BY <1>4, BaseFits, RecordType DEF Inv
<1>7. QED
  BY <1>2, <1>4, <1>5, <1>6, CapacityAssumption DEF InMapping

\* Every variable of the log, its index and its callers has its type, and no
\* load of Recovery or Get leaves the mapping, whatever ended the process before.
THEOREM TypeCorrect == Spec => []TypeOK
<1>1. Init => Inv /\ Pushing
  BY InvInit, CapacityAssumption DEF Init, Pushing, InMapping, NullSlice
<1>2. Inv /\ Pushing /\ [Next]_vars => (Inv /\ Pushing)'
  BY InvStep, PushingStep DEF Inv
<1>3. Inv /\ Pushing => TypeOK
  <2> SUFFICES ASSUME Inv, Pushing PROVE Types /\ SlicesInside
    BY DEF TypeOK
  <2>1. ASSUME mode = "recovering", current < sequence
        PROVE  InMapping(SliceAt(SliceAt(end_off).off + SliceAt(end_off).len))
    BY <2>1, NextInside
  <2>2. QED
    BY <2>1, PointsInside DEF Inv, Pushing, SlicesInside
<1>4. QED
  BY <1>1, <1>2, <1>3, PTL DEF Spec

\* Append leaves no gap and no overlap, and Recovery follows the records.
THEOREM RecordsTiled == Spec => []Tiled
<1>1. ASSUME Inv
      PROVE  Tiled
  <2>1. Types /\ ThreadsInv /\ Chained /\ EndInv
    BY <1>1 DEF Inv, LogInv
  <2>2. mode = "open" /\ mut = NoOwner => end_off = EndOfLog(Len(log))
    <3>1. mut = NoOwner => \A u \in Threads : pc[u] \notin Appending
      BY <2>1, OneHolder DEF ThreadsInv, ThreadOK, Holding, Appending, Types
    <3>2. QED
      BY <2>1, <3>1 DEF EndInv, Base
  <2>3. QED
    BY <2>1, <2>2 DEF Tiled, Chained, EndInv
<1>2. QED
  BY <1>1, Invariant, PTL

\* The count is the number of whole records in the mapping, always.
THEOREM CountIsTrue == Spec => []Counted
<1>1. Inv => Counted
  BY DEF Inv, LogInv
<1>2. QED
  BY <1>1, Invariant, PTL

\* The count on the media never runs ahead of the records there.
THEOREM RecordsDurable == Spec => []Durable
<1>1. Inv => Durable
  BY DEF Inv, LogInv
<1>2. QED
  BY <1>1, Invariant, PTL

\* hash_map points at the latest record of every key.
THEOREM MapIndexes == Spec => []Indexed
<1>1. ASSUME Inv
      PROVE  Indexed
  <2>1. Types /\ ThreadsInv /\ MapInv
    BY <1>1 DEF Inv
  <2>2. mut = NoOwner => ~\E u \in Threads : pc[u] = "map"
    BY <2>1, NoValuesAssumption DEF ThreadsInv, ThreadOK, Holding, Appending
  <2>3. QED
    BY <2>1, <2>2 DEF Indexed, MapInv
<1>2. QED
  BY <1>1, Invariant, PTL

\* No word of a counted record changes while it is counted.
THEOREM LogAppendOnly == Spec => AppendOnly
<1> DEFINE Kept == \A a \in 1 .. EndOfLog(Len(log)) - 1 :
                       Len(log') >= Len(log) => mem'[a] = mem[a]
<1>1. ASSUME Inv, [Next]_vars
      PROVE  [Kept]_vars
  <2>1. /\ Types /\ LogInv /\ ThreadsInv /\ AppendInv
        /\ Base \in Nat /\ 1 <= Base /\ Base <= Capacity /\ Len(log) \in Nat
        /\ mem \in [Addresses -> Nat]
    BY <1>1, BaseFits, LogType DEF Inv, Types
  <2>2. \A a \in 1 .. Base - 1 : a \in Addresses /\ a # 0
    BY <2>1, CapacityAssumption DEF Addresses
  <2>3. ASSUME NEW a, NEW w, a = 0 \/ (a \in Nat /\ Base <= a),
               mem' = [mem EXCEPT ![a] = w]
        PROVE  Kept
    <3>1. \A b \in 1 .. Base - 1 : b # a
      BY <2>1, <2>3
    <3>2. QED
      BY <2>1, <2>2, <2>3, <3>1 DEF Base
  <2>4. ASSUME NEW t \in Threads, StoreSize(t)
        PROVE  Kept
    <3>1. end_off \in Nat /\ Base <= end_off
      BY <2>1, <2>4, Behind DEF StoreSize
    <3>2. QED
      BY <2>3, <2>4, <3>1 DEF StoreSize, StoreWord
  <2>5. ASSUME NEW t \in Threads, CopyWord(t)
        PROVE  Kept
    <3>1. end_off \in Nat /\ Base <= end_off /\ copied \in Nat
      BY <2>1, <2>5, Behind DEF CopyWord, Types
    <3>2. end_off + 1 + copied \in Nat /\ Base <= end_off + 1 + copied
      BY <2>1, <3>1
    <3>3. QED
      BY <2>3, <2>5, <3>2 DEF CopyWord, StoreWord
  <2>6. ASSUME NEW t \in Threads, Count(t)
        PROVE  Kept
    <3>1. mem' = [mem EXCEPT ![0] = mem[0] + 1]
      BY <2>6 DEF Count
    <3>2. QED
      BY <2>3, <3>1
  <2>7. CASE Close \/ Crash \/ Fault \/ PowerFailure
    <3>1. PICK m \in [Addresses -> Nat], n \in 0 .. Len(log) :
              /\ Stop(m, n)
              /\ UseLibpmem => m = media \/ m = mem
              /\ ~UseLibpmem => n = 0
      BY <1>1, <2>7, Ends
    <3>2. mem' = m /\ log' = SubSeq(log, 1, n)
      BY <3>1 DEF Stop
    <3>3. CASE UseLibpmem
      <4>1. \A a \in 1 .. Base - 1 : m[a] = mem[a]
        BY <2>1, <3>1, <3>3 DEF LogInv, Agrees
      <4>2. QED
        BY <3>2, <4>1 DEF Base
    <3>4. CASE ~UseLibpmem
      <4>1. Len(log') = 0
        BY <3>1, <3>2, <3>4, SubSeqEmpty, EmptySeq
      <4>2. Len(log') >= Len(log) => Base = 1
        BY <2>1, <4>1 DEF Base, EndOfLog
      <4>3. QED
        BY <4>2 DEF Base
    <3>5. QED
      BY <3>3, <3>4
  <2>8. CASE mem' = mem
    BY <2>8
  <2>9. CASE UNCHANGED vars
    BY <2>9
  <2>10. ASSUME NEW t \in Threads,
                \/ \E k \in Keys : Call(t, "get", k, <<>>)
                \/ \E k \in Keys, v \in Values : Call(t, "set", k, v)
                \/ Lock(t) \/ Read(t) \/ PersistSize(t) \/ PersistData(t) \/ MapKey(t) \/ Return(t)
         PROVE  mem' = mem
    BY <2>10 DEF Call, Lock, Read, PersistSize, PersistData, MapKey, Return, pmem
  <2>11. Open \/ RecoverNext \/ RecoveryDone \/ WriteBack => mem' = mem
    BY DEF Open, RecoverNext, RecoveryDone, WriteBack, pmem
  <2> HIDE DEF Kept
  <2>12. QED
    BY <1>1, <2>4, <2>5, <2>6, <2>7, <2>8, <2>9, <2>10, <2>11 DEF Next, Recover, Step
<1>2. QED
  BY <1>1, Invariant, PTL DEF AppendOnly, Spec

-----------------------------------------------------------------------------
(* NvmExample implements DurableKV                                         *)

\* The store and the effects of calls, as DurableKV sees them.
Sets == [i \in 1 .. Len(log) |-> [key |-> log[i].key, value |-> log[i].value]]
Effects == [t \in Threads |-> pc[t] \in {"map", "ret"}]

\* A Set of the store.
SetsOf == [key : Keys, value : Values]

LEMMA SetsIn ==
    ASSUME NEW l \in Seq(Records)
    PROVE  LET s == [i \in 1 .. Len(l) |-> [key |-> l[i].key, value |-> l[i].value]] IN
           /\ s \in Seq(SetsOf)
           /\ Len(s) = Len(l) /\ DOMAIN s = 1 .. Len(l)
           /\ \A i \in 1 .. Len(l) : s[i] = [key |-> l[i].key, value |-> l[i].value]
<1> DEFINE s == [i \in 1 .. Len(l) |-> [key |-> l[i].key, value |-> l[i].value]]
<1>1. Len(l) \in Nat /\ \A i \in 1 .. Len(l) : l[i] \in Records
  BY LenProperties, ElementOfSeq
<1>2. \A i \in 1 .. Len(l) : [key |-> l[i].key, value |-> l[i].value] \in SetsOf
  BY <1>1 DEF Records, SetsOf
<1>3. s \in [1 .. Len(l) -> SetsOf]
  BY <1>2
<1>4. DOMAIN s = 1 .. Len(l)
  OBVIOUS
<1>5. \A i \in 1 .. Len(l) : s[i] = [key |-> l[i].key, value |-> l[i].value]
  OBVIOUS
<1> HIDE DEF s
<1>6. s \in Seq(SetsOf)
  BY <1>1, <1>3
<1>7. DOMAIN s = 1 .. Len(s) /\ Len(s) \in Nat
  BY <1>6, LenProperties
<1>8. Len(s) = Len(l)
  BY <1>1, <1>4, <1>7
<1>9. QED
  BY <1>4, <1>5, <1>6, <1>8 DEF s

LEMMA SetsType ==
    /\ Types => /\ Sets \in Seq(SetsOf)
                 /\ Len(Sets) = Len(log) /\ DOMAIN Sets = 1 .. Len(log)
                 /\ \A i \in 1 .. Len(log) :
                        Sets[i] = [key |-> log[i].key, value |-> log[i].value]
    /\ Types' => /\ Sets' \in Seq(SetsOf)
                  /\ Len(Sets') = Len(log') /\ DOMAIN Sets' = 1 .. Len(log')
                  /\ \A i \in 1 .. Len(log') :
                         Sets'[i] = [key |-> log'[i].key, value |-> log'[i].value]
<1>1. ASSUME Types
      PROVE  /\ Sets \in Seq(SetsOf)
             /\ Len(Sets) = Len(log) /\ DOMAIN Sets = 1 .. Len(log)
             /\ \A i \in 1 .. Len(log) : Sets[i] = [key |-> log[i].key, value |-> log[i].value]
  <2>1. log \in Seq(Records)
    BY <1>1 DEF Types, Records
  <2>2. QED
    BY <2>1, SetsIn DEF Sets
<1>2. ASSUME Types'
      PROVE  /\ Sets' \in Seq(SetsOf)
             /\ Len(Sets') = Len(log') /\ DOMAIN Sets' = 1 .. Len(log')
             /\ \A i \in 1 .. Len(log') :
                    Sets'[i] = [key |-> log'[i].key, value |-> log'[i].value]
  <2>1. log' \in Seq(Records)
    BY <1>2 DEF Types, Records
  <2>2. QED
    BY <2>1, SetsIn DEF Sets
<1>3. QED
  BY <1>1, <1>2

\* What Read finds is the value of the latest record.
LEMMA ReadsLatest ==
    ASSUME Inv, NEW t \in Threads, Read(t)
    PROVE  answer' = [answer EXCEPT ![t] = Store!Latest(Sets, key[t])]
<1>1. /\ Types /\ LogInv /\ ThreadsInv /\ MapInv /\ pc[t] = "read" /\ Chained /\ Growing
      /\ RecordsIn(mem) /\ Len(log) \in Nat
  BY LogType DEF Inv, Read, LogInv, Counted
<1>2. mode = "open" /\ \A u \in Threads : pc[u] # "map"
  BY <1>1, OneHolder DEF Holding, Appending
<1>3. PICK k \in Keys : k = key[t]
  BY <1>1 DEF ThreadsInv, ThreadOK
<1>4. PointsTo(k, Len(log))
  BY <1>1, <1>2 DEF MapInv
<1> DEFINE found == IF hash_map[k] = NoSlice THEN NotFound ELSE Content(hash_map[k])
           sets == {i \in DOMAIN Sets : Sets[i].key = k}
           last == CHOOSE i \in sets : \A j \in sets : j <= i
<1>5. Store!Latest(Sets, k) = IF sets = {} THEN NotFound ELSE Sets[last].value
  BY DEF Store!Latest
<1>6. sets = {i \in 1 .. Len(log) : log[i].key = k}
  BY <1>1, SetsType
<1>7. ASSUME hash_map[k] = NoSlice, \A i \in 1 .. Len(log) : log[i].key # k
      PROVE  found = Store!Latest(Sets, k)
  <2>1. sets = {}
    BY <1>6, <1>7
  <2> HIDE DEF sets
  <2>2. QED
    BY <1>5, <1>7, <2>1
<1>8. ASSUME NEW i \in 1 .. Len(log), log[i].key = k, hash_map[k] = ValueSlice(log[i]),
             \A j \in i + 1 .. Len(log) : log[j].key # k
      PROVE  found = Store!Latest(Sets, k)
  <2>1. i \in sets /\ \A j \in sets : j <= i
    <3>1. \A j \in 1 .. Len(log) : j <= i \/ j \in i + 1 .. Len(log)
      BY <1>1
    <3>2. QED
      BY <1>6, <1>8, <3>1
  <2>2. sets \subseteq Int
    BY <1>1, <1>6
  <2> HIDE DEF sets
  <2>3. last \in sets /\ \A j \in sets : j <= last
    BY <2>1
  <2> HIDE DEF last
  <2>4. last = i
    BY <2>1, <2>2, <2>3
  <2>5. PICK r \in Records : r = log[i]
    BY <1>1, RecordPlace
  <2>6. Store!Latest(Sets, k) = r.value
    BY <1>1, <1>5, <2>1, <2>4, <2>5, SetsType
  <2>7. hash_map[k] = ValueSlice(r) /\ ValueSlice(r) \in Slices
    BY <1>8, <2>5, RecordType
  <2>8. hash_map[k] # NoSlice
    BY <2>7, NoValuesAssumption DEF Slices
  <2>9. Holds(mem, ValueAt(r), r.value) /\ ValueAt(r) \in Nat /\ r.value \in Values
    BY <1>1, <2>5, RecordType DEF RecordsIn
  <2>10. Content([off |-> ValueAt(r) + 1, len |-> Len(r.value)]) = r.value
    BY <1>1, <2>9, ContentHeld
  <2>11. QED
    BY <2>6, <2>7, <2>8, <2>10 DEF ValueSlice
<1> HIDE DEF sets, found
<1>9. found = Store!Latest(Sets, k)
  BY <1>4, <1>7, <1>8 DEF PointsTo
<1>10. answer' = [answer EXCEPT ![t] = found]
  BY <1>3 DEF Read, found
<1>11. QED
  BY <1>3, <1>9, <1>10

\* A counted record is a Set that has taken effect.
LEMMA CountSets ==
    ASSUME Inv, Types', NEW t \in Threads, Count(t)
    PROVE  Sets' = Append(Sets, [key |-> key[t], value |-> value[t]])
<1>1. Types /\ ThreadsInv /\ Len(log) \in Nat
  BY LogType DEF Inv
<1>2. PICK s : s = [key |-> key[t], value |-> value[t]]
  OBVIOUS
<1>3. s \in SetsOf
  BY <1>1, <1>2, Appends DEF Count, Appending, SetsOf
<1>4. /\ Len(log') = Len(log) + 1
      /\ log'[Len(log) + 1].key = key[t] /\ log'[Len(log) + 1].value = value[t]
      /\ \A i \in 1 .. Len(log) : log'[i] = log[i]
  <2>1. PICK r : r = [key |-> key[t], value |-> value[t], at |-> Base]
    OBVIOUS
  <2>2. /\ Len(log') = Len(log) + 1 /\ log'[Len(log) + 1] = r
        /\ \A i \in 1 .. Len(log) : log'[i] = log[i]
    BY <2>1, LogCounts
  <2>3. QED
    BY <2>1, <2>2
<1>5. /\ Sets \in Seq(SetsOf) /\ Len(Sets) = Len(log)
      /\ \A i \in 1 .. Len(log) : Sets[i] = [key |-> log[i].key, value |-> log[i].value]
  BY <1>1, SetsType
<1>6. /\ Sets' \in Seq(SetsOf) /\ Len(Sets') = Len(log')
      /\ \A i \in 1 .. Len(log') : Sets'[i] = [key |-> log'[i].key, value |-> log'[i].value]
  BY SetsType
<1>7. /\ Append(Sets, s) \in Seq(SetsOf)
      /\ Len(Append(Sets, s)) = Len(Sets) + 1
      /\ Append(Sets, s)[Len(Sets) + 1] = s
      /\ \A i \in 1 .. Len(Sets) : Append(Sets, s)[i] = Sets[i]
  <2>1. \A q \in Seq(SetsOf) :
            /\ Append(q, s) \in Seq(SetsOf)
            /\ Len(Append(q, s)) = Len(q) + 1
            /\ Append(q, s)[Len(q) + 1] = s
            /\ \A i \in 1 .. Len(q) : Append(q, s)[i] = q[i]
    BY <1>3
  <2>2. QED
    BY <1>5, <2>1
<1>8. ASSUME NEW i \in 1 .. Len(log')
      PROVE  Sets'[i] = Append(Sets, s)[i]
  <2>1. CASE i \in 1 .. Len(log)
    <3>1. Sets'[i] = [key |-> log[i].key, value |-> log[i].value]
      BY <1>4, <1>6, <2>1
    <3>2. Append(Sets, s)[i] = Sets[i]
      BY <1>5, <1>7, <2>1
    <3>3. QED
      BY <1>5, <2>1, <3>1, <3>2
  <2>2. CASE i = Len(log) + 1
    <3>1. Sets'[i] = s
      BY <1>2, <1>4, <1>6, <2>2
    <3>2. QED
      BY <1>5, <1>7, <2>2, <3>1
  <2>3. i \in 1 .. Len(log) \/ i = Len(log) + 1
    <3>1. Len(log) \in Nat /\ Len(log') = Len(log) + 1
      BY <1>1, <1>4
    <3>2. QED
      BY <3>1
  <2>4. QED
    BY <2>1, <2>2, <2>3
<1>9. QED
  <2>1. Len(Sets') = Len(Append(Sets, s))
    BY <1>4, <1>5, <1>6, <1>7
  <2>2. \A i \in 1 .. Len(Sets') : Sets'[i] = Append(Sets, s)[i]
    BY <1>6, <1>8
  <2>3. PICK p \in Seq(SetsOf), q \in Seq(SetsOf) : p = Sets' /\ q = Append(Sets, s)
    BY <1>6, <1>7
  <2>4. p = q
    BY <2>1, <2>2, <2>3, SeqEqual
  <2>5. QED
    BY <1>2, <2>3, <2>4

\* The end of a process leaves a prefix of the Sets.
LEMMA StopSets ==
    ASSUME Inv, Types', Close \/ Crash \/ Fault \/ PowerFailure
    PROVE  \E n \in 0 .. Len(Sets) : Sets' = SubSeq(Sets, 1, n)
<1>1. /\ Types /\ Len(log) \in Nat
      /\ \A i \in 1 .. Len(log) : log[i] \in Records
  BY LogType DEF Inv
<1>2. PICK n \in 0 .. Len(log) : log' = SubSeq(log, 1, n)
  BY LogStops
<1>3. n \in Nat /\ n <= Len(log) /\ n - 1 + 1 = n /\ \A i \in 1 .. n : 1 + i - 1 = i
  BY <1>1
<1>4. Len(log') = n /\ \A i \in 1 .. n : log'[i] = log[i]
  <2>1. \A i \in 1 .. n : log[i] \in Records
    BY <1>1, <1>3
  <2>2. /\ Len(SubSeq(log, 1, n)) = IF 1 <= n THEN n - 1 + 1 ELSE 0
        /\ \A i \in 1 .. n - 1 + 1 : SubSeq(log, 1, n)[i] = log[1 + i - 1]
    BY <1>3, <2>1, SubSeqProperties
  <2>3. Len(log') = n
    BY <1>2, <1>3, <2>2
  <2>4. \A i \in 1 .. n : log'[i] = log[i]
    BY <1>2, <1>3, <2>2
  <2>5. QED
    BY <2>3, <2>4
<1>5. /\ Sets \in Seq(SetsOf) /\ Len(Sets) = Len(log)
      /\ \A i \in 1 .. Len(log) : Sets[i] = [key |-> log[i].key, value |-> log[i].value]
  BY <1>1, SetsType
<1>6. /\ Sets' \in Seq(SetsOf) /\ Len(Sets') = n
      /\ \A i \in 1 .. n : Sets'[i] = [key |-> log'[i].key, value |-> log'[i].value]
  BY <1>4, SetsType
<1>7. /\ SubSeq(Sets, 1, n) \in Seq(SetsOf)
      /\ Len(SubSeq(Sets, 1, n)) = n
      /\ \A i \in 1 .. n : SubSeq(Sets, 1, n)[i] = Sets[i]
  <2>1. \A i \in 1 .. n : i \in 1 .. Len(Sets) /\ Sets[i] \in SetsOf
    BY <1>3, <1>5, ElementOfSeq
  <2>2. /\ SubSeq(Sets, 1, n) \in Seq(SetsOf)
        /\ Len(SubSeq(Sets, 1, n)) = IF 1 <= n THEN n - 1 + 1 ELSE 0
        /\ \A i \in 1 .. n - 1 + 1 : SubSeq(Sets, 1, n)[i] = Sets[1 + i - 1]
    BY <1>3, <2>1, SubSeqProperties
  <2>3. Len(SubSeq(Sets, 1, n)) = n
    BY <1>3, <2>2
  <2>4. \A i \in 1 .. n : SubSeq(Sets, 1, n)[i] = Sets[i]
    BY <1>3, <2>2
  <2>5. QED
    BY <2>2, <2>3, <2>4
<1>8. \A i \in 1 .. n : Sets'[i] = SubSeq(Sets, 1, n)[i]
  BY <1>3, <1>4, <1>5, <1>6, <1>7
<1>9. PICK p \in Seq(SetsOf), q \in Seq(SetsOf) : p = Sets' /\ q = SubSeq(Sets, 1, n)
  BY <1>6, <1>7
<1>10. p = q
  BY <1>6, <1>7, <1>8, <1>9, SeqEqual
<1>11. n \in 0 .. Len(Sets)
  BY <1>5
<1>12. QED
  BY <1>9, <1>10, <1>11

\* The initial state of the log is DurableKV's.
LEMMA StoreInit ==
    ASSUME Init
    PROVE  Store!Init
<1>1. Types /\ Len(log) = 0
  BY InvInit DEF Inv, Init
<1>2. Sets = <<>>
  <2>1. Sets \in Seq(SetsOf) /\ Len(Sets) = 0
    BY <1>1, SetsType
  <2>2. QED
    BY <2>1, EmptySeq
<1>3. Effects = [t \in Threads |-> FALSE]
  <2>1. \A t \in Threads : pc[t] = "idle"
    BY DEF Init
  <2>2. \A t \in Threads : pc[t] \notin {"map", "ret"}
    BY <2>1
  <2>3. ASSUME NEW t \in Threads
        PROVE  (pc[t] \in {"map", "ret"}) = FALSE
    <3>1. (pc[t] \in {"map", "ret"}) <=> FALSE
      BY <2>2
    <3>2. QED
      BY <3>1
  <2>4. QED
    BY <2>3 DEF Effects
<1>4. QED
  BY <1>2, <1>3 DEF Init, Store!Init, Sets, Effects

\* A step that takes no effect on the store and ends no call is a stutter.
LEMMA StoreStutter ==
    ASSUME Types, Types', log' = log, UNCHANGED call,
           \A u \in Threads : pc'[u] \in {"map", "ret"} <=> pc[u] \in {"map", "ret"}
    PROVE  UNCHANGED Store!vars
<1>1. Sets' = Sets
  BY DEF Sets
<1>2. Effects' = Effects
  BY DEF Effects
<1>3. QED
  BY <1>1, <1>2 DEF Store!vars, Sets, Effects, call

\* A call invoked in the log is a call invoked in the store.
LEMMA StoreInvoke ==
    ASSUME Inv, Types', NEW t \in Threads, NEW o \in {"get", "set"}, NEW k, NEW v,
           Call(t, o, k, v)
    PROVE  Store!Invoke(t, o, k, v)
<1>1. Types /\ ThreadsInv
  BY DEF Inv
<1>2. op[t] = "none"
  BY <1>1 DEF Call, ThreadsInv, ThreadOK
<1>3. Sets' = Sets
  BY DEF Call, history, Sets
<1>4. Effects' = Effects
  <2>1. \A u \in Threads : pc'[u] \in {"map", "ret"} <=> pc[u] \in {"map", "ret"}
    BY <1>1 DEF Call, Types
  <2>2. QED
    BY <2>1 DEF Effects
<1>5. QED
  BY <1>2, <1>3, <1>4 DEF Call, Store!Invoke, Sets, Effects

\* Read is the Get of the store.
LEMMA StoreGet ==
    ASSUME Inv, Types', NEW t \in Threads, Read(t)
    PROVE  Store!Get(t)
<1>1. Types /\ ThreadsInv /\ pc[t] = "read" /\ pc' = [pc EXCEPT ![t] = "ret"]
  BY DEF Inv, Read
<1>2. op[t] = "get" /\ ~Effects[t]
  BY <1>1 DEF ThreadsInv, ThreadOK, Effects
<1>3. Sets' = Sets
  BY DEF Read, history, Sets
<1>4. Effects' = [Effects EXCEPT ![t] = TRUE]
  BY <1>1 DEF Effects, Types
<1>5. answer' = [answer EXCEPT ![t] = Store!Latest(Sets, key[t])]
  BY ReadsLatest
<1>6. op' = op /\ key' = key /\ value' = value
  BY DEF Read
<1>7. QED
  BY <1>2, <1>3, <1>4, <1>5, <1>6 DEF Store!Get, Sets, Effects

\* Count is the Set of the store.
LEMMA StoreSet ==
    ASSUME Inv, Types', NEW t \in Threads, Count(t)
    PROVE  Store!Set(t)
<1>1. Types /\ ThreadsInv /\ pc[t] = "count" /\ pc' = [pc EXCEPT ![t] = "map"]
  BY DEF Inv, Count
<1>2. op[t] = "set" /\ ~Effects[t]
  BY <1>1, Appends DEF Appending, Effects
<1>3. Sets' = Append(Sets, [key |-> key[t], value |-> value[t]])
  BY CountSets
<1>4. Effects' = [Effects EXCEPT ![t] = TRUE]
  BY <1>1 DEF Effects, Types
<1>5. UNCHANGED call
  BY DEF Count
<1>6. QED
  BY <1>2, <1>3, <1>4, <1>5 DEF Store!Set, Sets, Effects, call

\* MapKey returns from Set, Return from Get.
LEMMA StoreRespond ==
    ASSUME Inv, Types', NEW t \in Threads, MapKey(t) \/ Return(t)
    PROVE  Store!Respond(t)
<1>1. /\ Types /\ ThreadsInv /\ pc[t] \in {"map", "ret"} /\ CallEnds(t)
      /\ log' = log
  BY DEF Inv, MapKey, Return, history
<1>2. Effects[t]
  BY <1>1 DEF Effects
<1>3. Sets' = Sets
  BY <1>1 DEF Sets
<1>4. Effects' = [Effects EXCEPT ![t] = FALSE]
  <2>1. \A u \in Threads : pc'[u] = IF u = t THEN "idle" ELSE pc[u]
    BY <1>1 DEF CallEnds, Types
  <2>2. (pc'[t] \in {"map", "ret"}) = FALSE
    BY <2>1
  <2>3. \A u \in Threads \ {t} : pc'[u] = pc[u]
    BY <2>1
  <2>4. QED
    BY <2>2, <2>3 DEF Effects
<1>5. answer' = [answer EXCEPT ![t] = NotFound]
  <2>1. CASE MapKey(t)
    <3>1. answer' = answer /\ answer[t] = NotFound
      BY <1>1, <2>1 DEF MapKey, ThreadsInv, ThreadOK
    <3>2. answer \in [Threads -> Seq(Nat) \cup {NotFound}]
      BY <1>1 DEF Types
    <3>3. QED
      BY <3>1, <3>2
  <2>2. CASE Return(t)
    BY <2>2 DEF Return
  <2>3. QED
    BY <2>1, <2>2
<1>6. QED
  BY <1>1, <1>2, <1>3, <1>4, <1>5 DEF Store!Respond, CallEnds, Sets, Effects

\* The end of the process is the crash of the store.
LEMMA StoreCrash ==
    ASSUME Inv, Types', Close \/ Crash \/ Fault \/ PowerFailure
    PROVE  Store!Crash
<1>1. \E n \in 0 .. Len(Sets) : Sets' = SubSeq(Sets, 1, n)
  BY StopSets
<1>2. PICK m \in [Addresses -> Nat], n \in 0 .. Len(log) : Stop(m, n)
  BY Ends
<1>3. Effects' = [t \in Threads |-> FALSE]
  <2>1. \A t \in Threads : (pc'[t] \in {"map", "ret"}) = FALSE
    BY <1>2 DEF Stop
  <2>2. QED
    BY <2>1 DEF Effects
<1>4. QED
  BY <1>1, <1>2, <1>3 DEF Stop, Store!Crash, Sets, Effects

\* Every step of the log is a step of the store or none.
LEMMA StoreStep ==
    ASSUME Inv, [Next]_vars
    PROVE  [Store!Next]_(Store!vars)
<1>1. Types /\ Types'
  BY TypeStep DEF Inv
<1>2. CASE Open \/ RecoverNext \/ RecoveryDone \/ WriteBack \/ UNCHANGED vars
  <2>1. log' = log /\ UNCHANGED call /\ pc' = pc
    BY <1>2 DEF Open, RecoverNext, RecoveryDone, WriteBack, vars, history
  <2>2. QED
    BY <1>1, <2>1, StoreStutter
<1>3. ASSUME NEW t \in Threads,
             Lock(t) \/ StoreSize(t) \/ PersistSize(t) \/ CopyWord(t) \/ PersistData(t)
      PROVE  [Store!Next]_(Store!vars)
  <2>1. log' = log /\ UNCHANGED call
    BY <1>3 DEF Lock, StoreSize, PersistSize, CopyWord, PersistData, history
  <2>2. \A u \in Threads : pc'[u] \in {"map", "ret"} <=> pc[u] \in {"map", "ret"}
    BY <1>1, <1>3 DEF Lock, StoreSize, PersistSize, CopyWord, PersistData, Types
  <2>3. QED
    BY <1>1, <2>1, <2>2, StoreStutter
<1>4. ASSUME NEW t \in Threads, NEW k \in Keys, Call(t, "get", k, <<>>)
      PROVE  Store!Next
  BY <1>1, <1>4, StoreInvoke DEF Store!Next
<1>5. ASSUME NEW t \in Threads, NEW k \in Keys, NEW v \in Values, Call(t, "set", k, v)
      PROVE  Store!Next
  BY <1>1, <1>5, StoreInvoke DEF Store!Next
<1>6. ASSUME NEW t \in Threads, Read(t)
      PROVE  Store!Next
  BY <1>1, <1>6, StoreGet DEF Store!Next
<1>7. ASSUME NEW t \in Threads, Count(t)
      PROVE  Store!Next
  BY <1>1, <1>7, StoreSet DEF Store!Next
<1>8. ASSUME NEW t \in Threads, MapKey(t) \/ Return(t)
      PROVE  Store!Next
  BY <1>1, <1>8, StoreRespond DEF Store!Next
<1>9. CASE Close \/ Crash \/ Fault \/ PowerFailure
  BY <1>1, <1>9, StoreCrash DEF Store!Next
<1>10. QED
  BY <1>2, <1>3, <1>4, <1>5, <1>6, <1>7, <1>8, <1>9 DEF Next, Recover, Step

\* Calls take effect one at a time on a list of Sets, a Get answers with the
\* latest value of its key, and whatever ends the process leaves a prefix of
\* the list: NvmExample implements DurableKV.
THEOREM StoreRefined == Spec => ImplementsStore
<1>1. Init => Store!Init
  BY StoreInit
<1>2. Inv /\ [Next]_vars => [Store!Next]_(Store!vars)
  BY StoreStep
<1>3. QED
  BY <1>1, <1>2, Invariant, PTL DEF Spec, ImplementsStore, Store!Spec
=============================================================================
