-------------------------- MODULE HandleTableProofs --------------------------
(***************************************************************************)
(* The table is a map, for any handles, keys and hash: its chains are      *)
(* sound, its count is exact, and every call answers as HandleMap does.    *)
(* The loops of FindPointer and Resize are recursive functions; that they  *)
(* end, and where, is proved with a rank of the handles in their chains.   *)
(***************************************************************************)
EXTENDS HandleTable, FiniteSetTheorems, WellFoundedInduction, TLAPS

-----------------------------------------------------------------------------
(* Loops                                                                   *)

\* f is the loop that steps by step until it stops.
IsLoop(f, S, stops, step) ==
    f = [c \in S |-> IF c \in stops THEN c ELSE f[step[c]]]

\* There is such a function, whether the loop ends or not: its value at c is
\* the stop that the steps from c lead to.
LEMMA LoopExists ==
    ASSUME NEW S, NEW stops \in SUBSET S, NEW step, \A c \in S \ stops : step[c] \in S
    PROVE  \E f : IsLoop(f, S, stops, step)
<1> DEFINE Closed(T) == \A d \in T \ stops : step[d] \in T
           Reach(c) == {d \in S : \A T \in SUBSET S : c \in T /\ Closed(T) => d \in T}
           Ends(c) == Reach(c) \cap stops
           f == [c \in S |-> CHOOSE d : d \in Ends(c)]
<1>1. ASSUME NEW c \in stops PROVE f[c] = c
  <2>1. Closed({c}) /\ c \in {c} /\ {c} \in SUBSET S
    BY <1>1
  <2>2. Reach(c) \subseteq {c}
    BY <2>1
  <2>3. c \in Reach(c)
    OBVIOUS
  <2>4. Ends(c) = {c}
    BY <2>2, <2>3
  <2> QED
    BY <2>4
<1>2. ASSUME NEW c \in S \ stops PROVE f[c] = f[step[c]]
  <2>1. step[c] \in S /\ Ends(step[c]) \subseteq Ends(c)
    OBVIOUS
  <2>2. ASSUME NEW d \in Ends(c) PROVE d \in Reach(step[c])
    <3> SUFFICES ASSUME NEW T \in SUBSET S, step[c] \in T, Closed(T) PROVE d \in T
      BY <2>2
    <3>1. Closed(T \cup {c}) /\ T \cup {c} \in SUBSET S
      OBVIOUS
    <3>2. d \in T \cup {c}
      BY <2>2, <3>1
    <3> QED
      BY <2>2, <3>2
  <2>3. Ends(c) = Ends(step[c])
    BY <2>1, <2>2
  <2> QED
    BY <2>1, <2>3
<1>3. f = [c \in S |-> f[c]]
  OBVIOUS
<1> HIDE DEF f
<1>4. \A c \in S : f[c] = IF c \in stops THEN c ELSE f[step[c]]
  BY <1>1, <1>2
<1>5. f = [c \in S |-> IF c \in stops THEN c ELSE f[step[c]]]
  BY <1>3, <1>4
<1> QED
  BY <1>5 DEF IsLoop

\* Of the members of a set, one has the least rank.
LEMMA LeastRank ==
    ASSUME NEW S, S # {}, NEW rank, \A c \in S : rank[c] \in Nat
    PROVE  \E c \in S : \A d \in S : rank[c] <= rank[d]
<1> DEFINE T == {rank[c] : c \in S}
<1>1. T \subseteq Nat /\ T # {}
  OBVIOUS
<1>2. \E m \in T : \A n \in T : ~ (<<n, m>> \in OpToRel(<, Nat))
  BY <1>1, NatLessThanWellFounded, WFMin
<1>3. PICK m \in T : \A n \in T : ~ (<<n, m>> \in OpToRel(<, Nat))
  BY <1>2
<1>4. \A n \in T : ~ (n < m)
  BY <1>1, <1>3 DEF OpToRel
<1>5. \A n \in T : m <= n
  <2> HIDE DEF T
  <2> QED
    BY <1>1, <1>4
<1> QED
  BY <1>5

\* A loop whose steps stay in T and lower a rank ends, and in T.
LEMMA LoopEnds ==
    ASSUME NEW S, NEW stops, NEW step, NEW f, IsLoop(f, S, stops, step),
           NEW T \in SUBSET S, NEW rank, \A c \in T : rank[c] \in Nat,
           \A c \in T \ stops : step[c] \in T /\ rank[step[c]] < rank[c]
    PROVE  \A c \in T : f[c] \in T \cap stops
<1> DEFINE B == {c \in T : f[c] \notin T \cap stops}
<1> SUFFICES ASSUME B # {} PROVE FALSE
  OBVIOUS
<1>1. \E c \in B : \A d \in B : rank[c] <= rank[d]
  BY LeastRank
<1>2. PICK c \in B : \A d \in B : rank[c] <= rank[d]
  BY <1>1
<1>3. f[c] = IF c \in stops THEN c ELSE f[step[c]]
  BY DEF IsLoop
<1>4. CASE c \in stops
  BY <1>3, <1>4
<1>5. CASE c \notin stops
  <2>1. step[c] \in T /\ rank[step[c]] < rank[c] /\ rank[step[c]] \in Nat /\ rank[c] \in Nat
    BY <1>5
  <2>2. step[c] \notin B
    BY <1>2, <2>1
  <2> QED
    BY <1>3, <1>5, <2>1, <2>2
<1> QED
  BY <1>4, <1>5

-----------------------------------------------------------------------------
(* The inductive invariant                                                 *)

\* The pointers that a walk of a table of n buckets with handles M follows.
Places(M, n) == M \cup (0 .. n - 1)
At(links, c) == IF c \in Handles THEN links.next[c] ELSE links.list[c]
BucketOf(c, n) == IF c \in Handles THEN Bucket(KeyOf[c], n) ELSE c

\* The handles of M behind place c, when a smaller rank is further behind.
Rest(M, n, rank, c) ==
    {g \in M : BucketOf(g, n) = BucketOf(c, n) /\ (c \in Handles => rank[g] < rank[c])}

\* h is the first of S, nullptr if there is none.
First(h, S, rank) ==
    \/ h = nullptr /\ S = {}
    \/ h \in S /\ \A g \in S : rank[g] <= rank[h]

LinksOK(links, n) == links \in [list : [0 .. n - 1 -> Pointers], next : [Handles -> Pointers]]

Ranked(M, N, rank) ==
    /\ N \in Nat /\ rank \in [M -> 0 .. N]
    /\ \A g, h \in M : rank[g] = rank[h] => g = h

Distinct(M) == \A g, h \in M : KeyOf[g] = KeyOf[h] => g = h

\* links are a table of n buckets with the handles M: each place leads to the
\* first of those behind it.
Table(links, n, M, N, rank) ==
    /\ n \in Nat \ {0} /\ M \in SUBSET Handles
    /\ LinksOK(links, n) /\ Ranked(M, N, rank) /\ Distinct(M)
    /\ \A c \in Places(M, n) : First(At(links, c), Rest(M, n, rank, c), rank)

IsTable(links, n, M) == \E N, rank : Table(links, n, M, N, rank)

Inv ==
    /\ length_ \in Nat \ {0} /\ LinksOK(Links, length_)
    /\ \E M \in SUBSET Handles :
           /\ IsTable(Links, length_, M)
           /\ elems_ = Cardinality(M) /\ elems_ <= length_

-----------------------------------------------------------------------------
(* Lemmas about tables                                                     *)

\* A bucket is a number and no handle, and every key has one.
LEMMA BucketFacts ==
    ASSUME NEW n \in Nat \ {0}
    PROVE  /\ \A k \in Keys : Bucket(k, n) \in 0 .. n - 1
           /\ \A i \in 0 .. n - 1 : i \notin Handles /\ BucketOf(i, n) = i
           /\ \A h \in Handles : BucketOf(h, n) \in 0 .. n - 1
           /\ nullptr \notin Handles
<1>1. \A x \in Nat : x % n \in 0 .. n - 1
  OBVIOUS
<1>2. \A k \in Keys : Bucket(k, n) \in 0 .. n - 1
  BY <1>1, HashAssumption DEF Bucket
<1>3. \A i \in 0 .. n - 1 : i \notin Handles
  BY HandlesAssumption
<1>4. \A h \in Handles : KeyOf[h] \in Keys
  BY HandlesAssumption
<1> QED
  BY <1>2, <1>3, <1>4, HandlesAssumption DEF BucketOf

\* Links from their two parts.
LEMMA LinksMade ==
    ASSUME NEW n, NEW list \in [0 .. n - 1 -> Pointers], NEW next \in [Handles -> Pointers]
    PROVE  LinksOK([list |-> list, next |-> next], n)
BY DEF LinksOK

\* What *c = h changes.
LEMMA StoredFacts ==
    ASSUME NEW n \in Nat \ {0}, NEW links, LinksOK(links, n),
           NEW c \in Places(Handles, n), NEW h \in Pointers
    PROVE  /\ LinksOK(Stored(links, c, h), n)
           /\ \A d \in Places(Handles, n) :
                  At(Stored(links, c, h), d) = IF d = c THEN h ELSE At(links, d)
<1>1. /\ \A i \in 0 .. n - 1 : i \notin Handles
      /\ links \in [list : [0 .. n - 1 -> Pointers], next : [Handles -> Pointers]]
  BY BucketFacts DEF LinksOK
<1> DEFINE list == links.list
           next == links.next
<1>2. /\ list \in [0 .. n - 1 -> Pointers] /\ next \in [Handles -> Pointers]
      /\ links = [list |-> list, next |-> next]
  BY <1>1
<1>3. \A d : At(links, d) = IF d \in Handles THEN next[d] ELSE list[d]
  BY DEF At
<1> HIDE DEF list, next
<1>4. CASE c \in Handles
  <2> DEFINE next2 == [next EXCEPT ![c] = h]
  <2>1. next2 \in [Handles -> Pointers]
    BY <1>2, <1>4
  <2>2. \A d \in Handles : next2[d] = IF d = c THEN h ELSE next[d]
    BY <1>2, <1>4
  <2>3. Stored(links, c, h) = [links EXCEPT !.next = next2]
    BY <1>4 DEF Stored, next
  <2> HIDE DEF next2
  <2>4. Stored(links, c, h) = [list |-> list, next |-> next2]
    BY <1>2, <2>3
  <2>5. \A d : At(Stored(links, c, h), d) = IF d \in Handles THEN next2[d] ELSE list[d]
    BY <2>4 DEF At
  <2>6. LinksOK([list |-> list, next |-> next2], n)
    BY <1>2, <2>1, LinksMade
  <2> QED
    BY <1>3, <1>4, <2>2, <2>4, <2>5, <2>6
<1>5. CASE c \notin Handles
  <2> DEFINE list2 == [list EXCEPT ![c] = h]
  <2>1. c \in 0 .. n - 1
    BY <1>5 DEF Places
  <2>2. list2 \in [0 .. n - 1 -> Pointers]
    BY <1>2, <2>1
  <2>3. \A d \in 0 .. n - 1 : list2[d] = IF d = c THEN h ELSE list[d]
    BY <1>2, <2>1
  <2>4. Stored(links, c, h) = [links EXCEPT !.list = list2]
    BY <1>5 DEF Stored, list
  <2> HIDE DEF list2
  <2>5. Stored(links, c, h) = [list |-> list2, next |-> next]
    BY <1>2, <2>4
  <2>6. \A d : At(Stored(links, c, h), d) = IF d \in Handles THEN next[d] ELSE list2[d]
    BY <2>5 DEF At
  <2>7. LinksOK([list |-> list2, next |-> next], n)
    BY <1>2, <2>2, LinksMade
  <2> QED
    BY <1>3, <1>5, <2>3, <2>5, <2>6, <2>7 DEF Places
<1> QED
  BY <1>4, <1>5

\* Of two places of one bucket, one is behind the other.
LEMMA PlacesInOrder ==
    ASSUME NEW links, NEW n, NEW M, NEW N, NEW rank, Table(links, n, M, N, rank),
           NEW c \in Places(M, n), NEW d \in Places(M, n),
           c # d, BucketOf(c, n) = BucketOf(d, n)
    PROVE  c \in Rest(M, n, rank, d) \/ d \in Rest(M, n, rank, c)
<1>1. /\ n \in Nat \ {0} /\ M \in SUBSET Handles
      /\ N \in Nat /\ rank \in [M -> 0 .. N]
      /\ \A g, h \in M : rank[g] = rank[h] => g = h
  BY DEF Table, Ranked
<1>2. \A i \in 0 .. n - 1 : i \notin Handles /\ BucketOf(i, n) = i
  BY <1>1, BucketFacts
<1>3. CASE c \in M /\ d \in M
  <2>1. rank[c] \in 0 .. N /\ rank[d] \in 0 .. N /\ rank[c] # rank[d]
    BY <1>1, <1>3
  <2>2. rank[c] < rank[d] \/ rank[d] < rank[c]
    BY <1>1, <2>1
  <2> QED
    BY <1>3, <2>2 DEF Rest
<1>4. CASE c \in M /\ d \in 0 .. n - 1
  BY <1>2, <1>4 DEF Rest
<1>5. CASE d \in M /\ c \in 0 .. n - 1
  BY <1>2, <1>5 DEF Rest
<1>6. CASE c \in 0 .. n - 1 /\ d \in 0 .. n - 1
  BY <1>2, <1>6
<1> QED
  BY <1>3, <1>4, <1>5, <1>6 DEF Places

\* What is behind the handle that c leads to is what is behind c without it.
LEMMA RestSteps ==
    ASSUME NEW links, NEW n, NEW M, NEW N, NEW rank, Table(links, n, M, N, rank),
           NEW c \in Places(M, n), At(links, c) # nullptr
    PROVE  LET o == At(links, c) IN
           /\ o \in M /\ o \in Rest(M, n, rank, c) /\ o # c
           /\ BucketOf(o, n) = BucketOf(c, n)
           /\ Rest(M, n, rank, o) = Rest(M, n, rank, c) \ {o}
           /\ \A d \in Places(M, n) : At(links, d) = o => d = c
<1> DEFINE o == At(links, c)
<1>1. /\ n \in Nat \ {0} /\ M \in SUBSET Handles
      /\ N \in Nat /\ rank \in [M -> 0 .. N]
      /\ \A g, h \in M : rank[g] = rank[h] => g = h
      /\ \A d \in Places(M, n) : First(At(links, d), Rest(M, n, rank, d), rank)
  BY DEF Table, Ranked
<1>2. o \in Rest(M, n, rank, c) /\ \A g \in Rest(M, n, rank, c) : rank[g] <= rank[o]
  BY <1>1 DEF First
<1> HIDE DEF o
<1>3. /\ o \in M /\ o \in Handles /\ BucketOf(o, n) = BucketOf(c, n)
      /\ c \in Handles => c \in M /\ rank[o] < rank[c]
  <2>1. c \in Handles => c \in M
    BY <1>1, BucketFacts DEF Places
  <2> QED
    BY <1>1, <1>2, <2>1 DEF Rest
<1>4. \A g \in M : rank[g] \in Int
  BY <1>1
<1>5. o # c
  BY <1>3, <1>4
<1>6. Rest(M, n, rank, o) = Rest(M, n, rank, c) \ {o}
  <2>1. ASSUME NEW g \in Rest(M, n, rank, o) PROVE g \in Rest(M, n, rank, c) \ {o}
    <3>1. g \in M /\ BucketOf(g, n) = BucketOf(c, n) /\ rank[g] < rank[o]
      BY <1>3, <2>1 DEF Rest
    <3>2. c \in Handles => rank[g] < rank[c]
      BY <1>3, <1>4, <3>1
    <3>3. g # o
      BY <1>3, <1>4, <3>1
    <3> QED
      BY <3>1, <3>2, <3>3 DEF Rest
  <2>2. ASSUME NEW g \in Rest(M, n, rank, c) \ {o} PROVE g \in Rest(M, n, rank, o)
    <3>1. g \in M /\ BucketOf(g, n) = BucketOf(o, n) /\ rank[g] <= rank[o]
      BY <1>2, <1>3 DEF Rest
    <3>2. rank[g] < rank[o]
      BY <1>1, <1>3, <1>4, <3>1
    <3> QED
      BY <1>3, <3>1, <3>2 DEF Rest
  <2> QED
    BY <2>1, <2>2
<1>7. ASSUME NEW d \in Places(M, n), At(links, d) = o, d # c PROVE FALSE
  <2>1. o # nullptr
    BY DEF o
  <2>2. o \in Rest(M, n, rank, d) /\ \A g \in Rest(M, n, rank, d) : rank[g] <= rank[o]
    BY <1>1, <1>7, <2>1 DEF First
  <2>3. BucketOf(d, n) = BucketOf(c, n)
    BY <1>3, <2>2 DEF Rest
  <2>4. d \in Handles => d \in M /\ rank[o] < rank[d]
    <3>1. d \in Handles => d \in M
      BY <1>1, BucketFacts DEF Places
    <3> QED
      BY <2>2, <3>1 DEF Rest
  <2>5. c \in Rest(M, n, rank, d) \/ d \in Rest(M, n, rank, c)
    BY <1>7, <2>3, PlacesInOrder
  <2>6. CASE c \in Rest(M, n, rank, d)
    <3>1. c \in M /\ rank[c] <= rank[o]
      BY <2>2, <2>6 DEF Rest
    <3> QED
      BY <1>1, <1>3, <1>4, <3>1
  <2>7. CASE d \in Rest(M, n, rank, c)
    <3>1. d \in M /\ rank[d] <= rank[o]
      BY <1>2, <2>7 DEF Rest
    <3> QED
      BY <1>1, <1>3, <1>4, <2>4, <3>1
  <2> QED
    BY <2>5, <2>6, <2>7
<1> QED
  BY <1>2, <1>3, <1>5, <1>6, <1>7 DEF o

\* A table whose buckets lead nowhere is empty.
LEMMA EmptyTable ==
    ASSUME NEW n \in Nat \ {0}, NEW links, LinksOK(links, n), links.list = Empty(n)
    PROVE  IsTable(links, n, {})
<1> DEFINE rank == [g \in {} |-> 0]
<1>1. Ranked({}, 0, rank) /\ Distinct({})
  BY DEF Ranked, Distinct
<1>2. ASSUME NEW c \in Places({}, n)
      PROVE  First(At(links, c), Rest({}, n, rank, c), rank)
  <2>1. c \in 0 .. n - 1 /\ c \notin Handles
    BY BucketFacts DEF Places
  <2>2. At(links, c) = nullptr
    BY <2>1 DEF At, Empty
  <2> QED
    BY <2>2 DEF First, Rest
<1>3. Table(links, n, {}, 0, rank)
  BY <1>1, <1>2 DEF Table
<1> QED
  BY <1>3 DEF IsTable

\* A handle of a new key, put behind the last of its bucket.
LEMMA AppendTable ==
    ASSUME NEW n, NEW links, NEW M, IsTable(links, n, M),
           NEW x \in Handles \ M, \A g \in M : KeyOf[g] # KeyOf[x],
           NEW c \in Places(M, n), BucketOf(c, n) = BucketOf(x, n), At(links, c) = nullptr
    PROVE  IsTable(Stored(Stored(links, x, nullptr), c, x), n, M \cup {x})
<1>1. PICK N, rank : Table(links, n, M, N, rank)
  BY DEF IsTable
<1>2. /\ n \in Nat \ {0} /\ M \in SUBSET Handles /\ LinksOK(links, n)
      /\ N \in Nat /\ rank \in [M -> 0 .. N]
      /\ \A g, h \in M : rank[g] = rank[h] => g = h
      /\ \A d \in Places(M, n) : First(At(links, d), Rest(M, n, rank, d), rank)
      /\ Distinct(M)
  BY <1>1 DEF Table, Ranked
<1>3. \A i \in 0 .. n - 1 : i \notin Handles
  BY <1>2, BucketFacts
<1> DEFINE links2 == Stored(Stored(links, x, nullptr), c, x)
           M2 == M \cup {x}
           rank2 == [g \in M2 |-> IF g = x THEN 0 ELSE rank[g] + 1]
<1>4. /\ LinksOK(links2, n)
      /\ \A d \in Places(M2, n) :
             At(links2, d) = IF d = c THEN x ELSE IF d = x THEN nullptr ELSE At(links, d)
  <2>1. /\ x \in Places(Handles, n) /\ c \in Places(Handles, n)
        /\ \A d \in Places(M2, n) : d \in Places(Handles, n)
        /\ x \in Pointers /\ nullptr \in Pointers
    BY <1>2 DEF Places, Pointers
  <2>2. /\ LinksOK(Stored(links, x, nullptr), n)
        /\ \A d \in Places(Handles, n) :
               At(Stored(links, x, nullptr), d) = IF d = x THEN nullptr ELSE At(links, d)
    BY <1>2, <2>1, StoredFacts
  <2>3. /\ LinksOK(links2, n)
        /\ \A d \in Places(Handles, n) :
               At(links2, d) = IF d = c THEN x ELSE At(Stored(links, x, nullptr), d)
    BY <1>2, <2>1, <2>2, StoredFacts
  <2> QED
    BY <2>1, <2>2, <2>3
<1> HIDE DEF links2
<1>5. c # x
  BY <1>3 DEF Places
<1>6. Ranked(M2, N + 1, rank2) /\ Distinct(M2)
  <2>1. rank2 \in [M2 -> 0 .. N + 1]
    BY <1>2
  <2>2. \A g, h \in M2 : rank2[g] = rank2[h] => g = h
    BY <1>2
  <2>3. Distinct(M2)
    BY <1>2 DEF Distinct
  <2> QED
    BY <1>2, <2>1, <2>2, <2>3 DEF Ranked
<1>7. Rest(M, n, rank, c) = {}
  BY <1>2, BucketFacts DEF First, Rest
<1>8. ASSUME NEW d \in Places(M, n)
      PROVE  Rest(M2, n, rank2, d) =
                 IF BucketOf(d, n) = BucketOf(x, n) THEN Rest(M, n, rank, d) \cup {x}
                 ELSE Rest(M, n, rank, d)
  <2>1. d \in Handles => d \in M /\ d # x
    BY <1>3 DEF Places
  <2>2. \A g \in M : d \in Handles => (rank2[g] < rank2[d] <=> rank[g] < rank[d])
    BY <1>2, <2>1
  <2>3. d \in Handles => rank2[x] < rank2[d]
    BY <1>2, <2>1
  <2> HIDE DEF rank2
  <2>4. \A g \in M : g \in Rest(M2, n, rank2, d) <=> g \in Rest(M, n, rank, d)
    BY <2>2 DEF Rest
  <2>5. x \in Rest(M2, n, rank2, d) <=> BucketOf(d, n) = BucketOf(x, n)
    BY <2>3 DEF Rest
  <2>6. Rest(M2, n, rank2, d) \subseteq M2 /\ Rest(M, n, rank, d) \subseteq M
    BY DEF Rest
  <2> QED
    BY <2>4, <2>5, <2>6
<1>9. ASSUME NEW d \in Places(M2, n)
      PROVE  First(At(links2, d), Rest(M2, n, rank2, d), rank2)
  <2>1. CASE d = x
    <3>1. At(links2, d) = nullptr
      BY <1>4, <1>5, <2>1
    <3>2. Rest(M2, n, rank2, d) = {}
      BY <1>2, <2>1 DEF Rest
    <3> QED
      BY <3>1, <3>2 DEF First
  <2>2. CASE d = c
    <3>1. At(links2, d) = x
      BY <1>4, <2>2
    <3>2. Rest(M2, n, rank2, d) = {x}
      BY <1>7, <1>8, <2>2
    <3> QED
      BY <3>1, <3>2 DEF First
  <2>3. CASE d # x /\ d # c
    <3>1. d \in Places(M, n) /\ At(links2, d) = At(links, d)
      BY <1>4, <2>3 DEF Places
    <3>2. First(At(links, d), Rest(M, n, rank, d), rank)
      BY <1>2, <3>1
    <3>3. \A g, h \in M : rank[g] <= rank[h] => rank2[g] <= rank2[h]
      BY <1>2
    <3>4. \A h \in M : rank2[x] <= rank2[h]
      BY <1>2
    <3>5. Rest(M, n, rank, d) \subseteq M
      BY DEF Rest
    <3> HIDE DEF rank2, M2
    <3>6. CASE BucketOf(d, n) # BucketOf(x, n)
      <4>1. Rest(M2, n, rank2, d) = Rest(M, n, rank, d)
        BY <1>8, <3>1, <3>6
      <4> QED
        BY <3>1, <3>2, <3>3, <3>5, <4>1 DEF First
    <3>7. CASE BucketOf(d, n) = BucketOf(x, n)
      <4>1. Rest(M2, n, rank2, d) = Rest(M, n, rank, d) \cup {x}
        BY <1>8, <3>1, <3>7
      <4>2. c \in Rest(M, n, rank, d)
        BY <1>1, <1>7, <2>3, <3>1, <3>7, PlacesInOrder
      <4> QED
        BY <3>1, <3>2, <3>3, <3>4, <3>5, <4>1, <4>2 DEF First
    <3> QED
      BY <3>6, <3>7
  <2> QED
    BY <2>1, <2>2, <2>3
<1>10. Table(links2, n, M2, N + 1, rank2)
  BY <1>2, <1>4, <1>6, <1>9 DEF Table
<1> QED
  BY <1>10 DEF IsTable, links2

\* A handle takes the place of the one with its key.
LEMMA ReplaceTable ==
    ASSUME NEW n, NEW links, NEW M, IsTable(links, n, M), NEW x \in Handles \ M,
           NEW c \in Places(M, n), At(links, c) # nullptr, KeyOf[At(links, c)] = KeyOf[x]
    PROVE  LET o == At(links, c) IN
           IsTable(Stored(Stored(links, x, links.next[o]), c, x), n, (M \ {o}) \cup {x})
<1>1. PICK N, rank : Table(links, n, M, N, rank)
  BY DEF IsTable
<1>2. /\ n \in Nat \ {0} /\ M \in SUBSET Handles /\ LinksOK(links, n)
      /\ N \in Nat /\ rank \in [M -> 0 .. N]
      /\ \A g, h \in M : rank[g] = rank[h] => g = h
      /\ \A d \in Places(M, n) : First(At(links, d), Rest(M, n, rank, d), rank)
      /\ Distinct(M)
  BY <1>1 DEF Table, Ranked
<1>3. \A i \in 0 .. n - 1 : i \notin Handles
  BY <1>2, BucketFacts
<1> DEFINE o == At(links, c)
           links2 == Stored(Stored(links, x, links.next[o]), c, x)
           M2 == (M \ {o}) \cup {x}
           rank2 == [g \in M2 |-> IF g = x THEN rank[o] ELSE rank[g]]
<1>4. /\ o \in M /\ o \in Rest(M, n, rank, c) /\ o # c
      /\ BucketOf(o, n) = BucketOf(c, n)
      /\ Rest(M, n, rank, o) = Rest(M, n, rank, c) \ {o}
      /\ \A d \in Places(M, n) : At(links, d) = o => d = c
  BY <1>1, RestSteps
<1>5. o \in Handles /\ BucketOf(o, n) = BucketOf(x, n) /\ KeyOf[o] = KeyOf[x]
  BY <1>2, <1>4 DEF BucketOf
<1> HIDE DEF o
<1>6. At(links, o) = links.next[o] /\ At(links, o) \in Pointers
  BY <1>2, <1>5 DEF At, LinksOK
<1>7. /\ LinksOK(links2, n)
      /\ \A d \in Places(M2, n) :
             At(links2, d) = IF d = c THEN x ELSE IF d = x THEN At(links, o) ELSE At(links, d)
  <2>1. /\ x \in Places(Handles, n) /\ c \in Places(Handles, n)
        /\ \A d \in Places(M2, n) : d \in Places(Handles, n)
        /\ x \in Pointers
    BY <1>2 DEF Places, Pointers
  <2>2. /\ LinksOK(Stored(links, x, links.next[o]), n)
        /\ \A d \in Places(Handles, n) :
               At(Stored(links, x, links.next[o]), d) = IF d = x THEN links.next[o] ELSE At(links, d)
    BY <1>2, <1>6, <2>1, StoredFacts
  <2>3. /\ LinksOK(links2, n)
        /\ \A d \in Places(Handles, n) :
               At(links2, d) = IF d = c THEN x ELSE At(Stored(links, x, links.next[o]), d)
    BY <1>2, <2>1, <2>2, StoredFacts
  <2> QED
    BY <1>6, <2>1, <2>2, <2>3
<1> HIDE DEF links2
<1>8. c # x
  BY <1>3 DEF Places
<1>9. Ranked(M2, N, rank2) /\ Distinct(M2)
  <2>1. rank2 \in [M2 -> 0 .. N]
    BY <1>2, <1>4
  <2>2. \A g, h \in M2 : rank2[g] = rank2[h] => g = h
    BY <1>2, <1>4
  <2>3. Distinct(M2)
    BY <1>2, <1>4, <1>5 DEF Distinct
  <2> QED
    BY <1>2, <2>1, <2>2, <2>3 DEF Ranked
<1>10. /\ \A g \in M \ {o} : g \in M2 /\ g # x /\ rank2[g] = rank[g]
       /\ x \in M2 /\ rank2[x] = rank[o] /\ x \notin M
  OBVIOUS
<1> HIDE DEF rank2
\* In the chains x stands where o stood.
<1>11. ASSUME NEW d \in Places(M, n), d # o
       PROVE  Rest(M2, n, rank2, d) =
                  IF o \in Rest(M, n, rank, d) THEN (Rest(M, n, rank, d) \ {o}) \cup {x}
                  ELSE Rest(M, n, rank, d)
  <2>1. d \in Handles => d \in M \ {o} /\ rank2[d] = rank[d]
    BY <1>3, <1>10, <1>11 DEF Places
  <2>2. \A g \in M \ {o} : g \in Rest(M2, n, rank2, d) <=> g \in Rest(M, n, rank, d)
    BY <1>10, <2>1 DEF Rest
  <2>3. x \in Rest(M2, n, rank2, d) <=> o \in Rest(M, n, rank, d)
    BY <1>4, <1>5, <1>10, <2>1 DEF Rest
  <2>4. Rest(M2, n, rank2, d) \subseteq M2 /\ Rest(M, n, rank, d) \subseteq M
    BY DEF Rest
  <2> QED
    BY <1>10, <2>2, <2>3, <2>4
<1>12. Rest(M2, n, rank2, x) = Rest(M, n, rank, o)
  <2>1. \A g \in M \ {o} : g \in Rest(M2, n, rank2, x) <=> g \in Rest(M, n, rank, o)
    BY <1>5, <1>10 DEF Rest
  <2>2. rank[o] \in Int
    BY <1>2, <1>4
  <2>3. o \notin Rest(M, n, rank, o) /\ x \notin Rest(M2, n, rank2, x)
    BY <1>5, <1>10, <2>2 DEF Rest
  <2>4. Rest(M2, n, rank2, x) \subseteq M2 /\ Rest(M, n, rank, o) \subseteq M
    BY DEF Rest
  <2> QED
    BY <1>10, <2>1, <2>3, <2>4
<1>13. ASSUME NEW d \in Places(M2, n)
       PROVE  First(At(links2, d), Rest(M2, n, rank2, d), rank2)
  <2>1. CASE d = x
    <3>1. At(links2, d) = At(links, o)
      BY <1>7, <1>8, <2>1
    <3>2. First(At(links, o), Rest(M, n, rank, o), rank)
      BY <1>2, <1>4 DEF Places
    <3>3. Rest(M, n, rank, o) \subseteq M \ {o}
      BY <1>4 DEF Rest
    <3> QED
      BY <1>10, <1>12, <2>1, <3>1, <3>2, <3>3 DEF First
  <2>2. CASE d = c
    <3>1. At(links2, d) = x
      BY <1>7, <2>2
    <3>2. Rest(M2, n, rank2, d) = (Rest(M, n, rank, c) \ {o}) \cup {x}
      BY <1>4, <1>11, <2>2
    <3>3. \A g \in Rest(M, n, rank, c) : g \in M /\ rank[g] <= rank[o]
      <4>1. First(o, Rest(M, n, rank, c), rank)
        BY <1>2 DEF o
      <4>2. o # nullptr
        BY DEF o
      <4> QED
        BY <4>1, <4>2 DEF First, Rest
    <3>4. rank[o] <= rank[o]
      BY <1>2, <1>4
    <3> QED
      BY <1>10, <3>1, <3>2, <3>3, <3>4 DEF First
  <2>3. CASE d # x /\ d # c
    <3>1. d \in Places(M, n) /\ d # o /\ At(links2, d) = At(links, d)
      BY <1>3, <1>5, <1>7, <2>3 DEF Places
    <3>2. At(links, d) # o
      BY <1>4, <2>3, <3>1
    <3>3. First(At(links, d), Rest(M, n, rank, d), rank)
      BY <1>2, <3>1
    <3>4. Rest(M, n, rank, d) \subseteq M
      BY DEF Rest
    <3>5. CASE o \notin Rest(M, n, rank, d)
      <4>1. Rest(M2, n, rank2, d) = Rest(M, n, rank, d)
        BY <1>11, <3>1, <3>5
      <4>2. Rest(M, n, rank, d) \subseteq M \ {o}
        BY <3>4, <3>5
      <4> QED
        BY <1>10, <3>1, <3>3, <4>1, <4>2 DEF First
    <3>6. CASE o \in Rest(M, n, rank, d)
      <4>1. Rest(M2, n, rank2, d) = (Rest(M, n, rank, d) \ {o}) \cup {x}
        BY <1>11, <3>1, <3>6
      <4>2. /\ At(links, d) \in Rest(M, n, rank, d)
            /\ \A g \in Rest(M, n, rank, d) : rank[g] <= rank[At(links, d)]
        BY <3>3, <3>6 DEF First
      <4> QED
        BY <1>10, <3>1, <3>2, <3>4, <3>6, <4>1, <4>2 DEF First
    <3> QED
      BY <3>5, <3>6
  <2> QED
    BY <2>1, <2>2, <2>3
<1>14. Table(links2, n, M2, N, rank2)
  BY <1>2, <1>7, <1>9, <1>13 DEF Table
<1> QED
  BY <1>14 DEF IsTable, links2, o

\* A handle is taken out.
LEMMA RemoveTable ==
    ASSUME NEW n, NEW links, NEW M, IsTable(links, n, M),
           NEW c \in Places(M, n), At(links, c) # nullptr
    PROVE  LET o == At(links, c) IN
           IsTable(Stored(links, c, links.next[o]), n, M \ {o})
<1>1. PICK N, rank : Table(links, n, M, N, rank)
  BY DEF IsTable
<1>2. /\ n \in Nat \ {0} /\ M \in SUBSET Handles /\ LinksOK(links, n)
      /\ N \in Nat /\ rank \in [M -> 0 .. N]
      /\ \A g, h \in M : rank[g] = rank[h] => g = h
      /\ \A d \in Places(M, n) : First(At(links, d), Rest(M, n, rank, d), rank)
      /\ Distinct(M)
  BY <1>1 DEF Table, Ranked
<1>3. \A i \in 0 .. n - 1 : i \notin Handles
  BY <1>2, BucketFacts
<1> DEFINE o == At(links, c)
           links2 == Stored(links, c, links.next[o])
           M2 == M \ {o}
           rank2 == [g \in M2 |-> rank[g]]
<1>4. /\ o \in M /\ o \in Rest(M, n, rank, c) /\ o # c
      /\ Rest(M, n, rank, o) = Rest(M, n, rank, c) \ {o}
      /\ \A d \in Places(M, n) : At(links, d) = o => d = c
  BY <1>1, RestSteps
<1> HIDE DEF o
<1>5. At(links, o) = links.next[o] /\ At(links, o) \in Pointers
  BY <1>2, <1>4 DEF At, LinksOK
<1>6. /\ LinksOK(links2, n)
      /\ \A d \in Places(M2, n) :
             At(links2, d) = IF d = c THEN At(links, o) ELSE At(links, d)
  <2>1. /\ c \in Places(Handles, n)
        /\ \A d \in Places(M2, n) : d \in Places(Handles, n)
    BY <1>2 DEF Places
  <2>2. /\ LinksOK(links2, n)
        /\ \A d \in Places(Handles, n) :
               At(links2, d) = IF d = c THEN links.next[o] ELSE At(links, d)
    BY <1>2, <1>5, <2>1, StoredFacts
  <2> QED
    BY <1>5, <2>1, <2>2
<1> HIDE DEF links2
<1>7. Ranked(M2, N, rank2) /\ Distinct(M2)
  <2>1. rank2 \in [M2 -> 0 .. N]
    BY <1>2
  <2>2. \A g, h \in M2 : rank2[g] = rank2[h] => g = h
    BY <1>2
  <2>3. Distinct(M2)
    BY <1>2 DEF Distinct
  <2> QED
    BY <1>2, <2>1, <2>2, <2>3 DEF Ranked
<1>8. \A g \in M2 : g \in M /\ rank2[g] = rank[g]
  OBVIOUS
<1> HIDE DEF rank2
<1>9. ASSUME NEW d \in Places(M2, n)
      PROVE  Rest(M2, n, rank2, d) = Rest(M, n, rank, d) \ {o}
  <2>1. d \in Handles => d \in M2
    BY <1>3 DEF Places
  <2>2. \A g \in M2 : g \in Rest(M2, n, rank2, d) <=> g \in Rest(M, n, rank, d)
    BY <1>8, <2>1 DEF Rest
  <2>3. Rest(M2, n, rank2, d) \subseteq M2 /\ Rest(M, n, rank, d) \subseteq M
    BY DEF Rest
  <2> QED
    BY <2>2, <2>3
<1>10. ASSUME NEW d \in Places(M2, n)
       PROVE  First(At(links2, d), Rest(M2, n, rank2, d), rank2)
  <2>1. d \in Places(M, n) /\ Rest(M, n, rank, d) \subseteq M
    BY DEF Places, Rest
  <2>2. CASE d = c
    <3>1. At(links2, d) = At(links, o) /\ Rest(M2, n, rank2, d) = Rest(M, n, rank, o)
      BY <1>4, <1>6, <1>9, <2>2
    <3>2. First(At(links, o), Rest(M, n, rank, o), rank)
      BY <1>2, <1>4 DEF Places
    <3>3. Rest(M, n, rank, o) \subseteq M2
      BY <1>4 DEF Rest
    <3> QED
      BY <1>8, <3>1, <3>2, <3>3 DEF First
  <2>3. CASE d # c
    <3>1. At(links2, d) = At(links, d) /\ At(links, d) # o
      BY <1>4, <1>6, <2>1, <2>3
    <3>2. First(At(links, d), Rest(M, n, rank, d), rank)
      BY <1>2, <2>1
    <3> QED
      BY <1>8, <1>9, <2>1, <3>1, <3>2 DEF First
  <2> QED
    BY <2>2, <2>3
<1>11. Table(links2, n, M2, N, rank2)
  BY <1>2, <1>6, <1>7, <1>10 DEF Table
<1> QED
  BY <1>11 DEF IsTable, links2, o

\* A handle of a new key, put in front of its bucket.
LEMMA PushTable ==
    ASSUME NEW n, NEW links, NEW M, IsTable(links, n, M),
           NEW x \in Handles \ M, \A g \in M : KeyOf[g] # KeyOf[x],
           NEW links2,
           links2 = [list |-> [links.list EXCEPT ![Bucket(KeyOf[x], n)] = x],
                     next |-> [links.next EXCEPT ![x] = links.list[Bucket(KeyOf[x], n)]]]
    PROVE  IsTable(links2, n, M \cup {x})
<1>1. PICK N, rank : Table(links, n, M, N, rank)
  BY DEF IsTable
<1>2. /\ n \in Nat \ {0} /\ M \in SUBSET Handles /\ LinksOK(links, n)
      /\ N \in Nat /\ rank \in [M -> 0 .. N]
      /\ \A g, h \in M : rank[g] = rank[h] => g = h
      /\ \A d \in Places(M, n) : First(At(links, d), Rest(M, n, rank, d), rank)
      /\ Distinct(M)
  BY <1>1 DEF Table, Ranked
<1> DEFINE j == Bucket(KeyOf[x], n)
           M2 == M \cup {x}
           rank2 == [g \in M2 |-> IF g = x THEN N + 1 ELSE rank[g]]
<1>3. /\ \A i \in 0 .. n - 1 : i \notin Handles /\ BucketOf(i, n) = i
      /\ j \in 0 .. n - 1 /\ BucketOf(x, n) = j
  BY <1>2, BucketFacts DEF BucketOf
<1> HIDE DEF j
<1>4. /\ links2 = [list |-> [links.list EXCEPT ![j] = x],
                   next |-> [links.next EXCEPT ![x] = links.list[j]]]
      /\ links.list \in [0 .. n - 1 -> Pointers] /\ links.next \in [Handles -> Pointers]
      /\ x \in Pointers
  BY <1>2 DEF LinksOK, j, Pointers
<1>5. LinksOK(links2, n)
  <2>1. links.list[j] \in Pointers
    BY <1>3, <1>4
  <2>2. [links.list EXCEPT ![j] = x] \in [0 .. n - 1 -> Pointers]
    BY <1>4
  <2>3. [links.next EXCEPT ![x] = links.list[j]] \in [Handles -> Pointers]
    BY <1>4, <2>1
  <2> DEFINE list2 == [links.list EXCEPT ![j] = x]
             next2 == [links.next EXCEPT ![x] = links.list[j]]
  <2>4. links2 = [list |-> list2, next |-> next2]
    BY <1>4
  <2> HIDE DEF list2, next2
  <2>5. list2 \in [0 .. n - 1 -> Pointers] /\ next2 \in [Handles -> Pointers]
    BY <2>2, <2>3 DEF list2, next2
  <2>6. LinksOK([list |-> list2, next |-> next2], n)
    BY <2>5, LinksMade
  <2> QED
    BY <2>4, <2>6
<1>6. /\ At(links2, j) = x /\ At(links2, x) = At(links, j)
      /\ \A d \in Places(M, n) : d # j => At(links2, d) = At(links, d)
  BY <1>2, <1>3, <1>4 DEF At, Places
<1>7. Ranked(M2, N + 1, rank2) /\ Distinct(M2)
  <2>1. rank2 \in [M2 -> 0 .. N + 1]
    BY <1>2
  <2>2. \A g, h \in M2 : rank2[g] = rank2[h] => g = h
    BY <1>2
  <2>3. Distinct(M2)
    BY <1>2 DEF Distinct
  <2> QED
    BY <1>2, <2>1, <2>2, <2>3 DEF Ranked
<1>8. /\ \A g \in M : g \in M2 /\ g # x /\ rank2[g] = rank[g] /\ rank2[g] \in 0 .. N
      /\ rank2[x] = N + 1 /\ N \in Nat /\ x \in M2
  BY <1>2
<1> HIDE DEF rank2
<1>9. ASSUME NEW d \in Places(M, n)
      PROVE  Rest(M2, n, rank2, d) =
                 IF d = j THEN Rest(M, n, rank, d) \cup {x} ELSE Rest(M, n, rank, d)
  <2>1. d \in Handles => d \in M
    BY <1>3 DEF Places
  <2>2. \A g \in M : g \in Rest(M2, n, rank2, d) <=> g \in Rest(M, n, rank, d)
    BY <1>8, <2>1 DEF Rest
  <2>3. x \in Rest(M2, n, rank2, d) <=> d = j
    <3>1. CASE d \in Handles
      <4>1. ~ (rank2[x] < rank2[d])
        BY <1>8, <2>1, <3>1
      <4> QED
        BY <1>3, <3>1, <4>1 DEF Rest
    <3>2. CASE d \notin Handles
      <4>1. d \in 0 .. n - 1
        BY <1>2, <3>2 DEF Places
      <4> QED
        BY <1>3, <1>8, <3>2, <4>1 DEF Rest
    <3> QED
      BY <3>1, <3>2
  <2>4. Rest(M2, n, rank2, d) \subseteq M2 /\ Rest(M, n, rank, d) \subseteq M
    BY DEF Rest
  <2>5. CASE d = j
    BY <1>8, <2>2, <2>3, <2>4, <2>5
  <2>6. CASE d # j
    <3>1. x \notin Rest(M2, n, rank2, d)
      BY <2>3, <2>6
    <3>2. \A g : g \in Rest(M2, n, rank2, d) <=> g \in Rest(M, n, rank, d)
      BY <2>2, <2>4, <3>1
    <3>3. Rest(M2, n, rank2, d) = Rest(M, n, rank, d)
      BY <3>2
    <3> QED
      BY <2>6, <3>3
  <2> QED
    BY <2>5, <2>6
<1>10. Rest(M2, n, rank2, x) = Rest(M, n, rank, j)
  <2>1. \A g \in M : rank2[g] < rank2[x]
    BY <1>8
  <2>2. \A g \in M : g \in Rest(M2, n, rank2, x) <=> g \in Rest(M, n, rank, j)
    BY <1>3, <1>8, <2>1 DEF Rest
  <2>3. x \notin Rest(M2, n, rank2, x)
    BY <1>8 DEF Rest
  <2>4. Rest(M2, n, rank2, x) \subseteq M2 /\ Rest(M, n, rank, j) \subseteq M
    BY DEF Rest
  <2> QED
    BY <1>8, <2>2, <2>3, <2>4
<1>11. ASSUME NEW d \in Places(M2, n)
       PROVE  First(At(links2, d), Rest(M2, n, rank2, d), rank2)
  <2>1. CASE d = x
    <3>1. First(At(links, j), Rest(M, n, rank, j), rank) /\ Rest(M, n, rank, j) \subseteq M
      BY <1>2, <1>3 DEF Places, Rest
    <3> QED
      BY <1>6, <1>8, <1>10, <2>1, <3>1 DEF First
  <2>2. CASE d = j
    <3>1. Rest(M2, n, rank2, d) = Rest(M, n, rank, j) \cup {x} /\ Rest(M, n, rank, j) \subseteq M
      BY <1>3, <1>9, <2>2 DEF Places, Rest
    <3>2. \A g \in M : rank2[g] <= rank2[x]
      BY <1>8
    <3>3. rank2[x] <= rank2[x]
      BY <1>8
    <3> QED
      BY <1>6, <2>2, <3>1, <3>2, <3>3 DEF First
  <2>3. CASE d # x /\ d # j
    <3>1. d \in Places(M, n)
      BY <2>3 DEF Places
    <3>2. First(At(links, d), Rest(M, n, rank, d), rank) /\ Rest(M, n, rank, d) \subseteq M
      BY <1>2, <3>1 DEF Rest
    <3> QED
      BY <1>6, <1>8, <1>9, <2>3, <3>1, <3>2 DEF First
  <2> QED
    BY <2>1, <2>2, <2>3
<1>12. Table(links2, n, M2, N + 1, rank2)
  BY <1>2, <1>5, <1>7, <1>11 DEF Table
<1> QED
  BY <1>12 DEF IsTable

\* The handles that the links of a table lead to are its handles: each is
\* behind the place of least height that it is behind of.
LEMMA SpreadFills ==
    ASSUME NEW n, NEW links, NEW M, IsTable(links, n, M),
           NEW R \in SUBSET M, Spread(links, R) = R
    PROVE  R = M
<1>1. PICK N, rank : Table(links, n, M, N, rank)
  BY DEF IsTable
<1>2. /\ n \in Nat \ {0} /\ M \in SUBSET Handles /\ LinksOK(links, n)
      /\ N \in Nat /\ rank \in [M -> 0 .. N]
      /\ \A g, h \in M : rank[g] = rank[h] => g = h
      /\ \A d \in Places(M, n) : First(At(links, d), Rest(M, n, rank, d), rank)
  BY <1>1 DEF Table, Ranked
<1>3. /\ \A i \in 0 .. n - 1 : i \notin Handles /\ BucketOf(i, n) = i
      /\ \A h \in Handles : BucketOf(h, n) \in 0 .. n - 1
      /\ nullptr \notin Handles
  BY <1>2, BucketFacts
<1> SUFFICES ASSUME M \ R # {} PROVE FALSE
  OBVIOUS
<1> DEFINE fall == [g \in M |-> N - rank[g]]
<1>4. \E x \in M \ R : \A g \in M \ R : fall[x] <= fall[g]
  <2>1. \A g \in M \ R : fall[g] \in Nat
    BY <1>2
  <2> HIDE DEF fall
  <2> QED
    BY <2>1, LeastRank
<1>5. PICK x \in M \ R : \A g \in M \ R : rank[g] <= rank[x]
  <2>1. \A g, h \in M : fall[g] <= fall[h] => rank[h] <= rank[g]
    BY <1>2
  <2> QED
    BY <1>4, <2>1
\* The places that x is behind of, and how far from the end they are.
<1> DEFINE C == {c \in Places(M, n) : x \in Rest(M, n, rank, c)}
           height == [c \in Places(M, n) |-> IF c \in Handles THEN rank[c] ELSE N + 1]
<1>6. BucketOf(x, n) \in C
  <2>1. BucketOf(x, n) \in 0 .. n - 1
    BY <1>2, <1>3
  <2> QED
    BY <1>3, <2>1 DEF Rest, Places
<1>7. /\ \A c \in Places(M, n) : height[c] \in Nat
      /\ \A c \in Places(M, n) \cap Handles : c \in M /\ height[c] = rank[c]
      /\ \A c \in Places(M, n) \ Handles : height[c] = N + 1
  BY <1>2, <1>3 DEF Places
<1> HIDE DEF height
<1>8. \E c \in C : \A d \in C : height[c] <= height[d]
  BY <1>6, <1>7, LeastRank
<1>9. PICK c \in C : \A d \in C : height[c] <= height[d]
  BY <1>8
<1> DEFINE y == At(links, c)
<1>10. y # nullptr
  <2>1. First(y, Rest(M, n, rank, c), rank) /\ x \in Rest(M, n, rank, c)
    BY <1>2, <1>9
  <2>2. Rest(M, n, rank, c) \subseteq Handles
    BY <1>2 DEF Rest
  <2> QED
    BY <1>3, <2>1, <2>2 DEF First
<1>11. /\ y \in M /\ y \in Rest(M, n, rank, c)
       /\ Rest(M, n, rank, y) = Rest(M, n, rank, c) \ {y}
  BY <1>1, <1>9, <1>10, RestSteps
<1>12. y = x
  <2> SUFFICES ASSUME y # x PROVE FALSE
    OBVIOUS
  <2>1. y \in C
    BY <1>9, <1>11 DEF Places
  <2>2. height[c] <= height[y] /\ height[y] = rank[y] /\ rank[y] \in 0 .. N
    BY <1>2, <1>7, <1>9, <1>11, <2>1
  <2>3. CASE c \in Handles
    <3>1. height[c] = rank[c] /\ rank[y] < rank[c] /\ rank[c] \in 0 .. N
      BY <1>2, <1>7, <1>9, <1>11, <2>3 DEF Rest
    <3> QED
      BY <1>2, <2>2, <3>1
  <2>4. CASE c \notin Handles
    <3>1. height[c] = N + 1
      BY <1>7, <1>9, <2>4
    <3> QED
      BY <1>2, <2>2, <3>1
  <2> QED
    BY <2>3, <2>4
<1>13. CASE c \in Handles
  <2>1. c \in M /\ rank[x] < rank[c]
    BY <1>7, <1>9, <1>13 DEF Rest
  <2>2. c \in R
    BY <1>2, <1>5, <2>1
  <2>3. links.next[c] = x
    BY <1>12, <1>13 DEF At
  <2>4. x \in Spread(links, R)
    BY <1>2, <1>3, <2>2, <2>3 DEF Spread
  <2> QED
    BY <2>4
<1>14. CASE c \notin Handles
  <2>1. c \in 0 .. n - 1 /\ links.list[c] = x
    BY <1>2, <1>9, <1>12, <1>14 DEF At, Places
  <2>2. DOMAIN links.list = 0 .. n - 1
    BY <1>2 DEF LinksOK
  <2>3. x \in Spread(links, R)
    BY <1>2, <1>3, <2>1, <2>2 DEF Spread
  <2> QED
    BY <2>3
<1> QED
  BY <1>13, <1>14

LEMMA ReachedFacts ==
    ASSUME NEW n, NEW links, NEW M, IsTable(links, n, M)
    PROVE  Reached(links) = M
<1>1. PICK N, rank : Table(links, n, M, N, rank)
  BY DEF IsTable
<1>2. /\ n \in Nat \ {0} /\ M \in SUBSET Handles /\ LinksOK(links, n)
      /\ \A d \in Places(M, n) : First(At(links, d), Rest(M, n, rank, d), rank)
  BY <1>1 DEF Table
<1>3. /\ \A i \in 0 .. n - 1 : i \notin Handles
      /\ nullptr \notin Handles
  BY <1>2, BucketFacts
<1>4. /\ links.list \in [0 .. n - 1 -> Pointers] /\ links.next \in [Handles -> Pointers]
  BY <1>2 DEF LinksOK
\* No link leads out of M.
<1>5. /\ \A i \in 0 .. n - 1 : links.list[i] \in M \cup {nullptr}
      /\ \A h \in M : links.next[h] \in M \cup {nullptr}
  <2>1. \A c \in Places(M, n) : At(links, c) \in M \cup {nullptr}
    BY <1>2 DEF First, Rest
  <2> QED
    BY <1>2, <1>3, <2>1 DEF At, Places
<1>6. /\ \A S \in SUBSET Handles : Spread(links, S) \in SUBSET Handles
      /\ \A S \in SUBSET M : Spread(links, S) \in SUBSET M
      /\ \A S : nullptr \notin S => S \subseteq Spread(links, S)
  BY <1>2, <1>3, <1>4, <1>5 DEF Spread, Pointers
<1> DEFINE Grown[S \in SUBSET Handles] ==
               IF Spread(links, S) = S THEN S ELSE Grown[Spread(links, S)]
           stops == {S \in SUBSET Handles : Spread(links, S) = S}
           step == [S \in SUBSET Handles |-> Spread(links, S)]
           left == [S \in SUBSET M |-> Cardinality(M) - Cardinality(S)]
<1>7. Reached(links) = Grown[{}]
  BY DEF Reached
<1>8. IsLoop(Grown, SUBSET Handles, stops, step)
  <2>1. stops \in SUBSET SUBSET Handles /\ \A S \in (SUBSET Handles) \ stops : step[S] \in SUBSET Handles
    BY <1>6
  <2> HIDE DEF stops, step
  <2>2. \E f : IsLoop(f, SUBSET Handles, stops, step)
    BY <2>1, LoopExists
  <2>3. PICK f : IsLoop(f, SUBSET Handles, stops, step)
    BY <2>2
  <2>4. f = [S \in SUBSET Handles |-> IF Spread(links, S) = S THEN S ELSE f[Spread(links, S)]]
    BY <2>3 DEF IsLoop, stops, step
  <2>5. Grown = [S \in SUBSET Handles |->
                     IF Spread(links, S) = S THEN S ELSE Grown[Spread(links, S)]]
    BY <2>4
  <2> HIDE DEF Grown
  <2> QED
    BY <2>5 DEF IsLoop, stops, step
<1> HIDE DEF Grown
<1>9. IsFiniteSet(M) /\ Cardinality(M) \in Nat
  BY <1>2, HandlesAssumption, FS_Subset, FS_CardinalityType
<1>10. \A S \in SUBSET M : left[S] \in Nat
  <2>1. ASSUME NEW S \in SUBSET M PROVE Cardinality(S) \in Nat /\ Cardinality(S) <= Cardinality(M)
    BY <1>9, FS_Subset, FS_CardinalityType
  <2> QED
    BY <1>9, <2>1
<1>11. ASSUME NEW S \in (SUBSET M) \ stops
       PROVE  step[S] \in SUBSET M /\ left[step[S]] < left[S]
  <2>1. step[S] = Spread(links, S) /\ Spread(links, S) # S
    BY <1>2
  <2>2. step[S] \in SUBSET M /\ S \subseteq step[S]
    BY <1>2, <1>3, <1>6, <2>1
  <2>3. IsFiniteSet(step[S]) /\ Cardinality(step[S]) \in Nat /\ Cardinality(S) \in Nat
    BY <1>9, <2>2, FS_Subset, FS_CardinalityType
  <2>4. Cardinality(S) <= Cardinality(step[S]) /\ Cardinality(S) # Cardinality(step[S])
    BY <2>1, <2>2, <2>3, FS_Subset
  <2>5. left[step[S]] = Cardinality(M) - Cardinality(step[S])
        /\ left[S] = Cardinality(M) - Cardinality(S)
    BY <2>2
  <2> HIDE DEF left, step
  <2> QED
    BY <1>9, <2>2, <2>3, <2>4, <2>5
<1>12. Grown[{}] \in (SUBSET M) \cap stops
  <2> HIDE DEF stops, step, left
  <2>1. SUBSET M \in SUBSET SUBSET Handles /\ {} \in SUBSET M
    BY <1>2
  <2> DEFINE All == SUBSET Handles
             T == SUBSET M
  <2>2. /\ IsLoop(Grown, All, stops, step) /\ T \in SUBSET All
        /\ \A S \in T : left[S] \in Nat
        /\ \A S \in T \ stops : step[S] \in T /\ left[step[S]] < left[S]
    BY <1>8, <1>10, <1>11, <2>1
  <2> HIDE DEF All, T
  <2>3. \A S \in T : Grown[S] \in T \cap stops
    BY <2>2, LoopEnds
  <2> QED
    BY <2>1, <2>3 DEF T
<1> QED
  BY <1>7, <1>12, SpreadFills

-----------------------------------------------------------------------------
(* Lemmas about FindPointer and NewLength                                  *)

\* FindPointer comes to the place that leads to the handle of k, or to the end of
\* k's bucket if there is none: it never passes over the handle of k.
LEMMA FindPointerFacts ==
    ASSUME NEW M, IsTable(Links, length_, M), NEW k \in Keys
    PROVE  LET c == FindPointer(k) IN
           /\ c \in Places(M, length_) /\ BucketOf(c, length_) = Bucket(k, length_)
           /\ Deref(c) = At(Links, c)
           /\ \/ Deref(c) = nullptr /\ \A g \in M : KeyOf[g] # k
              \/ Deref(c) \in M /\ KeyOf[Deref(c)] = k
<1> DEFINE n == length_
<1>1. PICK N, rank : Table(Links, n, M, N, rank)
  BY DEF IsTable
<1>2. /\ n \in Nat \ {0} /\ M \in SUBSET Handles /\ LinksOK(Links, n)
      /\ N \in Nat /\ rank \in [M -> 0 .. N]
      /\ \A d \in Places(M, n) : First(At(Links, d), Rest(M, n, rank, d), rank)
  BY <1>1 DEF Table, Ranked
<1>3. /\ \A i \in 0 .. n - 1 : i \notin Handles /\ BucketOf(i, n) = i
      /\ Bucket(k, n) \in 0 .. n - 1
      /\ nullptr \notin Handles
  BY <1>2, BucketFacts
<1>4. /\ list_ \in [0 .. n - 1 -> Pointers] /\ next_hash \in [Handles -> Pointers]
      /\ Links.list = list_ /\ Links.next = next_hash
  BY <1>2 DEF LinksOK, Links
<1>5. \A c : Deref(c) = At(Links, c)
  BY <1>4 DEF Deref, At
<1> DEFINE S == Handles \cup DOMAIN list_
           Find[c \in Handles \cup DOMAIN list_] ==
               IF Deref(c) = nullptr \/ Matches(Deref(c), k) THEN c ELSE Find[Deref(c)]
           stops == {c \in S : Deref(c) = nullptr \/ Matches(Deref(c), k)}
           step == [c \in S |-> Deref(c)]
           T == {c \in Places(M, n) : /\ BucketOf(c, n) = Bucket(k, n)
                                      /\ \A g \in M : KeyOf[g] = k => g \in Rest(M, n, rank, c)}
           height == [c \in Places(M, n) |-> IF c \in Handles THEN rank[c] ELSE N + 1]
<1>6. FindPointer(k) = Find[Bucket(k, n)]
  BY DEF FindPointer
<1>7. IsLoop(Find, S, stops, step)
  <2>1. stops \in SUBSET S /\ \A c \in S \ stops : step[c] \in S
    BY <1>4 DEF Deref, Pointers
  <2> HIDE DEF stops, step, S
  <2>2. \E f : IsLoop(f, S, stops, step)
    BY <2>1, LoopExists
  <2>3. PICK f : IsLoop(f, S, stops, step)
    BY <2>2
  <2>4. f = [c \in Handles \cup DOMAIN list_ |->
                 IF Deref(c) = nullptr \/ Matches(Deref(c), k) THEN c ELSE f[Deref(c)]]
    BY <2>3 DEF IsLoop, stops, step, S
  <2>5. Find = [c \in Handles \cup DOMAIN list_ |->
                    IF Deref(c) = nullptr \/ Matches(Deref(c), k) THEN c ELSE Find[Deref(c)]]
    BY <2>4
  <2> HIDE DEF Find
  <2> QED
    BY <2>5 DEF IsLoop, stops, step, S
<1> HIDE DEF Find
<1>8. T \in SUBSET S /\ \A c \in T : height[c] \in Nat
  BY <1>2, <1>3, <1>4 DEF Places
<1>9. Bucket(k, n) \in T
  <2>1. \A g \in M : KeyOf[g] = k => BucketOf(g, n) = Bucket(k, n)
    BY <1>2 DEF BucketOf
  <2> QED
    BY <1>3, <2>1 DEF Places, Rest
<1>10. ASSUME NEW c \in T \ stops
       PROVE  step[c] \in T /\ height[step[c]] < height[c]
  <2> DEFINE o == Deref(c)
  <2>1. step[c] = o /\ o # nullptr /\ ~Matches(o, k) /\ o = At(Links, c)
    BY <1>5, <1>8
  <2>2. /\ o \in M /\ o \in Rest(M, n, rank, c) /\ BucketOf(o, n) = BucketOf(c, n)
        /\ Rest(M, n, rank, o) = Rest(M, n, rank, c) \ {o}
    BY <1>1, <2>1, RestSteps
  <2>3. KeyOf[o] # k
    BY <2>1 DEF Matches
  <2> HIDE DEF o
  <2>4. o \in T
    BY <2>2, <2>3 DEF Places
  <2>5. height[o] = rank[o] /\ rank[o] \in 0 .. N
    BY <1>2, <2>2 DEF Places
  <2>6. CASE c \in Handles
    <3>1. c \in M
      BY <1>3, <2>6 DEF Places
    <3>2. height[c] = rank[c] /\ rank[o] < rank[c]
      BY <2>2, <2>6 DEF Rest
    <3> QED
      BY <2>1, <2>4, <2>5, <3>2
  <2>7. CASE c \notin Handles
    <3>1. height[c] = N + 1
      BY <2>7
    <3> QED
      BY <1>2, <2>1, <2>4, <2>5, <3>1
  <2> QED
    BY <2>6, <2>7
<1>11. Find[Bucket(k, n)] \in T \cap stops
  <2>1. \A c \in T \ stops : step[c] \in T /\ height[step[c]] < height[c]
    BY <1>10
  <2> HIDE DEF T, stops, step, height, S
  <2>2. \A c \in T : Find[c] \in T \cap stops
    BY <1>7, <1>8, <2>1, LoopEnds
  <2> QED
    BY <1>9, <2>2
<1>12. PICK c \in T \cap stops : c = FindPointer(k)
  BY <1>6, <1>11
<1>13. CASE Deref(c) = nullptr
  <2>1. First(nullptr, Rest(M, n, rank, c), rank) /\ Rest(M, n, rank, c) \subseteq Handles
    BY <1>2, <1>5, <1>13 DEF Rest
  <2>2. Rest(M, n, rank, c) = {}
    BY <1>3, <2>1 DEF First
  <2> QED
    BY <1>5, <1>12, <1>13, <2>2
<1>14. CASE Deref(c) # nullptr
  <2>1. Deref(c) \in M
    BY <1>1, <1>5, <1>14, RestSteps
  <2>2. KeyOf[Deref(c)] = k
    BY <1>12, <1>14 DEF Matches
  <2> QED
    BY <1>5, <1>12, <2>1, <2>2
<1> QED
  BY <1>13, <1>14

\* The numbers that every set with 1 and the doubles of its members has.
IsPowerOf2(n) ==
    \A P \in SUBSET Nat : 1 \in P /\ (\A m \in P : m * 2 \in P) => n \in P

LEMMA PowerFacts ==
    /\ IsPowerOf2(4)
    /\ \A n \in Nat : IsPowerOf2(n) => IsPowerOf2(n * 2)
<1>1. ASSUME NEW P \in SUBSET Nat, 1 \in P, \A m \in P : m * 2 \in P PROVE 4 \in P
  <2>1. 1 * 2 \in P
    BY <1>1
  <2>2. 2 \in P
    BY <2>1
  <2>3. 2 * 2 \in P
    BY <1>1, <2>2
  <2> QED
    BY <2>3
<1> QED
  BY <1>1 DEF IsPowerOf2

\* Resize doubles until the elements fit.
LEMMA NewLengthFacts ==
    ASSUME NEW elems \in Nat
    PROVE  /\ NewLength(elems) \in Nat \ {0} /\ elems <= NewLength(elems)
           /\ IsPowerOf2(NewLength(elems))
<1> DEFINE Double[n \in Nat] == IF n < elems THEN Double[n * 2] ELSE n
           stops == {n \in Nat : ~(n < elems)}
           step == [n \in Nat |-> n * 2]
           T == {n \in Nat \ {0} : IsPowerOf2(n)}
           left == [n \in Nat |-> IF n < elems THEN elems - n ELSE 0]
<1>1. NewLength(elems) = Double[4]
  BY DEF NewLength
<1>2. IsLoop(Double, Nat, stops, step)
  <2>1. stops \in SUBSET Nat /\ \A n \in Nat \ stops : step[n] \in Nat
    OBVIOUS
  <2> HIDE DEF stops, step
  <2>2. \E f : IsLoop(f, Nat, stops, step)
    BY <2>1, LoopExists
  <2>3. PICK f : IsLoop(f, Nat, stops, step)
    BY <2>2
  <2>4. f = [n \in Nat |-> IF n < elems THEN f[n * 2] ELSE n]
    BY <2>3 DEF IsLoop, stops, step
  <2>5. Double = [n \in Nat |-> IF n < elems THEN Double[n * 2] ELSE n]
    BY <2>4
  <2> HIDE DEF Double
  <2> QED
    BY <2>5 DEF IsLoop, stops, step
<1> HIDE DEF Double
<1>3. /\ T \in SUBSET Nat /\ 4 \in T
      /\ \A n \in T : left[n] \in Nat
      /\ \A n \in T \ stops : step[n] \in T /\ left[step[n]] < left[n]
  <2>1. IsPowerOf2(4)
    BY PowerFacts
  <2>2. \A n \in Nat : IsPowerOf2(n) => IsPowerOf2(n * 2)
    BY PowerFacts
  <2> QED
    BY <2>1, <2>2
<1>4. Double[4] \in T \cap stops
  <2> DEFINE All == Nat
  <2>1. /\ IsLoop(Double, All, stops, step) /\ T \in SUBSET All
        /\ \A n \in T : left[n] \in Nat
        /\ \A n \in T \ stops : step[n] \in T /\ left[step[n]] < left[n]
    BY <1>2, <1>3
  <2> HIDE DEF T, stops, step, left, All
  <2>2. \A n \in T : Double[n] \in T \cap stops
    BY <2>1, LoopEnds
  <2> QED
    BY <1>3, <2>2
<1> QED
  BY <1>1, <1>4

-----------------------------------------------------------------------------
(* Resize                                                                  *)

LinksOf(s) == [list |-> s.list, next |-> s.next]

\* A round of the inner loop moves one handle, one of the outer loop none.
LEMMA MovedFacts ==
    ASSUME NEW n \in Nat \ {0}, NEW m \in Nat \ {0}, NEW s \in Loops(n, m), s.h \in Handles
    PROVE  LET j == Bucket(KeyOf[s.h], m) IN
           /\ Moved(s, m) \in Loops(n, m)
           /\ Moved(s, m).i = s.i /\ Moved(s, m).h = s.next[s.h]
           /\ \A g \in Handles \ {s.h} : Moved(s, m).next[g] = s.next[g]
           /\ LinksOf(Moved(s, m)) = [list |-> [s.list EXCEPT ![j] = s.h],
                                      next |-> [s.next EXCEPT ![s.h] = s.list[j]]]
<1> DEFINE j == Bucket(KeyOf[s.h], m)
           list2 == [s.list EXCEPT ![j] = s.h]
           next2 == [s.next EXCEPT ![s.h] = s.list[j]]
<1>1. /\ s.i \in 0 .. n - 1 /\ s.h \in Pointers
      /\ s.list \in [0 .. m - 1 -> Pointers] /\ s.next \in [Handles -> Pointers]
  BY DEF Loops
<1>2. j \in 0 .. m - 1
  BY HandlesAssumption, BucketFacts
<1>3. Moved(s, m) = [s EXCEPT !.h = s.next[s.h], !.next = next2, !.list = list2]
  BY DEF Moved
<1> HIDE DEF j
<1>4. list2 \in [0 .. m - 1 -> Pointers]
  BY <1>1
<1>5. next2 \in [Handles -> Pointers] /\ s.next[s.h] \in Pointers
  BY <1>1, <1>2
<1>6. \A g \in Handles \ {s.h} : next2[g] = s.next[g]
  BY <1>1
<1>7. list2 = [s.list EXCEPT ![j] = s.h] /\ next2 = [s.next EXCEPT ![s.h] = s.list[j]]
  OBVIOUS
<1> HIDE DEF list2, next2
<1>8. s = [i |-> s.i, h |-> s.h, list |-> s.list, next |-> s.next]
  BY DEF Loops
<1>9. Moved(s, m) = [i |-> s.i, h |-> s.next[s.h], list |-> list2, next |-> next2]
  BY <1>3, <1>8
<1>10. Moved(s, m) \in Loops(n, m)
  BY <1>1, <1>4, <1>5, <1>9 DEF Loops
<1>11. LinksOf(Moved(s, m)) = [list |-> list2, next |-> next2]
  BY <1>9 DEF LinksOf
<1>12. /\ Moved(s, m).i = s.i /\ Moved(s, m).h = s.next[s.h]
       /\ \A g \in Handles \ {s.h} : Moved(s, m).next[g] = s.next[g]
  BY <1>6, <1>9
<1> QED
  BY <1>7, <1>10, <1>11, <1>12 DEF j

Advanced(s, links) == [s EXCEPT !.i = s.i + 1, !.h = links.list[s.i + 1]]

LEMMA AdvancedFacts ==
    ASSUME NEW n \in Nat \ {0}, NEW m \in Nat \ {0}, NEW links, LinksOK(links, n),
           NEW s \in Loops(n, m), s.i + 1 < n
    PROVE  /\ Advanced(s, links) \in Loops(n, m)
           /\ Advanced(s, links).i = s.i + 1 /\ Advanced(s, links).h = links.list[s.i + 1]
           /\ Advanced(s, links).next = s.next
           /\ LinksOf(Advanced(s, links)) = LinksOf(s)
<1> DEFINE v == links.list[s.i + 1]
<1>1. /\ s.i \in 0 .. n - 1
      /\ s.list \in [0 .. m - 1 -> Pointers] /\ s.next \in [Handles -> Pointers]
  BY DEF Loops
<1>2. s.i + 1 \in 0 .. n - 1
  BY <1>1
<1>3. v \in Pointers
  BY <1>2 DEF LinksOK
<1>4. Advanced(s, links) = [s EXCEPT !.i = s.i + 1, !.h = v]
  BY DEF Advanced
<1> HIDE DEF v
<1>5. s = [i |-> s.i, h |-> s.h, list |-> s.list, next |-> s.next]
  BY DEF Loops
<1>6. Advanced(s, links) = [i |-> s.i + 1, h |-> v, list |-> s.list, next |-> s.next]
  BY <1>4, <1>5
<1>7. Advanced(s, links) \in Loops(n, m)
  BY <1>1, <1>2, <1>3, <1>6 DEF Loops
<1>8. /\ Advanced(s, links).i = s.i + 1 /\ Advanced(s, links).h = v
      /\ Advanced(s, links).next = s.next
      /\ LinksOf(Advanced(s, links)) = LinksOf(s)
  BY <1>6 DEF LinksOf
<1> QED
  BY <1>7, <1>8 DEF v

\* What Resize's loops still have to move, when they are at s: of the old table's
\* handles M, those of the later buckets, and in bucket i the handle h and those
\* behind it.
Todo(s, n, M, rank) ==
    {g \in M : \/ s.i < BucketOf(g, n)
               \/ BucketOf(g, n) = s.i /\ s.h # nullptr /\ rank[g] <= rank[s.h]}

\* The others are a table already, and the links of those are as they were.
Moving(s, links, n, m, M, rank) ==
    /\ s \in Loops(n, m)
    /\ s.h # nullptr => s.h \in M /\ BucketOf(s.h, n) = s.i
    /\ IsTable(LinksOf(s), m, M \ Todo(s, n, M, rank))
    /\ \A g \in Todo(s, n, M, rank) : s.next[g] = links.next[g]

\* Rounds left, when no chain is longer than N + 1.
RoundsLeft(s, n, N, rank) ==
    (n - s.i) * (N + 2) + (IF s.h = nullptr THEN 0 ELSE rank[s.h] + 1)

LEMMA MovedMoves ==
    ASSUME NEW links, NEW n, NEW M, NEW N, NEW rank, Table(links, n, M, N, rank),
           NEW m \in Nat \ {0}, NEW s, Moving(s, links, n, m, M, rank), s.h # nullptr
    PROVE  /\ Moving(Moved(s, m), links, n, m, M, rank)
           /\ RoundsLeft(Moved(s, m), n, N, rank) < RoundsLeft(s, n, N, rank)
<1> DEFINE x == s.h
           s2 == Moved(s, m)
           D == M \ Todo(s, n, M, rank)
<1>1. /\ n \in Nat \ {0} /\ M \in SUBSET Handles /\ LinksOK(links, n)
      /\ N \in Nat /\ rank \in [M -> 0 .. N]
      /\ \A g, h \in M : rank[g] = rank[h] => g = h
      /\ \A d \in Places(M, n) : First(At(links, d), Rest(M, n, rank, d), rank)
      /\ Distinct(M)
  BY DEF Table, Ranked
<1>2. /\ s \in Loops(n, m) /\ x \in M /\ x \in Handles /\ BucketOf(x, n) = s.i
      /\ IsTable(LinksOf(s), m, D)
      /\ \A g \in Todo(s, n, M, rank) : s.next[g] = links.next[g]
  BY <1>1 DEF Moving
<1>3. /\ s2 \in Loops(n, m) /\ s2.i = s.i /\ s2.h = s.next[x]
      /\ \A g \in Handles \ {x} : s2.next[g] = s.next[g]
      /\ LinksOf(s2) = [list |-> [s.list EXCEPT ![Bucket(KeyOf[x], m)] = x],
                        next |-> [s.next EXCEPT ![x] = s.list[Bucket(KeyOf[x], m)]]]
  BY <1>1, <1>2, MovedFacts
<1> HIDE DEF s2, x
<1>4. s.i \in Int /\ rank[x] \in 0 .. N /\ \A g \in M : rank[g] \in 0 .. N
  BY <1>1, <1>2 DEF Loops
<1>5. x \in Todo(s, n, M, rank)
  BY <1>2, <1>4 DEF Todo, x
<1>6. s2.h = At(links, x) /\ x \in Places(M, n)
  BY <1>2, <1>3, <1>5 DEF At, Places
<1>7. /\ s2.h # nullptr => s2.h \in M /\ BucketOf(s2.h, n) = s.i
      /\ \A g \in M : BucketOf(g, n) = s.i /\ g # x =>
             (rank[g] <= rank[x] <=> s2.h # nullptr /\ rank[g] <= rank[s2.h])
      /\ s2.h # nullptr => rank[s2.h] \in 0 .. N /\ rank[s2.h] < rank[x]
  <2>1. First(s2.h, Rest(M, n, rank, x), rank)
    BY <1>1, <1>6
  <2>2. Rest(M, n, rank, x) = {g \in M : BucketOf(g, n) = s.i /\ rank[g] < rank[x]}
    BY <1>2 DEF Rest
  <2>3. CASE s2.h = nullptr
    <3>1. Rest(M, n, rank, x) = {}
      BY <1>1, <2>1, <2>2, <2>3, HandlesAssumption DEF First
    <3>2. \A g \in M : BucketOf(g, n) = s.i => ~ (rank[g] < rank[x])
      BY <2>2, <3>1
    <3>3. \A g \in M : g # x => rank[g] # rank[x]
      BY <1>1, <1>2
    <3> QED
      BY <1>4, <2>3, <3>2, <3>3
  <2>4. CASE s2.h # nullptr
    <3>1. /\ s2.h \in M /\ BucketOf(s2.h, n) = s.i /\ rank[s2.h] < rank[x]
          /\ \A g \in M : BucketOf(g, n) = s.i /\ rank[g] < rank[x] => rank[g] <= rank[s2.h]
      BY <2>1, <2>2, <2>4 DEF First
    <3>2. \A g \in M : g # x => rank[g] # rank[x]
      BY <1>1, <1>2
    <3> QED
      BY <1>4, <2>4, <3>1, <3>2
  <2> QED
    BY <2>3, <2>4
<1>8. Todo(s2, n, M, rank) = Todo(s, n, M, rank) \ {x}
  <2>1. x \notin Todo(s2, n, M, rank)
    BY <1>2, <1>3, <1>4, <1>7 DEF Todo
  <2>2. \A g \in M \ {x} : g \in Todo(s2, n, M, rank) <=> g \in Todo(s, n, M, rank)
    BY <1>3, <1>7 DEF Todo, x
  <2>3. Todo(s2, n, M, rank) \subseteq M /\ Todo(s, n, M, rank) \subseteq M
    BY DEF Todo
  <2> QED
    BY <2>1, <2>2, <2>3
<1>9. M \ Todo(s2, n, M, rank) = D \cup {x}
  BY <1>2, <1>5, <1>8
<1>10. IsTable(LinksOf(s2), m, D \cup {x})
  <2>1. x \in Handles \ D /\ \A g \in D : KeyOf[g] # KeyOf[x]
    BY <1>1, <1>2, <1>5 DEF Distinct
  <2>2. LinksOf(s).list = s.list /\ LinksOf(s).next = s.next
    BY DEF LinksOf
  <2> HIDE DEF D
  <2> QED
    BY <1>2, <1>3, <2>1, <2>2, PushTable
<1>11. \A g \in Todo(s2, n, M, rank) : s2.next[g] = links.next[g]
  BY <1>1, <1>2, <1>3, <1>8 DEF Todo
<1>12. Moving(s2, links, n, m, M, rank)
  BY <1>3, <1>7, <1>9, <1>10, <1>11 DEF Moving
<1>13. RoundsLeft(s2, n, N, rank) < RoundsLeft(s, n, N, rank)
  <2>1. PICK r \in Int : r = (n - s.i) * (N + 2)
    BY <1>1, <1>4
  <2>2. RoundsLeft(s, n, N, rank) = r + (rank[x] + 1)
    BY <2>1 DEF RoundsLeft, x
  <2>3. RoundsLeft(s2, n, N, rank) = r + (IF s2.h = nullptr THEN 0 ELSE rank[s2.h] + 1)
    BY <1>3, <2>1 DEF RoundsLeft
  <2> QED
    BY <1>4, <1>7, <2>1, <2>2, <2>3
<1> QED
  BY <1>12, <1>13 DEF s2


LEMMA AdvancedMoves ==
    ASSUME NEW links, NEW n, NEW M, NEW N, NEW rank, Table(links, n, M, N, rank),
           NEW m \in Nat \ {0}, NEW s, Moving(s, links, n, m, M, rank),
           s.h = nullptr, s.i + 1 < n
    PROVE  /\ Moving(Advanced(s, links), links, n, m, M, rank)
           /\ RoundsLeft(Advanced(s, links), n, N, rank) < RoundsLeft(s, n, N, rank)
<1> DEFINE j == s.i + 1
           s2 == Advanced(s, links)
<1>1. /\ n \in Nat \ {0} /\ M \in SUBSET Handles /\ LinksOK(links, n)
      /\ N \in Nat /\ rank \in [M -> 0 .. N]
      /\ \A d \in Places(M, n) : First(At(links, d), Rest(M, n, rank, d), rank)
  BY DEF Table, Ranked
<1>2. /\ s \in Loops(n, m)
      /\ IsTable(LinksOf(s), m, M \ Todo(s, n, M, rank))
      /\ \A g \in Todo(s, n, M, rank) : s.next[g] = links.next[g]
  BY DEF Moving
<1>3. /\ s2 \in Loops(n, m) /\ s2.i = j /\ s2.h = links.list[j] /\ s2.next = s.next
      /\ LinksOf(s2) = LinksOf(s)
  BY <1>1, <1>2, AdvancedFacts
<1> HIDE DEF s2
<1>4. s.i \in Int /\ j \in 0 .. n - 1 /\ \A g \in M : rank[g] \in 0 .. N /\ BucketOf(g, n) \in Int
  <2>1. s.i \in 0 .. n - 1
    BY <1>2 DEF Loops
  <2>2. \A g \in M : BucketOf(g, n) \in 0 .. n - 1
    BY <1>1, BucketFacts
  <2> QED
    BY <1>1, <2>1, <2>2
<1>5. s2.h = At(links, j) /\ j \in Places(M, n)
      /\ Rest(M, n, rank, j) = {g \in M : BucketOf(g, n) = j}
  <2>1. j \notin Handles /\ BucketOf(j, n) = j
    BY <1>1, <1>4, BucketFacts
  <2> QED
    BY <1>3, <1>4, <2>1 DEF At, Places, Rest
<1>6. First(s2.h, {g \in M : BucketOf(g, n) = j}, rank)
  BY <1>1, <1>5
<1>7. nullptr \notin M
  BY <1>1, HandlesAssumption
<1>8. /\ s2.h # nullptr => s2.h \in M /\ BucketOf(s2.h, n) = j
      /\ \A g \in M : BucketOf(g, n) = j => s2.h # nullptr /\ rank[g] <= rank[s2.h]
  BY <1>6, <1>7 DEF First
<1>9. Todo(s2, n, M, rank) = Todo(s, n, M, rank)
  <2>1. \A g \in M : s.i < BucketOf(g, n) <=> (j < BucketOf(g, n) \/ BucketOf(g, n) = j)
    BY <1>4
  <2>2. \A g \in M : g \in Todo(s, n, M, rank) <=> s.i < BucketOf(g, n)
    BY DEF Todo
  <2>3. \A g \in M : g \in Todo(s2, n, M, rank) <=> (j < BucketOf(g, n) \/ BucketOf(g, n) = j)
    BY <1>3, <1>8 DEF Todo
  <2>4. Todo(s2, n, M, rank) \subseteq M /\ Todo(s, n, M, rank) \subseteq M
    BY DEF Todo
  <2> HIDE DEF j
  <2> QED
    BY <2>1, <2>2, <2>3, <2>4
<1>10. Moving(s2, links, n, m, M, rank)
  BY <1>2, <1>3, <1>8, <1>9 DEF Moving
<1>11. RoundsLeft(s2, n, N, rank) < RoundsLeft(s, n, N, rank)
  <2>1. PICK r \in Int : r = (n - j) * (N + 2)
    BY <1>1, <1>4
  <2>2. (n - s.i) * (N + 2) = r + (N + 2)
    <3>1. \A a, b \in Int : (a + 1) * b = a * b + b
      OBVIOUS
    <3>2. n - s.i = (n - j) + 1 /\ n - j \in Int /\ N + 2 \in Int
      BY <1>1, <1>4
    <3> HIDE DEF j
    <3> QED
      BY <2>1, <3>1, <3>2
  <2>3. RoundsLeft(s, n, N, rank) = r + (N + 2)
    BY <2>2, <1>1 DEF RoundsLeft
  <2>4. RoundsLeft(s2, n, N, rank) = r + (IF s2.h = nullptr THEN 0 ELSE rank[s2.h] + 1)
    BY <1>3, <2>1 DEF RoundsLeft
  <2>5. s2.h # nullptr => rank[s2.h] \in 0 .. N
    BY <1>4, <1>8
  <2> QED
    BY <1>1, <2>1, <2>3, <2>4, <2>5
<1> QED
  BY <1>10, <1>11 DEF s2

\* Resize moves every handle: the new links are a table of the same handles.
LEMMA RehashTable ==
    ASSUME NEW links, NEW n, NEW M, IsTable(links, n, M), NEW m \in Nat \ {0}
    PROVE  IsTable(Rehashed(links, n, m), m, M)
<1>1. PICK N, rank : Table(links, n, M, N, rank)
  BY DEF IsTable
<1>2. /\ n \in Nat \ {0} /\ M \in SUBSET Handles /\ LinksOK(links, n)
      /\ N \in Nat /\ rank \in [M -> 0 .. N]
      /\ \A d \in Places(M, n) : First(At(links, d), Rest(M, n, rank, d), rank)
  BY <1>1 DEF Table, Ranked
<1> DEFINE All == Loops(n, m)
           Loop[s \in Loops(n, m)] ==
               IF s.h # nullptr THEN Loop[Moved(s, m)]
               ELSE IF s.i + 1 < n
                    THEN Loop[[s EXCEPT !.i = s.i + 1, !.h = links.list[s.i + 1]]]
               ELSE s
           stops == {s \in All : s.h = nullptr /\ ~(s.i + 1 < n)}
           step == [s \in All |-> IF s.h # nullptr THEN Moved(s, m) ELSE Advanced(s, links)]
           T == {s \in All : Moving(s, links, n, m, M, rank)}
           left == [s \in All |-> RoundsLeft(s, n, N, rank)]
           start == [i |-> 0, h |-> links.list[0], list |-> Empty(m), next |-> links.next]
<1>3. Rehashed(links, n, m) = LinksOf(Loop[start])
  BY DEF Rehashed, LinksOf
<1>4. stops \in SUBSET All /\ \A s \in All \ stops : step[s] \in All
  <2>1. ASSUME NEW s \in All \ stops PROVE step[s] \in All
    <3>1. CASE s.h # nullptr
      <4>1. s.h \in Handles
        BY <3>1 DEF Loops, Pointers
      <4>2. Moved(s, m) \in All
        BY <1>2, <4>1, MovedFacts
      <4> QED
        BY <3>1, <4>2
    <3>2. CASE s.h = nullptr
      <4>1. s.i + 1 < n
        BY <3>2
      <4>2. Advanced(s, links) \in All
        BY <1>2, <4>1, AdvancedFacts
      <4> QED
        BY <3>2, <4>2
    <3> QED
      BY <3>1, <3>2
  <2> QED
    BY <2>1
<1>5. IsLoop(Loop, All, stops, step)
  <2>1. \E f : IsLoop(f, All, stops, step)
    <3> HIDE DEF stops, step, All
    <3> QED
      BY <1>4, LoopExists
  <2>2. PICK f : IsLoop(f, All, stops, step)
    BY <2>1
  <2> DEFINE Body(g, s) == IF s.h # nullptr THEN g[Moved(s, m)]
                           ELSE IF s.i + 1 < n THEN g[Advanced(s, links)]
                           ELSE s
  <2>3. \A g : \A s \in All : (IF s \in stops THEN s ELSE g[step[s]]) = Body(g, s)
    OBVIOUS
  <2>4. f = [s \in All |-> Body(f, s)]
    <3>1. f = [s \in All |-> IF s \in stops THEN s ELSE f[step[s]]]
      BY <2>2 DEF IsLoop
    <3> HIDE DEF stops, step, All, Body
    <3> QED
      BY <2>3, <3>1
  <2>5. Loop = [s \in All |-> Body(Loop, s)]
    BY <2>4 DEF Advanced
  <2> HIDE DEF Loop
  <2>6. Loop = [s \in All |-> IF s \in stops THEN s ELSE Loop[step[s]]]
    <3> HIDE DEF stops, step, All, Body
    <3> QED
      BY <2>3, <2>5
  <2> QED
    BY <2>6 DEF IsLoop
<1> HIDE DEF Loop
<1>6. T \in SUBSET All
  OBVIOUS
<1>7. \A s \in T : left[s] \in Nat
  <2> SUFFICES ASSUME NEW s \in T PROVE RoundsLeft(s, n, N, rank) \in Nat
    OBVIOUS
  <2>1. s.i \in 0 .. n - 1
    BY DEF Loops
  <2>2. PICK r \in Nat : r = (n - s.i) * (N + 2)
    <3>1. \A a, b \in Nat : a * b \in Nat
      OBVIOUS
    <3>2. n - s.i \in Nat /\ N + 2 \in Nat
      BY <1>2, <2>1
    <3> QED
      BY <3>1, <3>2
  <2>3. s.h # nullptr => rank[s.h] \in 0 .. N
    BY <1>2 DEF Moving
  <2>4. RoundsLeft(s, n, N, rank) = r + (IF s.h = nullptr THEN 0 ELSE rank[s.h] + 1)
    BY <2>2 DEF RoundsLeft
  <2> QED
    BY <1>2, <2>2, <2>3, <2>4
<1>8. ASSUME NEW s \in T \ stops PROVE step[s] \in T /\ left[step[s]] < left[s]
  <2>1. Moving(s, links, n, m, M, rank) /\ s \in All
    OBVIOUS
  <2>2. step[s] \in All
    BY <1>4
  <2>3. CASE s.h # nullptr
    <3>1. /\ Moving(Moved(s, m), links, n, m, M, rank)
          /\ RoundsLeft(Moved(s, m), n, N, rank) < RoundsLeft(s, n, N, rank)
      BY <1>1, <2>1, <2>3, MovedMoves
    <3>2. step[s] = Moved(s, m)
      BY <2>1, <2>3
    <3> QED
      BY <2>1, <2>2, <3>1, <3>2
  <2>4. CASE s.h = nullptr
    <3>1. s.i + 1 < n
      BY <2>4
    <3>2. /\ Moving(Advanced(s, links), links, n, m, M, rank)
          /\ RoundsLeft(Advanced(s, links), n, N, rank) < RoundsLeft(s, n, N, rank)
      BY <1>1, <2>1, <2>4, <3>1, AdvancedMoves
    <3>3. step[s] = Advanced(s, links)
      BY <2>1, <2>4
    <3> QED
      BY <2>1, <2>2, <3>2, <3>3
  <2> QED
    BY <2>3, <2>4
<1>9. start \in T
  <2>1. links.list \in [0 .. n - 1 -> Pointers] /\ links.next \in [Handles -> Pointers]
    BY <1>2 DEF LinksOK
  <2>2. 0 \in 0 .. n - 1 /\ Empty(m) \in [0 .. m - 1 -> Pointers]
    BY <1>2 DEF Empty, Pointers
  <2>3. start \in All
    BY <2>1, <2>2 DEF Loops
  <2>4. /\ start.i = 0 /\ start.h = links.list[0] /\ start.next = links.next
        /\ LinksOf(start) = [list |-> Empty(m), next |-> links.next]
    BY DEF LinksOf
  <2> HIDE DEF start
  <2>5. start.h = At(links, 0) /\ 0 \in Places(M, n)
        /\ Rest(M, n, rank, 0) = {g \in M : BucketOf(g, n) = 0}
    <3>1. 0 \notin Handles /\ BucketOf(0, n) = 0
      BY <1>2, <2>2, BucketFacts
    <3> QED
      BY <2>2, <2>4, <3>1 DEF At, Places, Rest
  <2>6. First(start.h, {g \in M : BucketOf(g, n) = 0}, rank)
    BY <1>2, <2>5
  <2>7. nullptr \notin M /\ \A g \in M : BucketOf(g, n) \in 0 .. n - 1
    BY <1>2, BucketFacts
  <2>8. /\ start.h # nullptr => start.h \in M /\ BucketOf(start.h, n) = 0
        /\ \A g \in M : BucketOf(g, n) = 0 => start.h # nullptr /\ rank[g] <= rank[start.h]
    BY <2>6, <2>7 DEF First
  <2>9. Todo(start, n, M, rank) = M
    <3>1. \A g \in M : 0 < BucketOf(g, n) \/ BucketOf(g, n) = 0
      BY <1>2, <2>7
    <3> QED
      BY <2>4, <2>8, <3>1 DEF Todo
  <2>10. IsTable(LinksOf(start), m, {})
    <3>1. LinksOK([list |-> Empty(m), next |-> links.next], m)
      BY <2>1, <2>2, LinksMade
    <3>2. LinksOf(start).list = Empty(m)
      BY <2>4
    <3> QED
      BY <2>4, <3>1, <3>2, EmptyTable
  <2>11. Moving(start, links, n, m, M, rank)
    BY <2>3, <2>4, <2>8, <2>9, <2>10 DEF Moving
  <2> QED
    BY <2>3, <2>11
<1>10. Loop[start] \in T \cap stops
  <2>1. \A s \in T \ stops : step[s] \in T /\ left[step[s]] < left[s]
    BY <1>8
  <2> HIDE DEF T, stops, step, left, All, start
  <2>2. \A s \in T : Loop[s] \in T \cap stops
    BY <1>5, <1>6, <1>7, <2>1, LoopEnds
  <2> QED
    BY <1>9, <2>2
<1>11. PICK last \in T \cap stops : last = Loop[start]
  BY <1>10
<1>12. Todo(last, n, M, rank) = {}
  <2>1. last.h = nullptr /\ ~(last.i + 1 < n) /\ last.i \in 0 .. n - 1
    BY DEF Loops
  <2>2. \A g \in M : BucketOf(g, n) \in 0 .. n - 1
    BY <1>2, BucketFacts
  <2>3. \A g \in M : ~(last.i < BucketOf(g, n))
    BY <1>2, <2>1, <2>2
  <2> QED
    BY <2>1, <2>3 DEF Todo
<1>13. IsTable(LinksOf(last), m, M)
  <2>1. IsTable(LinksOf(last), m, M \ Todo(last, n, M, rank))
    BY DEF Moving
  <2>2. M \ {} = M
    OBVIOUS
  <2> QED
    BY <1>12, <2>1, <2>2
<1> QED
  BY <1>3, <1>11, <1>13

-----------------------------------------------------------------------------
(* The invariant holds                                                     *)

LEMMA InvInit ==
    Init => Inv
<1> SUFFICES ASSUME Init PROVE Inv
  OBVIOUS
<1>1. /\ length_ = 4 /\ elems_ = 0 /\ list_ = Empty(4)
      /\ next_hash = [h \in Handles |-> nullptr]
  BY DEF Init
<1>2. list_ \in [0 .. 4 - 1 -> Pointers] /\ next_hash \in [Handles -> Pointers]
  BY <1>1 DEF Empty, Pointers
<1>3. LinksOK(Links, 4) /\ Links.list = Empty(4)
  BY <1>1, <1>2, LinksMade DEF Links
<1>4. IsTable(Links, 4, {})
  BY <1>3, EmptyTable
<1>5. Cardinality({}) = 0
  BY FS_EmptySet
<1> QED
  BY <1>1, <1>3, <1>4, <1>5 DEF Inv

\* What every call finds: M is the handles of the table.
LEMMA InvFacts ==
    ASSUME Inv
    PROVE  /\ length_ \in Nat \ {0} /\ LinksOK(Links, length_)
           /\ Members \in SUBSET Handles /\ IsTable(Links, length_, Members)
           /\ Distinct(Members)
           /\ IsFiniteSet(Members) /\ Cardinality(Members) \in Nat
           /\ elems_ = Cardinality(Members) /\ elems_ <= length_
<1>1. PICK M \in SUBSET Handles :
          /\ IsTable(Links, length_, M)
          /\ elems_ = Cardinality(M) /\ elems_ <= length_
  BY DEF Inv
<1>2. Members = M
  BY <1>1, ReachedFacts DEF Members
<1>3. Distinct(M)
  BY <1>1 DEF IsTable, Table
<1>4. IsFiniteSet(M) /\ Cardinality(M) \in Nat
  BY <1>1, HandlesAssumption, FS_Subset, FS_CardinalityType
<1> QED
  BY <1>1, <1>2, <1>3, <1>4 DEF Inv

\* A table of the next state with the right count is all the invariant asks.
LEMMA InvNext ==
    ASSUME NEW links, NEW M \in SUBSET Handles, SetLinks(links),
           IsTable(links, length_', M), elems_' = Cardinality(M), elems_' <= length_'
    PROVE  Inv' /\ Members' = M
<1>1. length_' \in Nat \ {0} /\ LinksOK(links, length_')
  BY DEF IsTable, Table
<1>2. links = [list |-> links.list, next |-> links.next]
  BY <1>1 DEF LinksOK
<1>3. Links' = links
  BY <1>2 DEF Links, SetLinks
<1>4. Members' = M
  BY <1>3, ReachedFacts DEF Members
<1> QED
  BY <1>1, <1>3, <1>4 DEF Inv

\* What FindPointer finds, among the members.
LEMMA Found ==
    ASSUME Inv, NEW k \in Keys
    PROVE  LET c == FindPointer(k) IN
           /\ c \in Places(Members, length_) /\ BucketOf(c, length_) = Bucket(k, length_)
           /\ Deref(c) = At(Links, c)
           /\ \/ Deref(c) = nullptr /\ \A g \in Members : KeyOf[g] # k
              \/ Deref(c) \in Members /\ Deref(c) # nullptr /\ KeyOf[Deref(c)] = k
<1>1. IsTable(Links, length_, Members) /\ Members \in SUBSET Handles
  BY InvFacts
<1>2. nullptr \notin Members
  BY <1>1, HandlesAssumption
<1> QED
  BY <1>1, <1>2, FindPointerFacts

\* One call, and what it does to the members.
LEMMA LookupMembers ==
    ASSUME Inv, NEW k \in Keys, Lookup(k)
    PROVE  Inv' /\ Members' = Members
<1>1. /\ length_' = length_ /\ elems_' = elems_ /\ SetLinks(Links)
  BY DEF Lookup, SetLinks, Links
<1> QED
  BY <1>1, InvFacts, InvNext

LEMMA RemoveMembers ==
    ASSUME Inv, NEW k \in Keys, Remove(k)
    PROVE  Inv' /\ Members' = Members \ {Deref(FindPointer(k))}
<1> DEFINE ptr == FindPointer(k)
           result == Deref(ptr)
<1>1. /\ length_ \in Nat \ {0} /\ Members \in SUBSET Handles
      /\ IsTable(Links, length_, Members)
      /\ IsFiniteSet(Members) /\ Cardinality(Members) \in Nat
      /\ elems_ = Cardinality(Members) /\ elems_ <= length_
  BY InvFacts
<1>2. /\ ptr \in Places(Members, length_) /\ result = At(Links, ptr)
      /\ result = nullptr \/ result \in Members
  BY Found
<1>3. /\ length_' = length_
      /\ \/ result = nullptr /\ UNCHANGED <<elems_, list_, next_hash>>
         \/ /\ result # nullptr
            /\ SetLinks(Stored(Links, ptr, next_hash[result]))
            /\ elems_' = elems_ - 1
  BY DEF Remove
<1> HIDE DEF ptr, result
<1>4. CASE result = nullptr
  <2>1. Members \ {result} = Members
    BY <1>1, <1>4, HandlesAssumption
  <2>2. elems_' = elems_ /\ SetLinks(Links)
    BY <1>3, <1>4 DEF SetLinks, Links
  <2>3. Inv' /\ Members' = Members
    BY <1>1, <1>3, <2>2, InvNext
  <2> QED
    BY <2>1, <2>3 DEF ptr, result
<1>5. CASE result # nullptr
  <2>1. SetLinks(Stored(Links, ptr, next_hash[result])) /\ elems_' = elems_ - 1
    BY <1>3, <1>5
  <2>2. next_hash[result] = Links.next[result]
    BY DEF Links
  <2>3. IsTable(Stored(Links, ptr, next_hash[result]), length_', Members \ {result})
    BY <1>1, <1>2, <1>3, <1>5, <2>2, RemoveTable
  <2>4. Cardinality(Members \ {result}) = Cardinality(Members) - 1
    BY <1>1, <1>2, <1>5, FS_RemoveElement
  <2>5. Inv' /\ Members' = Members \ {result}
    <3>1. Members \ {result} \in SUBSET Handles
      BY <1>1
    <3>2. elems_' = Cardinality(Members \ {result}) /\ elems_' <= length_'
      BY <1>1, <1>3, <2>1, <2>4
    <3> QED
      BY <2>1, <2>3, <3>1, <3>2, InvNext
  <2> QED
    BY <2>5 DEF ptr, result
<1> QED
  BY <1>4, <1>5

LEMMA InsertMembers ==
    ASSUME Inv, NEW h \in Handles \ Members, Insert(h)
    PROVE  Inv' /\ Members' = (Members \ {Deref(FindPointer(KeyOf[h]))}) \cup {h}
<1> DEFINE ptr == FindPointer(KeyOf[h])
           old == Deref(ptr)
           elems == IF old = nullptr THEN elems_ + 1 ELSE elems_
           behind == Behind(h, old)
           front == [Links EXCEPT !.next[h] = behind]
           links == Stored(front, ptr, h)
           M2 == (Members \ {old}) \cup {h}
<1>1. /\ length_ \in Nat \ {0} /\ Members \in SUBSET Handles
      /\ IsTable(Links, length_, Members) /\ LinksOK(Links, length_)
      /\ IsFiniteSet(Members) /\ Cardinality(Members) \in Nat
      /\ elems_ = Cardinality(Members) /\ elems_ <= length_
  BY InvFacts
<1>2. KeyOf[h] \in Keys /\ nullptr \notin Handles /\ h \in Handles
  BY HandlesAssumption
<1>3. /\ ptr \in Places(Members, length_)
      /\ BucketOf(ptr, length_) = Bucket(KeyOf[h], length_)
      /\ old = At(Links, ptr)
      /\ \/ old = nullptr /\ \A g \in Members : KeyOf[g] # KeyOf[h]
         \/ old \in Members /\ old # nullptr /\ KeyOf[old] = KeyOf[h]
  BY <1>2, Found
<1>4. /\ elems_' = elems
      /\ \/ /\ old = nullptr /\ IsFull(elems)
            /\ length_' = NewLength(elems)
            /\ SetLinks(Rehashed(links, length_, NewLength(elems)))
         \/ /\ ~(old = nullptr /\ IsFull(elems))
            /\ SetLinks(links)
            /\ length_' = length_
  BY DEF Insert
<1>5. front = Stored(Links, h, behind)
  BY <1>2 DEF Stored
<1>6. behind = IF old = nullptr THEN nullptr ELSE next_hash[old]
  BY DEF Behind
<1>7. next_hash = Links.next
  BY DEF Links
<1> HIDE DEF ptr, old, behind, front
<1>8. IsTable(links, length_, M2)
  <2>1. CASE old = nullptr
    <3>1. IsTable(Stored(Stored(Links, h, nullptr), ptr, h), length_, Members \cup {h})
      <4>1. BucketOf(ptr, length_) = BucketOf(h, length_)
        BY <1>2, <1>3 DEF BucketOf
      <4> QED
        BY <1>1, <1>2, <1>3, <2>1, <4>1, AppendTable
    <3>2. M2 = Members \cup {h}
      BY <1>1, <1>2, <2>1
    <3> QED
      BY <1>5, <1>6, <2>1, <3>1, <3>2
  <2>2. CASE old # nullptr
    <3>1. IsTable(Stored(Stored(Links, h, Links.next[old]), ptr, h), length_, M2)
      BY <1>1, <1>2, <1>3, <2>2, ReplaceTable
    <3> QED
      BY <1>5, <1>6, <1>7, <2>2, <3>1
  <2> QED
    BY <2>1, <2>2
<1>9. elems = Cardinality(M2) /\ elems \in Nat /\ M2 \in SUBSET Handles
  <2>1. CASE old = nullptr
    <3>1. M2 = Members \cup {h}
      BY <1>1, <1>2, <2>1
    <3>2. Cardinality(Members \cup {h}) = Cardinality(Members) + 1
      BY <1>1, FS_AddElement
    <3> QED
      BY <1>1, <1>2, <2>1, <3>1, <3>2
  <2>2. CASE old # nullptr
    <3>1. old \in Members
      BY <1>3, <2>2
    <3>2. IsFiniteSet(Members \ {old}) /\ Cardinality(Members \ {old}) = Cardinality(Members) - 1
      BY <1>1, <3>1, FS_RemoveElement
    <3>3. Cardinality(M2) = Cardinality(Members \ {old}) + 1
      BY <3>2, FS_AddElement
    <3> QED
      BY <1>1, <1>2, <2>2, <3>2, <3>3
  <2> QED
    BY <2>1, <2>2
<1> HIDE DEF links, M2
<1>10. CASE old = nullptr /\ IsFull(elems)
  <2>1. length_' = NewLength(elems) /\ SetLinks(Rehashed(links, length_, NewLength(elems)))
    BY <1>4, <1>10
  <2>2. NewLength(elems) \in Nat \ {0} /\ elems <= NewLength(elems)
    BY <1>9, NewLengthFacts
  <2>3. IsTable(Rehashed(links, length_, NewLength(elems)), NewLength(elems), M2)
    BY <1>8, <2>2, RehashTable
  <2> HIDE DEF elems
  <2>4. Inv' /\ Members' = M2
    BY <1>4, <1>9, <2>1, <2>2, <2>3, InvNext
  <2> QED
    BY <2>4 DEF M2, old, ptr
<1>11. CASE ~(old = nullptr /\ IsFull(elems))
  <2>1. length_' = length_ /\ SetLinks(links)
    BY <1>4, <1>11
  <2>2. elems <= length_
    BY <1>1, <1>9, <1>11 DEF IsFull
  <2> HIDE DEF elems
  <2>3. Inv' /\ Members' = M2
    BY <1>4, <1>8, <1>9, <2>1, <2>2, InvNext
  <2> QED
    BY <2>3 DEF M2, old, ptr
<1> QED
  BY <1>10, <1>11

LEMMA InvStutters ==
    ASSUME Inv, UNCHANGED vars
    PROVE  Inv' /\ Members' = Members
<1>1. length_' = length_ /\ elems_' = elems_ /\ SetLinks(Links)
  BY DEF vars, SetLinks, Links
<1> QED
  BY <1>1, InvFacts, InvNext

THEOREM Invariance == Spec => []Inv
<1>1. Init => Inv
  BY InvInit
<1>2. Inv /\ [Next]_vars => Inv'
  <2> SUFFICES ASSUME Inv, [Next]_vars PROVE Inv'
    OBVIOUS
  <2>1. ASSUME NEW k \in Keys, Lookup(k) PROVE Inv'
    BY <2>1, LookupMembers
  <2>2. ASSUME NEW k \in Keys, Remove(k) PROVE Inv'
    BY <2>2, RemoveMembers
  <2>3. ASSUME NEW h \in Handles \ Members, Insert(h) PROVE Inv'
    BY <2>3, InsertMembers
  <2>4. CASE UNCHANGED vars
    BY <2>4, InvStutters
  <2> QED
    BY <2>1, <2>2, <2>3, <2>4 DEF Next
<1> QED
  BY <1>1, <1>2, PTL DEF Spec

-----------------------------------------------------------------------------
(* Theorems                                                                *)

\* Whatever calls came before, with any handles, keys and hash: every chain of
\* next_hash ends, each bucket holds only handles that hash to it and none of
\* the same key, so that FindPointer's loop finds its key and ends.
THEOREM ChainsAreSound == Spec => []ChainsSound
<1>1. Inv => ChainsSound
  <2> SUFFICES ASSUME Inv PROVE ChainsSound
    OBVIOUS
  <2> DEFINE n == length_
             M == Members
  <2>1. IsTable(Links, n, M) /\ Distinct(M)
    BY InvFacts
  <2>2. PICK N, rank : Table(Links, n, M, N, rank)
    BY <2>1 DEF IsTable
  <2>3. /\ n \in Nat \ {0} /\ M \in SUBSET Handles /\ LinksOK(Links, n)
        /\ N \in Nat /\ rank \in [M -> 0 .. N]
        /\ \A d \in Places(M, n) : First(At(Links, d), Rest(M, n, rank, d), rank)
    BY <2>2 DEF Table, Ranked
  <2>4. list_ \in [0 .. n - 1 -> Pointers] /\ Links.list = list_ /\ Links.next = next_hash
    BY <2>3 DEF LinksOK, Links
  <2>5. \A i \in 0 .. n - 1 : i \notin Handles /\ BucketOf(i, n) = i
    BY <2>3, BucketFacts
  <2>6. \A g \in M : BucketOf(g, n) = Bucket(KeyOf[g], n)
    BY <2>3 DEF BucketOf
  <2> HIDE DEF M, n
\* The handle that a place leads to is of the same bucket and further behind.
  <2>7. ASSUME NEW c \in Places(M, n), At(Links, c) # nullptr
        PROVE  /\ At(Links, c) \in M
               /\ Bucket(KeyOf[At(Links, c)], n) = BucketOf(c, n)
               /\ c \in Handles => rank[At(Links, c)] < rank[c]
    <3>1. At(Links, c) \in Rest(M, n, rank, c)
      BY <2>3, <2>7 DEF First
    <3> QED
      BY <2>6, <3>1 DEF Rest
  <2>8. \A h \in M : h \in Places(M, n) /\ At(Links, h) = next_hash[h] /\ h \in Handles
    BY <2>3, <2>4 DEF At, Places
  <2>9. \A i \in 0 .. n - 1 : i \in Places(M, n) /\ At(Links, i) = list_[i]
    BY <2>4, <2>5 DEF At, Places
  <2>10. ASSUME NEW S \in SUBSET M, S # {} PROVE \E h \in S : next_hash[h] \notin S
    <3>1. \A h \in S : rank[h] \in Nat
      BY <2>3
    <3>2. PICK h \in S : \A g \in S : rank[h] <= rank[g]
      BY <2>10, <3>1, LeastRank
    <3>3. next_hash[h] \notin S
      <4> SUFFICES ASSUME next_hash[h] \in S PROVE FALSE
        OBVIOUS
      <4>1. next_hash[h] # nullptr
        BY <2>3, HandlesAssumption
      <4>2. rank[next_hash[h]] < rank[h]
        BY <2>7, <2>8, <4>1
      <4>3. rank[h] <= rank[next_hash[h]] /\ rank[h] \in Nat /\ rank[next_hash[h]] \in Nat
        BY <3>1, <3>2
      <4> QED
        BY <4>2, <4>3
    <3> QED
      BY <3>3
  <2>11. \A i \in DOMAIN list_ : list_[i] # nullptr => Bucket(KeyOf[list_[i]], n) = i
    BY <2>4, <2>5, <2>7, <2>9
  <2>12. \A h \in M : next_hash[h] # nullptr => Bucket(KeyOf[next_hash[h]], n) = Bucket(KeyOf[h], n)
    BY <2>6, <2>7, <2>8
  <2> QED
    BY <2>1, <2>10, <2>11, <2>12 DEF ChainsSound, Distinct, M, n
<1> QED
  BY <1>1, Invariance, PTL

\* elems_ is the number of handles that the buckets lead to, through replacements,
\* removals of what is not there and resizes, and never more than the buckets are
\* once a call has returned.
THEOREM CountExact == Spec => []CountIsExact
<1>1. Inv => CountIsExact
  BY InvFacts DEF CountIsExact
<1> QED
  BY <1>1, Invariance, PTL

\* The number of buckets is a power of two after every call: hash & (length_ - 1)
\* is the bucket that hash % length_ names.
THEOREM LengthIsPower == Spec => []IsPowerOf2(length_)
<1>1. Init => IsPowerOf2(length_)
  BY PowerFacts DEF Init
<1>2. Inv /\ IsPowerOf2(length_) /\ [Next]_vars => IsPowerOf2(length_')
  <2> SUFFICES ASSUME Inv, IsPowerOf2(length_), [Next]_vars PROVE IsPowerOf2(length_')
    OBVIOUS
  <2>1. ASSUME NEW elems \in Nat PROVE IsPowerOf2(NewLength(elems))
    BY NewLengthFacts
  <2>2. elems_ \in Nat
    BY InvFacts
  <2>3. length_' = length_ \/ \E elems \in Nat : length_' = NewLength(elems)
    <3>1. ASSUME NEW k \in Keys, Lookup(k) \/ Remove(k) PROVE length_' = length_
      BY <3>1 DEF Lookup, Remove
    <3>2. ASSUME NEW h \in Handles \ Members, Insert(h)
          PROVE  length_' = length_ \/ \E elems \in Nat : length_' = NewLength(elems)
      <4> DEFINE old == Deref(FindPointer(KeyOf[h]))
                 elems == IF old = nullptr THEN elems_ + 1 ELSE elems_
      <4>1. length_' = length_ \/ length_' = NewLength(elems)
        BY <3>2 DEF Insert
      <4>2. elems \in Nat
        BY <2>2
      <4> HIDE DEF elems
      <4> QED
        BY <4>1, <4>2
    <3>3. CASE UNCHANGED vars
      BY <3>3 DEF vars
    <3> QED
      BY <3>1, <3>2, <3>3 DEF Next
  <2> QED
    BY <2>1, <2>3
<1>3. IsPowerOf2(length_') <=> IsPowerOf2(length_)'
  BY DEF IsPowerOf2
<1> QED
  BY <1>1, <1>2, <1>3, Invariance, PTL DEF Spec

\* What MapOf says of a table's handles.
LEMMA MapFacts ==
    ASSUME NEW M \in SUBSET Handles, Distinct(M)
    PROVE  /\ MapOf(M) = [k \in Keys |-> MapOf(M)[k]]
           /\ \A h \in M : MapOf(M)[KeyOf[h]] = h
           /\ \A k \in Keys : (\A h \in M : KeyOf[h] # k) => MapOf(M)[k] = nullptr
<1>1. MapOf(M) = [k \in Keys |-> MapOf(M)[k]]
  BY DEF MapOf
<1>2. ASSUME NEW h \in M PROVE MapOf(M)[KeyOf[h]] = h
  <2>1. {g \in M : KeyOf[g] = KeyOf[h]} = {h}
    BY DEF Distinct
  <2>2. KeyOf[h] \in Keys
    BY HandlesAssumption
  <2>3. MapOf(M)[KeyOf[h]] = CHOOSE g \in {h} : TRUE
    BY <2>1, <2>2 DEF MapOf
  <2> QED
    BY <2>3
<1>3. ASSUME NEW k \in Keys, \A h \in M : KeyOf[h] # k PROVE MapOf(M)[k] = nullptr
  <2>1. {g \in M : KeyOf[g] = k} = {}
    BY <1>3
  <2> QED
    BY <2>1 DEF MapOf
<1> QED
  BY <1>1, <1>2, <1>3

\* Two functions on the keys that agree on each.
LEMMA SameMap ==
    ASSUME NEW f, NEW g, f = [k \in Keys |-> f[k]], g = [k \in Keys |-> g[k]],
           \A k \in Keys : f[k] = g[k]
    PROVE  f = g
OBVIOUS

\* What a call answers is what the map holds for its key.
LEMMA FoundInMap ==
    ASSUME Inv, NEW k \in Keys
    PROVE  /\ Deref(FindPointer(k)) = MapOf(Members)[k]
           /\ \/ Deref(FindPointer(k)) = nullptr /\ \A g \in Members : KeyOf[g] # k
              \/ Deref(FindPointer(k)) \in Members /\ KeyOf[Deref(FindPointer(k))] = k
<1>1. Members \in SUBSET Handles /\ Distinct(Members)
  BY InvFacts
<1>2. \/ Deref(FindPointer(k)) = nullptr /\ \A g \in Members : KeyOf[g] # k
      \/ Deref(FindPointer(k)) \in Members /\ KeyOf[Deref(FindPointer(k))] = k
  BY Found
<1> QED
  BY <1>1, <1>2, MapFacts

\* HandleTable implements HandleMap: across collisions, a replacement in the
\* middle of a chain and a rehash in the middle of an Insert, every call answers
\* with the handle of its own key and changes the handle of no other.
THEOREM MapImplemented == Spec => ImplementsMap
<1>1. Init => Map!Init
  <2> SUFFICES ASSUME Init PROVE Map!Init
    OBVIOUS
  <2>1. Inv
    BY InvInit
  <2>2. elems_ = 0 /\ answer = [key |-> nullptr, handle |-> nullptr]
    BY DEF Init
  <2>3. Members = {}
    BY <2>1, <2>2, InvFacts, FS_EmptySet
  <2>4. MapOf({}) = [k \in Keys |-> nullptr]
    BY DEF MapOf
  <2> QED
    BY <2>2, <2>3, <2>4 DEF Map!Init
<1>2. Inv /\ [Next]_vars => [Map!Next]_Map!vars
  <2> SUFFICES ASSUME Inv, [Next]_vars PROVE [Map!Next]_Map!vars
    OBVIOUS
  <2>1. Members \in SUBSET Handles /\ Distinct(Members)
    BY InvFacts
  <2>2. ASSUME NEW k \in Keys, Lookup(k) PROVE Map!Lookup(k)
    <3>1. Members' = Members
      BY <2>2, LookupMembers
    <3>2. answer' = [key |-> k, handle |-> MapOf(Members)[k]]
      BY <2>2, FoundInMap DEF Lookup, Answers
    <3>3. MapOf(Members)' = MapOf(Members)
      BY <3>1 DEF MapOf
    <3> QED
      BY <3>2, <3>3 DEF Map!Lookup, Map!Answers
  <2>3. ASSUME NEW k \in Keys, Remove(k) PROVE Map!Remove(k)
    <3> DEFINE result == Deref(FindPointer(k))
               M2 == Members \ {result}
    <3>1. Members' = M2
      BY <2>3, RemoveMembers
    <3>2. answer' = [key |-> k, handle |-> MapOf(Members)[k]]
      BY <2>3, FoundInMap DEF Remove, Answers
    <3>3. \/ result = nullptr /\ \A g \in Members : KeyOf[g] # k
          \/ result \in Members /\ KeyOf[result] = k
      BY FoundInMap
    <3> HIDE DEF result
    <3>4. M2 \in SUBSET Handles /\ Distinct(M2)
      BY <2>1 DEF Distinct
    <3>5. \A g \in M2 : KeyOf[g] # k
      BY <2>1, <3>3, HandlesAssumption DEF Distinct
    <3>6. \A g \in Members : KeyOf[g] # k => g \in M2
      BY <2>1, <3>3, HandlesAssumption
    <3> DEFINE f == [MapOf(Members) EXCEPT ![k] = nullptr]
    <3>7. ASSUME NEW j \in Keys PROVE MapOf(M2)[j] = f[j]
      <4>1. MapOf(Members) = [i \in Keys |-> MapOf(Members)[i]]
        BY <2>1, MapFacts
      <4>2. CASE j = k
        BY <3>4, <3>5, <4>1, <4>2, MapFacts
      <4>3. CASE j # k /\ \E g \in Members : KeyOf[g] = j
        <5>1. PICK g \in Members : KeyOf[g] = j
          BY <4>3
        <5>2. g \in M2
          BY <3>6, <4>3, <5>1
        <5> QED
          BY <2>1, <3>4, <4>1, <4>3, <5>1, <5>2, MapFacts
      <4>4. CASE j # k /\ \A g \in Members : KeyOf[g] # j
        <5>1. \A g \in M2 : KeyOf[g] # j
          BY <4>4
        <5> QED
          BY <2>1, <3>4, <4>1, <4>4, <5>1, MapFacts
      <4> QED
        BY <4>2, <4>3, <4>4
    <3>8. MapOf(M2) = f
      <4>1. MapOf(M2) = [j \in Keys |-> MapOf(M2)[j]] /\ f = [j \in Keys |-> f[j]]
        BY <2>1, <3>4, MapFacts
      <4> HIDE DEF f, M2
      <4> QED
        BY <3>7, <4>1, SameMap
    <3>9. MapOf(Members)' = f
      BY <3>1, <3>8 DEF MapOf
    <3> QED
      BY <3>2, <3>9 DEF Map!Remove, Map!Answers
  <2>4. ASSUME NEW h \in Handles \ Members, Insert(h) PROVE Map!Insert(h)
    <3> DEFINE k == KeyOf[h]
               old == Deref(FindPointer(k))
               M2 == (Members \ {old}) \cup {h}
    <3>1. Inv' /\ Members' = M2
      BY <2>4, InsertMembers
    <3>2. k \in Keys
      BY HandlesAssumption
    <3>3. answer' = [key |-> k, handle |-> MapOf(Members)[k]]
      BY <2>4, <3>2, FoundInMap DEF Insert, Answers
    <3>4. \/ old = nullptr /\ \A g \in Members : KeyOf[g] # k
          \/ old \in Members /\ KeyOf[old] = k
      BY <3>2, FoundInMap
    <3> HIDE DEF old
    <3>5. M2 \in SUBSET Handles /\ h \in M2
      BY <2>1
    <3>6. Distinct(M2)
      BY <2>1, <3>4, HandlesAssumption DEF Distinct
    <3>7. \A g \in Members : KeyOf[g] # k => g \in M2
      BY <2>1, <3>4, HandlesAssumption
    <3> DEFINE f == [MapOf(Members) EXCEPT ![k] = h]
    <3>8. ASSUME NEW j \in Keys PROVE MapOf(M2)[j] = f[j]
      <4>1. MapOf(Members) = [i \in Keys |-> MapOf(Members)[i]]
        BY <2>1, MapFacts
      <4>2. CASE j = k
        BY <3>2, <3>5, <3>6, <4>1, <4>2, MapFacts
      <4>3. CASE j # k /\ \E g \in Members : KeyOf[g] = j
        <5>1. PICK g \in Members : KeyOf[g] = j
          BY <4>3
        <5>2. g \in M2
          BY <3>7, <4>3, <5>1
        <5> QED
          BY <2>1, <3>5, <3>6, <4>1, <4>3, <5>1, <5>2, MapFacts
      <4>4. CASE j # k /\ \A g \in Members : KeyOf[g] # j
        <5>1. \A g \in M2 : KeyOf[g] # j
          BY <4>4
        <5> QED
          BY <2>1, <3>5, <3>6, <4>1, <4>4, <5>1, MapFacts
      <4> QED
        BY <4>2, <4>3, <4>4
    <3>9. MapOf(M2) = f
      <4>1. MapOf(M2) = [j \in Keys |-> MapOf(M2)[j]] /\ f = [j \in Keys |-> f[j]]
        BY <2>1, <3>5, <3>6, MapFacts
      <4> HIDE DEF f, M2
      <4> QED
        BY <3>8, <4>1, SameMap
    <3>10. MapOf(Members)' = f
      BY <3>1, <3>9 DEF MapOf
    <3> QED
      BY <3>3, <3>10 DEF Map!Insert, Map!Answers
  <2>5. CASE UNCHANGED vars
    <3>1. Members' = Members
      BY <2>5, InvStutters
    <3>2. MapOf(Members)' = MapOf(Members) /\ answer' = answer
      BY <2>5, <3>1 DEF MapOf, vars
    <3> QED
      BY <3>2 DEF Map!vars
  <2> QED
    BY <2>2, <2>3, <2>4, <2>5 DEF Next, Map!Next
<1> QED
  BY <1>1, <1>2, Invariance, PTL DEF Spec, ImplementsMap, Map!Spec

=============================================================================
