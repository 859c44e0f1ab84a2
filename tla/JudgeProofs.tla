---------------------------- MODULE JudgeProofs ----------------------------
(***************************************************************************)
(* The load generator, for any number of threads, rounds and samples and   *)
(* any buffer of random numbers: the unlocked additions to POOL_TOP lose   *)
(* keys, but they never take it past the samples begun nor leave get_pure  *)
(* with a pool too small to draw from, and no window of numbers repeats.   *)
(***************************************************************************)
EXTENDS Judge, FiniteSetTheorems, TLAPS

-----------------------------------------------------------------------------
(* The inductive invariant                                                 *)

Places == 0 .. RNDSTOREDNUMBERS - 1

\* A Random's buffer holds numbers in the order they were made, and the window
\* at next lies in it: windows fill it with nothing left over.
RandomInv(r) ==
    /\ r \in [next : Nat, made : Nat, ints : [Places -> Nat]]
    /\ r.next + Window <= RNDSTOREDNUMBERS
    /\ \E k \in Nat : r.next = k * Window
    /\ \A i, j \in Places : i < j => r.ints[i] < r.ints[j]
    /\ \A i \in Places : r.ints[i] <= r.made

Even(n) == \E k \in Nat : n = KeyWords * k

Types ==
    /\ phase \in {"set", "get", "done"}
    /\ POOL_TOP \in Nat /\ Even(POOL_TOP)
    /\ pc \in [Threads -> {"loop", "copy", "add", "store"}]
    /\ cnt \in [Threads -> Nat]
    /\ at \in [Threads -> Nat] /\ \A t \in Threads : Even(at[t])
    /\ sum \in [Threads -> Nat] /\ \A t \in Threads : Even(sum[t])
    /\ id \in [Threads -> Int]
    /\ DOMAIN rnd = Threads /\ \A t \in Threads : RandomInv(rnd[t])

\* The samples that are stored: of t, and of all threads.
DoneBy(t) == {c \in Sampled : cnt[t] < c \/ (cnt[t] = c /\ pc[t] = "loop")}
Done == {s \in Threads \X Sampled : s[2] \in DoneBy(s[1])}

\* A thread in the middle of a sample has counted it.
SampleInv == \A t \in Threads : pc[t] # "loop" => phase = "set" /\ cnt[t] \in Sampled

\* Two words for each sample stored bound what POOL_TOP was and will be.
UpperInv ==
    phase = "set" =>
        LET limit == KeyWords * Cardinality(Done) IN
        /\ POOL_TOP <= limit
        /\ \A t \in Threads :
               /\ pc[t] = "add" => at[t] <= limit
               /\ pc[t] = "store" => sum[t] <= limit + KeyWords

\* A thread's first sample leaves two words, and it finds them, whoever stored
\* since, when it adds its next.  So POOL_TOP is below four words only as long as
\* some thread has not stored two samples: the one that stored last.
LowerInv ==
    phase = "set" =>
        /\ \A t \in Threads :
               /\ DoneBy(t) # {} => POOL_TOP >= KeyWords
               /\ pc[t] = "add" /\ DoneBy(t) # {} => at[t] >= KeyWords
               /\ pc[t] = "store" => sum[t] >= KeyWords
               /\ pc[t] = "store" /\ DoneBy(t) # {} => sum[t] >= 2 * KeyWords
        /\ POOL_TOP >= 2 * KeyWords \/ \E t \in Threads : Cardinality(DoneBy(t)) <= 1

GetInv ==
    /\ phase # "set" /\ Cardinality(Sampled) >= 2 => POOL_TOP >= 2 * KeyWords
    /\ \A t \in Threads :
           id[t] # NoId => phase # "set" /\ id[t] % KeyWords = 0 /\ id[t] + KeyWords < POOL_TOP

Inv == Types /\ SampleInv /\ UpperInv /\ LowerInv /\ GetInv

-----------------------------------------------------------------------------
(* Lemmas: arithmetic and the random numbers                               *)

\* Multiples of a window: the next one fits as well.
LEMMA NextMultiple ==
    ASSUME NEW w \in Nat \ {0}, NEW k \in Nat, NEW m \in Nat, k * w + w <= m * w, k * w + w # m * w
    PROVE  k * w + w + w <= m * w
<1>1. (k + 1) * w = k * w + w /\ (k + 2) * w = k * w + w + w
  OBVIOUS
<1>2. k + 2 <= m
  <2>1. ASSUME m <= k + 1 PROVE FALSE
    <3>1. m * w <= (k + 1) * w
      BY <2>1
    <3>2. m * w \in Nat /\ k * w \in Nat
      OBVIOUS
    <3> QED
      BY <1>1, <3>1, <3>2
  <2> QED
    BY <2>1
<1>3. (k + 2) * w <= m * w
  BY <1>2
<1> QED
  BY <1>1, <1>3

\* The buffer holds whole windows and whole groups of four.
LEMMA BufferFacts ==
    /\ RNDSTOREDNUMBERS \in Nat \ {0} /\ Window \in Nat \ {0}
    /\ \E m \in Nat : RNDSTOREDNUMBERS = m * Window
    /\ Window <= RNDSTOREDNUMBERS
    /\ 4 * (RNDSTOREDNUMBERS \div 4) = RNDSTOREDNUMBERS
<1>1. RNDSTOREDNUMBERS \in Nat \ {0} /\ Window \in Nat \ {0}
      /\ RNDSTOREDNUMBERS % 4 = 0 /\ RNDSTOREDNUMBERS % Window = 0
  BY RandomAssumption
<1>2. PICK m \in Nat : RNDSTOREDNUMBERS = m * Window
  <2>1. \A n \in Nat, w \in Nat \ {0} : n % w = 0 => n = (n \div w) * w /\ n \div w \in Nat
    OBVIOUS
  <2> QED
    BY <1>1, <2>1
<1>3. Window <= RNDSTOREDNUMBERS
  <2>1. m # 0
    BY <1>1, <1>2
  <2>2. 1 * Window <= m * Window
    BY <1>1, <2>1
  <2> QED
    BY <1>1, <1>2, <2>2
<1>4. 4 * (RNDSTOREDNUMBERS \div 4) = RNDSTOREDNUMBERS
  BY <1>1
<1> QED
  BY <1>1, <1>2, <1>3, <1>4

\* A buffer that was used up is generated again as a whole, from numbers not
\* made before.
LEMMA RefillFacts ==
    ASSUME NEW r, r.next = RNDSTOREDNUMBERS, r.made \in Nat, DOMAIN r.ints = Places
    PROVE  LET s == refillRandomUnsignedInts(r) IN
           /\ RandomInv(s) /\ s.next = 0
           /\ \A i \in Places : s.ints[i] > r.made
<1> DEFINE s == refillRandomUnsignedInts(r)
<1>1. PICK n \in Nat : n = RNDSTOREDNUMBERS /\ 4 * Groups(r) = n
  <2>1. RNDSTOREDNUMBERS % 4 = 0
    BY RandomAssumption
  <2>2. Groups(r) = RNDSTOREDNUMBERS \div 4
    BY <2>1, BufferFacts DEF Groups
  <2> QED
    BY <2>2, BufferFacts
<1>2. PICK m \in Nat : m = r.made
  OBVIOUS
<1>3. s.next = 0 /\ s.made = m + n /\ s.ints = [i \in Places |-> m + i + 1]
  <2>1. \A i \in Places : i < n
    BY <1>1, BufferFacts DEF Places
  <2> QED
    BY <1>1, <1>2, <2>1 DEF refillRandomUnsignedInts
<1>4. s \in [next : Nat, made : Nat, ints : [Places -> Nat]]
  <2>1. s.ints \in [Places -> Nat]
    BY <1>3 DEF Places
  <2>2. s = [next |-> s.next, made |-> s.made, ints |-> s.ints]
    BY DEF refillRandomUnsignedInts
  <2> QED
    BY <1>3, <2>1, <2>2
<1> HIDE DEF s
<1>5. \A i \in Places : s.ints[i] = m + i + 1 /\ i \in Nat /\ i < n
  BY <1>1, <1>3, BufferFacts DEF Places
<1>6. s.next + Window <= RNDSTOREDNUMBERS /\ s.next = 0 * Window
  BY <1>3, BufferFacts
<1>7. \A i, j \in Places : i < j => s.ints[i] < s.ints[j]
  BY <1>5
<1>8. \A i \in Places : s.ints[i] <= s.made /\ s.ints[i] > m
  BY <1>3, <1>5
<1>9. RandomInv(s)
  BY <1>4, <1>6, <1>7, <1>8 DEF RandomInv
<1> QED
  BY <1>2, <1>3, <1>8, <1>9 DEF s

\* A Random begins with a full buffer.
LEMMA NewFacts == RandomInv(NewRandom)
<1> DEFINE r == [next |-> RNDSTOREDNUMBERS, made |-> 0,
                 ints |-> [i \in 0 .. RNDSTOREDNUMBERS - 1 |-> 0]]
<1>1. r.next = RNDSTOREDNUMBERS /\ r.made \in Nat /\ DOMAIN r.ints = Places
  BY DEF Places
<1>2. RandomInv(refillRandomUnsignedInts(r))
  BY <1>1, RefillFacts
<1> QED
  BY <1>2 DEF NewRandom

\* The next window is in the buffer too, and its numbers come after those of
\* the window before, also when the buffer is generated again between them.
LEMMA NextFacts ==
    ASSUME NEW r, RandomInv(r)
    PROVE  LET s == nextUnsignedInt(r) IN
           /\ RandomInv(s)
           /\ \A m \in NumbersOf(r), n \in NumbersOf(s) : m < n
<1> DEFINE moved == [r EXCEPT !.next = @ + Window]
           s == nextUnsignedInt(r)
<1>1. /\ r \in [next : Nat, made : Nat, ints : [Places -> Nat]]
      /\ r.next + Window <= RNDSTOREDNUMBERS
      /\ \A i, j \in Places : i < j => r.ints[i] < r.ints[j]
      /\ \A i \in Places : r.ints[i] <= r.made
  BY DEF RandomInv
<1>2. PICK k \in Nat : r.next = k * Window
  BY DEF RandomInv
<1>3. PICK a \in Nat : a = r.next
  BY <1>1
<1>4. PICK w \in Nat \ {0} : w = Window
  BY BufferFacts
<1>5. PICK b \in Nat \ {0} : b = RNDSTOREDNUMBERS
  BY BufferFacts
<1>6. moved.next = a + w /\ moved.made = r.made /\ moved.ints = r.ints
      /\ moved \in [next : Nat, made : Nat, ints : [Places -> Nat]]
  BY <1>1, <1>3, <1>4
<1> HIDE DEF moved
<1>7. a + w <= b
  BY <1>1, <1>3, <1>4, <1>5
<1>8. \A i \in a .. a + w - 1 : i \in Places
  BY <1>5, <1>7 DEF Places
<1>9. NumbersOf(r) = {r.ints[i] : i \in a .. a + w - 1}
  BY <1>3, <1>4 DEF NumbersOf
<1>10. CASE a + w = b
  <2>1. s = refillRandomUnsignedInts(moved)
    BY <1>5, <1>6, <1>10 DEF nextUnsignedInt, moved
  <2>2. /\ RandomInv(s) /\ s.next = 0
        /\ \A i \in Places : s.ints[i] > moved.made
    BY <1>1, <1>5, <1>6, <1>10, <2>1, RefillFacts
  <2> HIDE DEF s
  <2>3. \A i \in 0 .. w - 1 : i \in Places
    BY <1>5, <1>7 DEF Places
  <2>4. NumbersOf(s) = {s.ints[i] : i \in 0 .. w - 1}
    BY <1>4, <2>2 DEF NumbersOf
  <2>5. s.ints \in [Places -> Nat]
    BY <2>2 DEF RandomInv
  <2>6. ASSUME NEW i \in a .. a + w - 1, NEW j \in 0 .. w - 1 PROVE r.ints[i] < s.ints[j]
    <3>1. r.ints[i] \in Nat /\ r.made \in Nat /\ r.ints[i] <= r.made
      BY <1>1, <1>8
    <3>2. s.ints[j] \in Nat /\ s.ints[j] > r.made
      BY <1>6, <2>2, <2>3, <2>5
    <3> QED
      BY <3>1, <3>2
  <2>7. \A m \in NumbersOf(r), n \in NumbersOf(s) : m < n
    BY <1>9, <2>4, <2>6
  <2> QED
    BY <2>2, <2>7 DEF s
<1>11. CASE a + w # b
  <2>1. s = moved
    BY <1>5, <1>6, <1>11 DEF nextUnsignedInt, moved
  <2> HIDE DEF s
  <2>2. PICK m \in Nat : b = m * w
    BY <1>4, <1>5, BufferFacts
  <2>3. a = k * w
    BY <1>2, <1>3, <1>4
  <2>4. k * w + w + w <= m * w
    <3>1. k * w + w <= m * w /\ k * w + w # m * w
      BY <1>7, <1>11, <2>2, <2>3
    <3> QED
      BY <3>1, NextMultiple
  <2>5. a + w + w <= b /\ a + w = (k + 1) * w
    BY <2>2, <2>3, <2>4
  <2>6. s.next + Window <= RNDSTOREDNUMBERS /\ s.next = (k + 1) * Window
    BY <1>4, <1>5, <1>6, <2>1, <2>5
  <2>7. RandomInv(s)
    BY <1>1, <1>6, <2>1, <2>6 DEF RandomInv
  <2>8. \A i \in a + w .. a + w + w - 1 : i \in Places
    BY <1>5, <2>5 DEF Places
  <2>9. NumbersOf(s) = {r.ints[i] : i \in a + w .. a + w + w - 1}
    BY <1>4, <1>6, <2>1 DEF NumbersOf
  <2>10. ASSUME NEW i \in a .. a + w - 1, NEW j \in a + w .. a + w + w - 1 PROVE r.ints[i] < r.ints[j]
    <3>1. i \in Places /\ j \in Places /\ i < j
      BY <1>8, <2>8
    <3> QED
      BY <1>1, <3>1
  <2>11. \A x \in NumbersOf(r), y \in NumbersOf(s) : x < y
    BY <1>9, <2>9, <2>10
  <2> QED
    BY <2>7, <2>11 DEF s
<1> QED
  BY <1>10, <1>11

\* Even numbers, and what is left of them by an even number.
LEMMA EvenFacts ==
    /\ \A n \in Nat : Even(n) => Even(Raised(n)) /\ Raised(n) = n + 2 /\ n % KeyWords = 0
    /\ Even(0) /\ KeyWords = 2
    /\ \A n \in Nat, k \in Nat \ {0} :
           LET i == (KeyWords * n) % (KeyWords * k) IN
           i \in 0 .. KeyWords * k - 1 /\ i % KeyWords = 0
<1> USE DEF KeyWords
<1>1. ASSUME NEW n \in Nat, Even(n) PROVE Even(Raised(n)) /\ Raised(n) = n + 2 /\ n % KeyWords = 0
  <2>1. PICK k \in Nat : n = 2 * k
    BY <1>1 DEF Even
  <2>2. Raised(n) = 2 * (k + 1)
    BY <2>1 DEF Raised
  <2> QED
    BY <2>1, <2>2 DEF Even, Raised
<1>2. Even(0)
  <2>1. 0 = KeyWords * 0
    OBVIOUS
  <2> QED
    BY <2>1 DEF Even
<1>3. ASSUME NEW n \in Nat, NEW k \in Nat \ {0}
      PROVE  LET i == (2 * n) % (2 * k) IN i \in 0 .. 2 * k - 1 /\ i % 2 = 0
  <2> DEFINE i == (2 * n) % (2 * k)
             q == (2 * n) \div (2 * k)
  <2>1. 2 * k \in Nat \ {0} /\ 2 * n \in Nat
    OBVIOUS
  <2>2. i \in 0 .. 2 * k - 1 /\ q \in Nat /\ 2 * n = (2 * k) * q + i
    <3>1. \A x \in Nat, y \in Nat \ {0} :
              x % y \in 0 .. y - 1 /\ x \div y \in Nat /\ x = y * (x \div y) + (x % y)
      OBVIOUS
    <3> QED
      BY <2>1, <3>1
  <2> HIDE DEF i, q
  <2>3. (2 * k) * q = 2 * (k * q) /\ k * q \in Nat
    BY <2>2
  <2>4. i = 2 * (n - k * q)
    BY <2>2, <2>3
  <2>5. i % 2 = 0
    <3>1. PICK z \in Int : z = n - k * q
      BY <2>3
    <3> QED
      BY <2>4, <3>1
  <2> QED
    BY <2>2, <2>5 DEF i
<1> QED
  BY <1>1, <1>2, <1>3

-----------------------------------------------------------------------------
(* The steps                                                               *)

\* The samples stored can be counted.
LEMMA DoneFacts ==
    /\ IsFiniteSet(Sampled) /\ Cardinality(Sampled) \in Nat
    /\ \A t : IsFiniteSet(DoneBy(t)) /\ Cardinality(DoneBy(t)) \in Nat
    /\ IsFiniteSet(Begun) /\ Cardinality(Begun) \in Nat
    /\ IsFiniteSet(Done) /\ Cardinality(Done) \in Nat
<1>1. IsFiniteSet(Sampled)
  <2>1. IsFiniteSet(0 .. PER_SET - 1)
    BY CountsAssumption, FS_Interval
  <2> QED
    BY <2>1, CountsAssumption, FS_Subset
<1>2. IsFiniteSet(Threads \X Sampled)
  BY <1>1, CountsAssumption, FS_Product
<1>3. \A t : DoneBy(t) \subseteq Sampled
  BY DEF DoneBy
<1>4. \A t : IsFiniteSet(DoneBy(t))
  BY <1>1, <1>3, FS_Subset
<1>5. IsFiniteSet(Begun) /\ IsFiniteSet(Done)
  BY <1>2, FS_Subset DEF Begun, Done
<1> QED
  BY <1>1, <1>4, <1>5, FS_CardinalityType

\* The invariant holds at the start.
LEMMA InitInv == Init => Inv
<1> SUFFICES ASSUME Init PROVE Inv
  OBVIOUS
<1>1. Types
  BY NewFacts, EvenFacts, CountsAssumption DEF Init, Types, NoId
<1>2. SampleInv /\ GetInv
  BY DEF Init, SampleInv, GetInv
<1>3. \A t \in Threads : DoneBy(t) = {}
  <2> SUFFICES ASSUME NEW t \in Threads, NEW c \in Sampled
               PROVE  ~(cnt[t] < c \/ (cnt[t] = c /\ pc[t] = "loop"))
    BY DEF DoneBy
  <2>1. cnt[t] = PER_SET /\ c \in 0 .. PER_SET - 1 /\ PER_SET \in Nat
    BY CountsAssumption DEF Init
  <2> QED
    BY <2>1
<1>4. UpperInv
  <2>1. PICK d \in Nat : d = Cardinality(Done)
    BY DoneFacts
  <2> QED
    BY <2>1 DEF Init, UpperInv, KeyWords
<1>5. LowerInv
  <2>1. PICK t \in Threads : TRUE
    BY CountsAssumption
  <2>2. Cardinality(DoneBy(t)) = 0
    BY <1>3, <2>1, FS_EmptySet
  <2> QED
    BY <1>3, <2>2 DEF Init, LowerInv
<1> QED
  BY <1>1, <1>2, <1>4, <1>5 DEF Inv

\* Steps that store no sample.
LEMMA DoneSame ==
    ASSUME \A t \in Threads : DoneBy(t)' = DoneBy(t)
    PROVE  Done' = Done
BY DEF Done

\* A sample is counted when its key is drawn, but is not stored yet.
LEMMA DrawKeyDone ==
    ASSUME Inv, NEW t \in Threads, DrawKey(t)
    PROVE  \A u \in Threads : DoneBy(u)' = DoneBy(u)
<1> TAKE u \in Threads
<1>1. cnt[t] \in Nat /\ pc[t] = "loop" /\ cnt[t] > 0
  BY DEF Inv, Types, DrawKey
<1>2. PICK n \in Nat : n = cnt[t]
  BY <1>1
<1>3. cnt' = [cnt EXCEPT ![t] = n - 1]
      /\ pc' = [pc EXCEPT ![t] = IF n - 1 \in Sampled THEN "copy" ELSE "loop"]
  BY <1>2 DEF DrawKey, Inv, Types
<1>4. CASE u # t
  BY <1>3, <1>4 DEF DoneBy, Inv, Types
<1>5. CASE u = t
  <2>1. cnt'[t] = n - 1 /\ pc'[t] = IF n - 1 \in Sampled THEN "copy" ELSE "loop"
    BY <1>3 DEF Inv, Types
  <2>2. ASSUME NEW c \in Sampled
        PROVE  (cnt'[t] < c \/ (cnt'[t] = c /\ pc'[t] = "loop"))
               <=> (cnt[t] < c \/ (cnt[t] = c /\ pc[t] = "loop"))
    <3>1. c \in Nat
      BY CountsAssumption
    <3>2. n - 1 < c <=> n < c \/ n = c
      BY <3>1
    <3>3. cnt'[t] = c => pc'[t] # "loop"
      BY <2>1
    <3> QED
      BY <1>1, <1>2, <2>1, <3>2, <3>3
  <2> QED
    BY <1>5, <2>2 DEF DoneBy
<1> QED
  BY <1>4, <1>5

\* Storing POOL_TOP ends one sample, and only one.
LEMMA StoreDone ==
    ASSUME Inv, NEW t \in Threads, StoreTop(t)
    PROVE  /\ \A u \in Threads : u # t => DoneBy(u)' = DoneBy(u)
           /\ DoneBy(t)' = DoneBy(t) \cup {cnt[t]} /\ cnt[t] \notin DoneBy(t)
           /\ Done' = Done \cup {<<t, cnt[t]>>} /\ <<t, cnt[t]>> \notin Done
<1>1. pc[t] = "store" /\ pc' = [pc EXCEPT ![t] = "loop"] /\ cnt' = cnt
  BY DEF StoreTop, random
<1>2. cnt[t] \in Sampled /\ cnt[t] \in Nat
  BY <1>1 DEF Inv, SampleInv, Types
<1>3. \A u \in Threads : u # t => DoneBy(u)' = DoneBy(u)
  BY <1>1 DEF DoneBy, Inv, Types
<1>4. \A c \in Sampled : cnt[t] < c => c # cnt[t]
  BY <1>2, CountsAssumption
<1>5. DoneBy(t)' = DoneBy(t) \cup {cnt[t]} /\ cnt[t] \notin DoneBy(t)
  BY <1>1, <1>2, <1>4 DEF DoneBy, Inv, Types
<1>6. Done' = Done \cup {<<t, cnt[t]>>}
  BY <1>2, <1>3, <1>5 DEF Done
<1>7. <<t, cnt[t]>> \notin Done
  BY <1>5 DEF Done
<1> QED
  BY <1>3, <1>5, <1>6, <1>7

\* The types.
LEMMA TypesStep ==
    ASSUME Inv, [Next]_vars
    PROVE  Types' /\ SampleInv'
<1> USE DEF Inv
<1>1. CASE UNCHANGED vars
  BY <1>1 DEF vars, random, locals, Types, SampleInv, Even
<1>2. ASSUME NEW t \in Threads, DrawKey(t) PROVE Types' /\ SampleInv'
  <2>1. PICK n \in Nat : n = cnt[t] - 1
    BY <1>2 DEF DrawKey, Types
  <2>2. /\ cnt' = [cnt EXCEPT ![t] = n] /\ phase = "set"
        /\ pc' = [pc EXCEPT ![t] = IF n \in Sampled THEN "copy" ELSE "loop"]
        /\ rnd' = [rnd EXCEPT ![t] = nextUnsignedInt(rnd[t])]
        /\ UNCHANGED <<phase, POOL_TOP, at, sum, id>>
    BY <1>2, <2>1 DEF DrawKey, Types, locals
  <2>3. RandomInv(nextUnsignedInt(rnd[t]))
    BY NextFacts DEF Types
  <2>4. DOMAIN rnd' = Threads /\ \A u \in Threads : RandomInv(rnd'[u])
    BY <2>2, <2>3 DEF Types
  <2>5. Types'
    BY <2>2, <2>4 DEF Types, Even
  <2>6. SampleInv'
    BY <2>2 DEF SampleInv, Types
  <2> QED
    BY <2>5, <2>6
<1>3. ASSUME NEW t \in Threads, CopyKey(t) PROVE Types' /\ SampleInv'
  BY <1>3 DEF CopyKey, random, Types, SampleInv, Even
<1>4. ASSUME NEW t \in Threads, AddToTop(t) PROVE Types' /\ SampleInv'
  <2>1. PICK top \in {at[t], POOL_TOP} : sum' = [sum EXCEPT ![t] = Raised(top)]
    BY <1>4 DEF AddToTop
  <2>2. Raised(top) \in Nat /\ Even(Raised(top))
    BY <2>1, EvenFacts DEF Types
  <2>3. sum' \in [Threads -> Nat] /\ \A u \in Threads : Even(sum'[u])
    BY <2>1, <2>2 DEF Types
  <2> QED
    BY <1>4, <2>3 DEF AddToTop, random, Types, SampleInv, Even
<1>5. ASSUME NEW t \in Threads, StoreTop(t) PROVE Types' /\ SampleInv'
  <2>1. \A u \in Threads : Even(at'[u]) /\ Even(sum'[u])
    BY <1>5, EvenFacts DEF StoreTop, Types
  <2>2. Even(POOL_TOP')
    BY <1>5 DEF StoreTop, Types
  <2> QED
    BY <1>5, <2>1, <2>2 DEF StoreTop, random, Types, SampleInv, Even
<1>6. ASSUME NEW t \in Threads, DrawId(t) PROVE Types' /\ SampleInv'
  <2>1. cnt[t] - 1 \in Nat
    BY <1>6 DEF DrawId, Types
  <2>2. PICK n \in Drawn :
            LET i == n % (POOL_TOP - 2) IN
            /\ id' = [id EXCEPT ![t] = i]
            /\ rnd' = [rnd EXCEPT ![t] = IF Writes(i) THEN nextUnsignedInt(@) ELSE @]
    BY <1>6 DEF DrawId
  <2>3. n \in Int /\ POOL_TOP - 2 \in Nat \ {0}
    BY <1>6 DEF DrawId, Drawn, Types
  <2>4. n % (POOL_TOP - 2) \in Int
    <3>1. \A x \in Int, y \in Nat \ {0} : x % y \in Int
      OBVIOUS
    <3> QED
      BY <2>3, <3>1
  <2>5. id' \in [Threads -> Int]
    BY <2>2, <2>4 DEF Types
  <2>6. DOMAIN rnd' = Threads /\ \A u \in Threads : RandomInv(rnd'[u])
    BY <2>2, NextFacts DEF Types
  <2>7. cnt' \in [Threads -> Nat] /\ UNCHANGED <<phase, POOL_TOP, pc, at, sum>>
    BY <1>6, <2>1 DEF DrawId, Types, locals
  <2>8. SampleInv'
    BY <1>6, <2>7 DEF DrawId, SampleInv
  <2> QED
    BY <2>5, <2>6, <2>7, <2>8 DEF Types, Even
<1>7. CASE StartGets
  <2>1. DOMAIN rnd' = Threads /\ \A u \in Threads : RandomInv(rnd'[u])
    BY <1>7, NewFacts DEF StartGets
  <2>2. cnt' \in [Threads -> Nat]
    BY <1>7, CountsAssumption DEF StartGets
  <2>3. SampleInv'
    BY <1>7 DEF StartGets, Joined, Finished, SampleInv
  <2> QED
    BY <1>7, <2>1, <2>2, <2>3 DEF StartGets, locals, Types, Even
<1>8. CASE Finish
  BY <1>8 DEF Finish, Joined, Finished, random, locals, Types, SampleInv, Even
<1>9. CASE Terminated
  BY <1>1, <1>9 DEF Terminated
<1> QED
  BY <1>1, <1>2, <1>3, <1>4, <1>5, <1>6, <1>7, <1>8, <1>9 DEF Next

\* Steps that change neither the samples stored, nor POOL_TOP, nor what a
\* thread is about to add or store.
LEMMA BoundsSame ==
    ASSUME Inv, phase' = phase, POOL_TOP' = POOL_TOP, at' = at, sum' = sum,
           \A t \in Threads : DoneBy(t)' = DoneBy(t),
           \A t \in Threads : pc'[t] \in {"add", "store"} => pc'[t] = pc[t]
    PROVE  UpperInv' /\ LowerInv'
<1>1. Done' = Done
  BY DoneSame
<1>2. UpperInv'
  BY <1>1 DEF Inv, UpperInv
<1>3. LowerInv'
  BY DEF Inv, LowerInv
<1> QED
  BY <1>2, <1>3

\* memcpy: the place is the POOL_TOP of this moment.
LEMMA CopyBounds ==
    ASSUME Inv, NEW t \in Threads, CopyKey(t)
    PROVE  UpperInv' /\ LowerInv'
<1> USE DEF Inv
<1>1. /\ pc[t] = "copy" /\ pc' = [pc EXCEPT ![t] = "add"] /\ at' = [at EXCEPT ![t] = POOL_TOP]
      /\ UNCHANGED <<phase, POOL_TOP, cnt, sum>>
  BY DEF CopyKey, random
<1>2. \A u \in Threads : DoneBy(u)' = DoneBy(u)
  BY <1>1 DEF DoneBy, Types
<1>3. Done' = Done
  BY <1>2, DoneSame
<1>4. \A u \in Threads : /\ pc'[u] = (IF u = t THEN "add" ELSE pc[u])
                         /\ at'[u] = (IF u = t THEN POOL_TOP ELSE at[u])
  BY <1>1 DEF Types
<1>5. UpperInv'
  BY <1>1, <1>3, <1>4 DEF UpperInv
<1>6. LowerInv'
  BY <1>1, <1>2, <1>4 DEF LowerInv
<1> QED
  BY <1>5, <1>6

\* The addition: what is loaded, now or before, was stored by then.
LEMMA AddBounds ==
    ASSUME Inv, NEW t \in Threads, AddToTop(t)
    PROVE  UpperInv' /\ LowerInv'
<1> USE DEF Inv
<1>1. PICK top \in {at[t], POOL_TOP} : sum' = [sum EXCEPT ![t] = Raised(top)]
  BY DEF AddToTop
<1>2. /\ pc[t] = "add" /\ pc' = [pc EXCEPT ![t] = "store"]
      /\ UNCHANGED <<phase, POOL_TOP, cnt, at>>
  BY DEF AddToTop, random
<1>3. \A u \in Threads : DoneBy(u)' = DoneBy(u)
  BY <1>2 DEF DoneBy, Types
<1>4. Done' = Done
  BY <1>3, DoneSame
<1>5. \A u \in Threads : /\ pc'[u] = (IF u = t THEN "store" ELSE pc[u])
                         /\ sum'[u] = (IF u = t THEN Raised(top) ELSE sum[u])
  BY <1>1, <1>2 DEF Types
<1>6. top \in Nat /\ Raised(top) = top + KeyWords /\ KeyWords = 2
  BY <1>1 DEF Types, Raised, KeyWords
<1>7. PICK d \in Nat : d = KeyWords * Cardinality(Done)
  BY DoneFacts DEF KeyWords
<1>8. UpperInv'
  <2>1. phase = "set" => top <= d
    BY <1>1, <1>2, <1>7 DEF UpperInv
  <2>2. phase = "set" => Raised(top) <= d + KeyWords
    BY <1>6, <2>1
  <2> QED
    BY <1>2, <1>4, <1>5, <1>7, <2>2 DEF UpperInv
<1>9. LowerInv'
  <2>1. Raised(top) >= KeyWords
    BY <1>6
  <2>2. phase = "set" /\ DoneBy(t) # {} => top >= KeyWords
    BY <1>1, <1>2 DEF LowerInv
  <2>3. phase = "set" /\ DoneBy(t) # {} => Raised(top) >= 2 * KeyWords
    BY <1>6, <2>2
  <2> QED
    BY <1>2, <1>3, <1>5, <2>1, <2>3 DEF LowerInv
<1> QED
  BY <1>8, <1>9

\* The store: one sample more is stored, and if it is not its thread's first,
\* POOL_TOP has two keys.
LEMMA StoreBounds ==
    ASSUME Inv, NEW t \in Threads, StoreTop(t)
    PROVE  UpperInv' /\ LowerInv'
<1> USE DEF Inv
<1>1. /\ pc[t] = "store" /\ pc' = [pc EXCEPT ![t] = "loop"] /\ phase' = phase
      /\ POOL_TOP' = sum[t] /\ phase = "set"
  BY DEF StoreTop, SampleInv
<1>2. \A u \in Threads : pc'[u] \in {"add", "store"} =>
          u # t /\ pc'[u] = pc[u] /\ at'[u] = at[u] /\ sum'[u] = sum[u]
  BY <1>1 DEF StoreTop, Types
<1>3. PICK n \in Nat : n = sum[t]
  BY DEF Types
<1>4. PICK d \in Nat : d = Cardinality(Done) /\ Cardinality(Done') = d + 1
  <2>1. Done' = Done \cup {<<t, cnt[t]>>} /\ <<t, cnt[t]>> \notin Done
    BY StoreDone
  <2>2. Cardinality(Done \cup {<<t, cnt[t]>>}) = Cardinality(Done) + 1
    BY <2>1, DoneFacts, FS_AddElement
  <2> QED
    BY <2>1, <2>2, DoneFacts
<1>5. KeyWords = 2
  BY DEF KeyWords
<1>6. UpperInv'
  <2>1. n <= 2 * d + 2
    BY <1>1, <1>3, <1>4, <1>5 DEF UpperInv
  <2>2. POOL_TOP' <= 2 * (d + 1)
    BY <1>1, <1>3, <2>1
  <2>3. ASSUME NEW u \in Threads, pc'[u] = "add" PROVE at'[u] <= 2 * (d + 1)
    <3>1. PICK a \in Nat : a = at[u]
      BY DEF Types
    <3>2. a <= 2 * d
      BY <1>1, <1>2, <1>4, <1>5, <2>3, <3>1 DEF UpperInv
    <3> QED
      BY <1>2, <2>3, <3>1, <3>2
  <2>4. ASSUME NEW u \in Threads, pc'[u] = "store" PROVE sum'[u] <= 2 * (d + 1) + 2
    <3>1. PICK a \in Nat : a = sum[u]
      BY DEF Types
    <3>2. a <= 2 * d + 2
      BY <1>1, <1>2, <1>4, <1>5, <2>4, <3>1 DEF UpperInv
    <3> QED
      BY <1>2, <2>4, <3>1, <3>2
  <2> QED
    BY <1>4, <1>5, <2>2, <2>3, <2>4 DEF UpperInv
<1>7. n >= 2
  BY <1>1, <1>3, <1>5 DEF LowerInv
<1>8. ASSUME NEW u \in Threads, u # t
      PROVE  /\ pc'[u] = "add" /\ DoneBy(u)' # {} => at'[u] >= KeyWords
             /\ pc'[u] = "store" => sum'[u] >= KeyWords
             /\ pc'[u] = "store" /\ DoneBy(u)' # {} => sum'[u] >= 2 * KeyWords
  BY <1>1, <1>2, <1>8, StoreDone DEF LowerInv
<1>9. pc'[t] = "loop"
  BY <1>1 DEF Types
<1>10. POOL_TOP' >= 2 * KeyWords \/ Cardinality(DoneBy(t)') <= 1
  <2>1. CASE DoneBy(t) # {}
    BY <1>1, <1>3, <2>1 DEF LowerInv
  <2>2. CASE DoneBy(t) = {}
    <3>1. DoneBy(t)' = {cnt[t]}
      BY <2>2, StoreDone
    <3>2. Cardinality(DoneBy(t)') = 1
      BY <3>1, FS_Singleton
    <3> QED
      BY <3>2
  <2> QED
    BY <2>1, <2>2
<1>11. LowerInv'
  BY <1>1, <1>3, <1>5, <1>7, <1>8, <1>9, <1>10 DEF LowerInv
<1> QED
  BY <1>6, <1>11

\* The bounds of POOL_TOP.
LEMMA BoundsStep ==
    ASSUME Inv, [Next]_vars
    PROVE  UpperInv' /\ LowerInv'
<1> USE DEF Inv
<1>1. CASE UNCHANGED vars
  BY <1>1, BoundsSame DEF vars, random, locals, DoneBy
<1>2. ASSUME NEW t \in Threads, DrawKey(t) PROVE UpperInv' /\ LowerInv'
  <2>1. /\ UNCHANGED <<phase, POOL_TOP, at, sum>>
        /\ \A u \in Threads : pc'[u] \in {"add", "store"} => pc'[u] = pc[u]
    BY <1>2 DEF DrawKey, locals, Types
  <2> QED
    BY <1>2, <2>1, DrawKeyDone, BoundsSame
<1>3. ASSUME NEW t \in Threads, CopyKey(t) \/ AddToTop(t) \/ StoreTop(t)
      PROVE  UpperInv' /\ LowerInv'
  BY <1>3, CopyBounds, AddBounds, StoreBounds
<1>4. CASE StartGets \/ Finish \/ \E t \in Threads : DrawId(t)
  <2>1. phase' # "set"
    BY <1>4 DEF StartGets, Finish, DrawId
  <2> QED
    BY <2>1 DEF UpperInv, LowerInv
<1>5. CASE Terminated
  BY <1>1, <1>5 DEF Terminated
<1> QED
  BY <1>1, <1>2, <1>3, <1>4, <1>5 DEF Next

\* A place that is drawn is even and in the pool.
LEMMA DrawnFacts ==
    ASSUME Inv, NEW n \in Drawn, POOL_TOP > 2
    PROVE  LET i == n % (POOL_TOP - 2) IN
           i \in Nat /\ i % KeyWords = 0 /\ i + KeyWords < POOL_TOP
<1>1. PICK k \in Nat : POOL_TOP = 2 * k
  BY DEF Inv, Types, Even, KeyWords
<1>2. k - 1 \in Nat \ {0} /\ POOL_TOP - 2 = 2 * (k - 1)
  BY <1>1
<1>3. PICK m \in Nat : n = m - (m % 2)
  <2>1. PICK m \in (POOL_TOP * 41) \div 100 .. (POOL_TOP * 59) \div 100 : n = m - (m % 2)
    BY DEF Drawn
  <2>2. m \in Nat
    BY <1>1
  <2> QED
    BY <2>1, <2>2
<1>4. PICK q \in Nat : n = 2 * q
  <2>1. m \div 2 \in Nat /\ n = 2 * (m \div 2)
    BY <1>3
  <2> QED
    BY <2>1
<1>5. PICK j \in Nat \ {0} : j = k - 1
  BY <1>2
<1>6. LET i == (2 * q) % (2 * j) IN i \in 0 .. 2 * j - 1 /\ i % 2 = 0
  BY EvenFacts DEF KeyWords
<1>7. n % (POOL_TOP - 2) = (2 * q) % (2 * j)
  BY <1>2, <1>4, <1>5
<1>8. PICK i \in 0 .. 2 * j - 1 : i = n % (POOL_TOP - 2) /\ i % 2 = 0
  BY <1>6, <1>7
<1>9. i + 2 < POOL_TOP
  <2>1. i <= 2 * j - 1 /\ i \in Nat
    BY <1>8
  <2>2. POOL_TOP = 2 * j + 2
    BY <1>1, <1>5
  <2> QED
    BY <2>1, <2>2
<1> QED
  BY <1>8, <1>9 DEF KeyWords

\* What get_pure starts from and draws.
LEMMA GetStep ==
    ASSUME Inv, [Next]_vars
    PROVE  GetInv'
<1> USE DEF Inv
<1>1. CASE UNCHANGED <<phase, POOL_TOP, id>>
  BY <1>1 DEF GetInv
<1>2. CASE phase = "set" /\ id' = id /\ phase' = "set"
  BY <1>2 DEF GetInv
<1>3. ASSUME NEW t \in Threads, StoreTop(t) PROVE GetInv'
  <2>1. phase = "set" /\ id' = id /\ phase' = "set"
    BY <1>3 DEF StoreTop, SampleInv
  <2> QED
    BY <1>2, <2>1
<1>4. ASSUME NEW t \in Threads, DrawId(t) PROVE GetInv'
  <2>1. PICK n \in Drawn : id' = [id EXCEPT ![t] = n % (POOL_TOP - 2)]
    BY <1>4 DEF DrawId
  <2>2. phase = "get" /\ POOL_TOP > 2 /\ UNCHANGED <<phase, POOL_TOP>>
    BY <1>4 DEF DrawId
  <2>3. \A u \in Threads : id'[u] = IF u = t THEN n % (POOL_TOP - 2) ELSE id[u]
    BY <2>1 DEF Types
  <2> QED
    BY <2>2, <2>3, DrawnFacts DEF GetInv
<1>5. CASE StartGets
  <2>1. phase = "set" /\ UNCHANGED <<POOL_TOP, id>> /\ \A t \in Threads : pc[t] = "loop" /\ cnt[t] = 0
    BY <1>5 DEF StartGets, Joined, Finished
  <2>2. \A t \in Threads : DoneBy(t) = Sampled
    <3>1. \A c \in Sampled : c \in Nat /\ (0 < c \/ 0 = c)
      BY CountsAssumption
    <3> QED
      BY <2>1, <3>1 DEF DoneBy
  <2>3. POOL_TOP >= 2 * KeyWords \/ Cardinality(Sampled) <= 1
    BY <2>1, <2>2 DEF LowerInv
  <2>4. \A t \in Threads : id[t] = NoId
    BY <2>1 DEF GetInv
  <2> QED
    BY <2>1, <2>3, <2>4, DoneFacts DEF GetInv
<1>6. CASE Finish
  BY <1>6 DEF Finish, GetInv
<1>7. ASSUME NEW t \in Threads, DrawKey(t) \/ CopyKey(t) \/ AddToTop(t) PROVE GetInv'
  BY <1>1, <1>7 DEF DrawKey, CopyKey, AddToTop
<1> QED
  BY <1>1, <1>3, <1>4, <1>5, <1>6, <1>7 DEF Next, Terminated, vars

-----------------------------------------------------------------------------
(* Theorems                                                                *)

\* The invariant is inductive.
THEOREM Invariance == Spec => []Inv
<1>1. Inv /\ [Next]_vars => Inv'
  BY TypesStep, BoundsStep, GetStep DEF Inv
<1> QED
  BY InitInv, <1>1, PTL DEF Spec

\* However the unlocked additions to POOL_TOP race (set_pure, judge.cpp), a
\* key_pool of two words for each sample begun is big enough for every copy.
THEOREM CopiesFit == Spec => []PoolFits
<1>1. Inv => PoolFits
  <2> SUFFICES ASSUME Inv, phase = "set"
               PROVE  /\ POOL_TOP <= KeyWords * Cardinality(Begun)
                      /\ \A t \in Threads : pc[t] = "add" =>
                             at[t] + KeyWords <= KeyWords * Cardinality(Begun)
    BY DEF PoolFits
  <2>1. PICK d \in Nat : d = Cardinality(Done)
    BY DoneFacts
  <2>2. PICK b \in Nat : b = Cardinality(Begun)
    BY DoneFacts
  <2>3. KeyWords = 2
    BY DEF KeyWords
  <2>4. Done \subseteq Begun
    <3> SUFFICES ASSUME NEW s \in Done PROVE cnt[s[1]] <= s[2] /\ s \in Threads \X Sampled
      BY DEF Begun
    <3>1. s \in Threads \X Sampled /\ (cnt[s[1]] < s[2] \/ cnt[s[1]] = s[2])
      BY DEF Done, DoneBy
    <3>2. PICK t \in Threads, c \in Sampled : s = <<t, c>>
      BY <3>1
    <3>3. cnt[t] \in Nat /\ c \in Nat
      BY CountsAssumption DEF Inv, Types
    <3> QED
      BY <3>1, <3>2, <3>3
  <2>5. d <= b
    BY <2>1, <2>2, <2>4, DoneFacts, FS_Subset
  <2>6. POOL_TOP <= 2 * d /\ POOL_TOP \in Nat
    BY <2>1, <2>3 DEF Inv, UpperInv, Types
  <2>7. POOL_TOP <= 2 * b
    BY <2>5, <2>6
  <2>8. ASSUME NEW t \in Threads, pc[t] = "add" PROVE at[t] + 2 <= 2 * b
    <3>1. PICK a \in Nat : a = at[t]
      BY DEF Inv, Types
    <3>2. a <= 2 * d
      BY <2>1, <2>3, <2>8, <3>1 DEF Inv, UpperInv
    <3> DEFINE s == <<t, cnt[t]>>
    <3>3. cnt[t] \in Sampled /\ cnt[t] \in Nat
      BY <2>8 DEF Inv, SampleInv, Types
    <3>4. s \in Begun
      BY <3>3 DEF Begun
    <3>5. s \notin Done
      <4>1. ~(cnt[t] < cnt[t])
        BY <3>3
      <4> QED
        BY <2>8, <4>1 DEF Done, DoneBy
    <3> HIDE DEF s
    <3>6. Cardinality(Done \cup {s}) = d + 1
      BY <2>1, <3>5, DoneFacts, FS_AddElement
    <3>7. Done \cup {s} \subseteq Begun
      BY <2>4, <3>4
    <3>8. d + 1 <= b
      BY <2>2, <3>6, <3>7, DoneFacts, FS_Subset
    <3> QED
      BY <3>1, <3>2, <3>8
  <2> QED
    BY <2>2, <2>3, <2>7, <2>8
<1> QED
  BY Invariance, <1>1, PTL

\* Additions get lost, but two samples of each thread leave two keys at least,
\* whoever stores last: get_pure never divides by zero, and it draws even
\* places of the pool (get_pure, judge.cpp).
THEOREM DrawsDefined == Spec => []GetsDefined
<1>1. Inv => GetsDefined
  BY DEF Inv, GetInv, GetsDefined
<1> QED
  BY Invariance, <1>1, PTL

\* Each window of random numbers lies in the buffer, and its numbers were never
\* handed out before, across refills (nextUnsignedInt, random.h).
THEOREM NumbersFresh == Spec => WindowsFresh
<1> DEFINE Fresh ==
        \A t \in Threads :
            phase' = phase /\ rnd'[t] # rnd[t] =>
                /\ rnd'[t].next + Window <= RNDSTOREDNUMBERS
                /\ \A m \in NumbersOf(rnd[t]), n \in NumbersOf(rnd'[t]) : m < n
<1>1. Inv /\ [Next]_vars => [Fresh]_vars
  <2> SUFFICES ASSUME Inv, Next, NEW t \in Threads, phase' = phase, rnd'[t] # rnd[t]
               PROVE  /\ rnd'[t].next + Window <= RNDSTOREDNUMBERS
                      /\ \A m \in NumbersOf(rnd[t]), n \in NumbersOf(rnd'[t]) : m < n
    BY DEF Fresh
  <2>1. rnd'[t] = nextUnsignedInt(rnd[t])
    <3>1. ASSUME NEW u \in Threads, DrawKey(u) PROVE rnd'[t] = nextUnsignedInt(rnd[t])
      <4>1. rnd' = [rnd EXCEPT ![u] = nextUnsignedInt(rnd[u])]
        BY <3>1 DEF DrawKey
      <4> QED
        BY <4>1 DEF Inv, Types
    <3>2. ASSUME NEW u \in Threads, DrawId(u) PROVE rnd'[t] = nextUnsignedInt(rnd[t])
      <4>1. PICK i : rnd' = [rnd EXCEPT ![u] = IF Writes(i) THEN nextUnsignedInt(rnd[u]) ELSE rnd[u]]
        BY <3>2 DEF DrawId
      <4> QED
        BY <4>1 DEF Inv, Types
    <3>3. ASSUME NEW u \in Threads, CopyKey(u) \/ AddToTop(u) \/ StoreTop(u) PROVE FALSE
      BY <3>3 DEF CopyKey, AddToTop, StoreTop, random
    <3>4. CASE StartGets \/ Finish \/ Terminated
      BY <3>4 DEF StartGets, Finish, Terminated, vars, random
    <3> QED
      BY <3>1, <3>2, <3>3, <3>4 DEF Next
  <2>2. RandomInv(rnd[t])
    BY DEF Inv, Types
  <2> HIDE DEF Fresh
  <2>3. RandomInv(nextUnsignedInt(rnd[t]))
        /\ \A m \in NumbersOf(rnd[t]), n \in NumbersOf(nextUnsignedInt(rnd[t])) : m < n
    BY <2>2, NextFacts
  <2>4. nextUnsignedInt(rnd[t]).next + Window <= RNDSTOREDNUMBERS
    BY <2>3 DEF RandomInv
  <2> QED
    BY <2>1, <2>3, <2>4
<1>2. Spec => [][Fresh]_vars
  BY Invariance, <1>1, PTL DEF Spec
<1> QED
  BY <1>2 DEF WindowsFresh
=============================================================================
