--------------------- MODULE InlineSkipListOrderProofs ---------------------
(***************************************************************************)
(* The order of the list: theorems about InlineSkipList that need to know  *)
(* which keys the searches, the splices and the links bracket.             *)
(***************************************************************************)
EXTENDS InlineSkipListProofs

-----------------------------------------------------------------------------
(* The inductive invariant                                                 *)

\* Two nodes of the list have two keys.
DistinctKeys ==
    \A m, n \in Linked(0) : Key[m] = Key[n] => m = n

\* Of two nodes before a key, p is not after q; of two nodes at or behind it,
\* n is not before m.
NotAfter(p, q) == p = q \/ (q # Head /\ IsBehind(p, Key[q]))
NotBefore(n, m) == n = m \/ (m # Null /\ IsBeyond(n, Key[m]))

\* Level l of splice s lies inside level l + 1.
NestedAt(s, l) ==
    /\ NotAfter(prev_[s][l + 1], prev_[s][l])
    /\ NotBefore(next_[s][l + 1], next_[s][l])

\* No insert under way has yet to search level l of s or has given s up.
Trusted(s, l) ==
    \A t \in Threads : splice[t] = s =>
        /\ pc[t] = "find" => level[t] < l
        /\ pc[t] \in {"refind", "link", "publish", "finish"} => valid[t]

SplicesNested ==
    \A s \in Splices : \A l \in Levels :
        l < height_[s] /\ Trusted(s, l) => NestedAt(s, l)

\* A search stands before its key, below the node it must not pass.
SearchBrackets(t) ==
    /\ pc[t] \in Cursors => IsBehind(before[t], key[t])
    /\ pc[t] = "seek" => IsBeyond(after[t], key[t])
    /\ pc[t] = "find" =>
        /\ NotAfter(prev_[splice[t]][level[t] + 1], before[t])
        /\ after[t] = next_[splice[t]][level[t] + 1]
    /\ pc[t] = "refind" =>
        /\ NotAfter(prev_[splice[t]][level[t]], before[t])
        /\ after[t] = Null

\* The levels of its splice that an insert found, or found to be good.
Found(t, l) ==
    \/ pc[t] = "find" /\ level[t] < l
    \/ pc[t] \in {"refind", "link", "publish"} /\ level[t] <= l
    \/ pc[t] = "finish" /\ height[x[t]] <= l

BracketsAt(t, l) ==
    /\ IsBehind(prev_[splice[t]][l], key[t])
    /\ ~KeyIsAfterNode(key[t], next_[splice[t]][l])

SpliceBrackets(t) ==
    \A l \in SpliceLevels : Found(t, l) /\ l <= height_[splice[t]] => BracketsAt(t, l)

\* A node about to be published is no duplicate.
NoDuplicate(t) ==
    pc[t] = "publish" => IsBeyond(Succ(t), key[t])

\* What a sequential insert linked stays between its neighbours.
Threaded(t) ==
    ~cas[t] /\ pc[t] \in {"refind", "link", "publish"} =>
        \A l \in Levels : l < level[t] =>
            /\ link[prev_[splice[t]][l]][l] = x[t]
            /\ link[x[t]][l] = next_[splice[t]][l]

\* A splice is given up only for a race lost above level 0.
GivenUp(t) ==
    ~valid[t] => \/ cas[t] /\ pc[t] \in {"refind", "link", "publish"} /\ level[t] > 0
                 \/ pc[t] \in {"finish", "ret"}

ThreadOrder(t) ==
    /\ SearchBrackets(t)
    /\ SpliceBrackets(t)
    /\ NoDuplicate(t)
    /\ Threaded(t)
    /\ GivenUp(t)

Order ==
    /\ Ordered
    /\ DistinctKeys
    /\ SplicesNested
    /\ \A t \in Threads : ThreadOrder(t)

-----------------------------------------------------------------------------
(* Lemmas                                                                  *)

LEMMA KeyIsInt ==
  ASSUME Shape
  PROVE  /\ \A n \in Nodes : Key[n] \in Int
         /\ \A t \in Threads : key[t] \in Int
BY KeysAssumption DEF Shape, TypeOK

\* What the invariant says of a thread that another thread's step leaves alone.
SameOrder(u) ==
    /\ SameCall(u)
    /\ key'[u] = key[u] /\ after'[u] = after[u] /\ valid'[u] = valid[u]
    /\ Inserting(u) => height_'[splice[u]] = height_[splice[u]]

LEMMA OthersInOrder ==
  ASSUME Shape, NEW t \in Threads, NEW u \in Threads, u # t,
         ThreadOrder(u), SameOrder(u), UNCHANGED link \/ Inserting(t)
  PROVE  ThreadOrder(u)'
<1> USE DEF SameOrder, SameCall
<1>1. pc[u] \in {"find", "refind", "link", "publish", "finish"} => Inserting(u)
  BY Inside
<1>2. SearchBrackets(u)'
  BY <1>1 DEF ThreadOrder, SearchBrackets, Cursors
<1>3. SpliceBrackets(u)'
  BY <1>1 DEF ThreadOrder, SpliceBrackets, Found, BracketsAt
<1>4. NoDuplicate(u)'
  BY <1>1 DEF ThreadOrder, NoDuplicate, Succ
<1>5. Threaded(u)'
  <2>1. CASE UNCHANGED link
    BY <1>1, <2>1 DEF ThreadOrder, Threaded
  <2>2. CASE Inserting(t)
    BY <1>1, <2>2 DEF ThreadOrder, Threaded, Shape, Exclusive
  <2> QED BY <2>1, <2>2
<1>6. GivenUp(u)'
  BY DEF ThreadOrder, GivenUp
<1> QED BY <1>2, <1>3, <1>4, <1>5, <1>6 DEF ThreadOrder

\* A step that sets no link.
LEMMA OrderKept ==
  ASSUME Shape, Order, UNCHANGED link, NEW t \in Threads,
         \A u \in Threads : u # t => SameOrder(u),
         SplicesNested', ThreadOrder(t)'
  PROVE  Order'
<1>1. Ordered' /\ DistinctKeys'
  <2>1. \A l \in Levels : NothingSkipped(l)'
    BY SameLinks DEF Order, Ordered, NothingSkipped
  <2>2. Linked(0)' = Linked(0)
    BY DEF Linked
  <2> QED BY <2>1, <2>2 DEF Order, Ordered, DistinctKeys
<1>2. \A u \in Threads : ThreadOrder(u)'
  BY OthersInOrder DEF Order
<1> QED BY <1>1, <1>2 DEF Order

\* A step that writes no splice and lays none open to doubt.
LEMMA NestedKept ==
  ASSUME Order, UNCHANGED splices,
         \A u \in Threads : \A s \in Splices : splice[u] = s =>
             /\ pc[u] = "find" =>
                    splice'[u] = s /\ pc'[u] = "find" /\ level'[u] = level[u]
             /\ pc[u] \in {"refind", "link", "publish", "finish"} /\ ~valid[u] =>
                    /\ splice'[u] = s /\ ~valid'[u]
                    /\ pc'[u] \in {"refind", "link", "publish", "finish"}
  PROVE  SplicesNested'
<1>1. \A s \in Splices : \A l \in Levels : Trusted(s, l)' => Trusted(s, l)
  BY DEF Trusted
<1> QED BY <1>1 DEF Order, SplicesNested, NestedAt, splices

-----------------------------------------------------------------------------
(* Every step preserves Order: the readers                                 *)

LEMMA ContainsCallOrder ==
  ASSUME Shape, Shape', Order, NEW t \in Threads, NEW k \in Keys, ContainsCall(t, k)
  PROVE  Order'
<1> USE DEF ContainsCall, list, splices, call, search, Inserting
<1>a. ~Inserting(t) /\ before[t] = Head /\ after[t] = Null
  BY Reading DEF Shape, CallShape, CallOK
<1>1. /\ pc'[t] = "seek" /\ before'[t] = Head /\ after'[t] = Null
      /\ valid'[t] = valid[t]
  BY <1>a DEF Shape, TypeOK
<1>2. ThreadOrder(t)'
  BY <1>1 DEF Order, ThreadOrder, SearchBrackets, SpliceBrackets, Found, NoDuplicate,
              Threaded, GivenUp, Cursors, IsBehind, IsBeyond
<1>3. \A u \in Threads : u # t => SameOrder(u)
  BY DEF SameOrder, SameCall, Shape, TypeOK
<1>4. SplicesNested'
  BY NestedKept DEF Shape, TypeOK
<1> QED BY <1>2, <1>3, <1>4, OrderKept

LEMMA SeekAdvanceOrder ==
  ASSUME Shape, Shape', Links, Order, NEW t \in Threads, SeekAdvance(t)
  PROVE  Order'
<1> USE DEF SeekAdvance, list, splices, call, search, Inserting
<1> DEFINE n == link[before[t]][level[t]]
<1>a. n \in Nodes
  BY StandsOn, NodesAssumption DEF Shape, TypeOK, Linked, Cursors, SeekIsBigger
<1>1. /\ pc[t] = "seek" /\ pc'[t] = "seek" /\ before'[t] = n /\ after'[t] = after[t]
      /\ valid'[t] = valid[t] /\ key'[t] = key[t]
  BY DEF Shape, TypeOK
<1>b. IsBehind(n, key[t])
  BY <1>a DEF IsBehind
<1>2. ThreadOrder(t)'
  BY <1>1, <1>b DEF Order, ThreadOrder, SearchBrackets, SpliceBrackets, Found, NoDuplicate,
              Threaded, GivenUp, Cursors, IsBehind, IsBeyond
<1>3. \A u \in Threads : u # t => SameOrder(u)
  BY DEF SameOrder, SameCall, Shape, TypeOK
<1>4. SplicesNested'
  BY NestedKept DEF Shape, TypeOK
<1> QED BY <1>2, <1>3, <1>4, OrderKept

LEMMA SeekDescendOrder ==
  ASSUME Shape, Shape', Links, Order, NEW t \in Threads, SeekDescend(t)
  PROVE  Order'
<1> USE DEF SeekDescend, list, splices, call, search, Inserting
<1> DEFINE n == link[before[t]][level[t]]
<1>1. /\ pc[t] = "seek" /\ pc'[t] = "seek" /\ before'[t] = before[t] /\ after'[t] = n
      /\ valid'[t] = valid[t] /\ key'[t] = key[t]
  BY DEF Shape, TypeOK
<1>b. IsBeyond(n, key[t])
  BY <1>1 DEF Order, ThreadOrder, SearchBrackets, SeekIsBigger, IsBeyond
<1>2. ThreadOrder(t)'
  BY <1>1, <1>b DEF Order, ThreadOrder, SearchBrackets, SpliceBrackets, Found, NoDuplicate,
              Threaded, GivenUp, Cursors, IsBehind, IsBeyond
<1>3. \A u \in Threads : u # t => SameOrder(u)
  BY DEF SameOrder, SameCall, Shape, TypeOK
<1>4. SplicesNested'
  BY NestedKept DEF Shape, TypeOK
<1> QED BY <1>2, <1>3, <1>4, OrderKept

LEMMA SeekReturnOrder ==
  ASSUME Shape, Shape', Order, NEW t \in Threads, SeekReturn(t)
  PROVE  Order'
<1> USE DEF SeekReturn, list, splices, call, search, Inserting
<1>1. pc[t] = "seek" /\ pc'[t] = "ret" /\ valid'[t] = valid[t]
  BY DEF Shape, TypeOK
<1>2. ThreadOrder(t)'
  BY <1>1 DEF Order, ThreadOrder, SearchBrackets, SpliceBrackets, Found, NoDuplicate,
              Threaded, GivenUp, Cursors
<1>3. \A u \in Threads : u # t => SameOrder(u)
  BY DEF SameOrder, SameCall, Shape, TypeOK
<1>4. SplicesNested'
  BY NestedKept DEF Shape, TypeOK
<1> QED BY <1>2, <1>3, <1>4, OrderKept

-----------------------------------------------------------------------------
(* Every step preserves Order: the way of an insert to its link loop       *)

LEMMA InsertCallOrder ==
  ASSUME Shape, Shape', Order, NEW t \in Threads, NEW n \in Nodes,
         NEW h \in 1 .. kMaxHeight, NEW s \in Splices, NEW c, NEW f, InsertCall(t, n, h, s, c, f)
  PROVE  Order'
<1> USE DEF InsertCall, list, splices, call, search, Inserting
<1>1. pc[t] = "idle" /\ pc'[t] \in {"raise", "open"} /\ valid'[t] = valid[t]
  BY DEF Shape, TypeOK
<1>2. ThreadOrder(t)'
  BY <1>1 DEF Order, ThreadOrder, SearchBrackets, SpliceBrackets, Found, NoDuplicate,
              Threaded, GivenUp, Cursors
<1>3. \A u \in Threads : u # t => SameOrder(u)
  <2>1. \A u \in Threads : Inserting(u) => x[u] \in Nodes /\ height[x[u]] > 0
    BY DEF Shape, CallShape, CallOK
  <2>2. \A u \in Threads : Inserting(u) => height'[x[u]] = height[x[u]]
    BY <2>1 DEF Shape, TypeOK
  <2> QED BY <2>2 DEF SameOrder, SameCall, Shape, TypeOK
<1>4. SplicesNested'
  BY NestedKept DEF Shape, TypeOK
<1> QED BY <1>2, <1>3, <1>4, OrderKept

LEMMA CASMaxHeightOrder ==
  ASSUME Shape, Shape', Order, NEW t \in Threads, CASMaxHeight(t)
  PROVE  Order'
<1> USE DEF CASMaxHeight, list, splices, call, search, Inserting
<1>1. pc[t] = "raise" /\ pc'[t] = "open" /\ valid'[t] = valid[t]
  BY DEF Shape, TypeOK
<1>2. ThreadOrder(t)'
  BY <1>1 DEF Order, ThreadOrder, SearchBrackets, SpliceBrackets, Found, NoDuplicate,
              Threaded, GivenUp, Cursors
<1>3. \A u \in Threads : u # t => SameOrder(u)
  BY DEF SameOrder, SameCall, Shape, TypeOK
<1>4. SplicesNested'
  BY NestedKept DEF Shape, TypeOK
<1> QED BY <1>2, <1>3, <1>4, OrderKept

LEMMA ReloadMaxHeightOrder ==
  ASSUME Shape, Shape', Order, NEW t \in Threads, ReloadMaxHeight(t)
  PROVE  Order'
<1> USE DEF ReloadMaxHeight, list, splices, call, search, Inserting
<1>1. pc[t] = "raise" /\ pc'[t] \in {"raise", "open"} /\ valid'[t] = valid[t]
  BY DEF Shape, TypeOK
<1>2. ThreadOrder(t)'
  BY <1>1 DEF Order, ThreadOrder, SearchBrackets, SpliceBrackets, Found, NoDuplicate,
              Threaded, GivenUp, Cursors
<1>3. \A u \in Threads : u # t => SameOrder(u)
  BY DEF SameOrder, SameCall, Shape, TypeOK
<1>4. SplicesNested'
  BY NestedKept DEF Shape, TypeOK
<1> QED BY <1>2, <1>3, <1>4, OrderKept

LEMMA ReuseSpliceOrder ==
  ASSUME Shape, Shape', Order, NEW t \in Threads, ReuseSplice(t)
  PROVE  Order'
<1> USE DEF ReuseSplice, list, splices, call, search, Inserting
<1>1. pc[t] = "open" /\ pc'[t] = "check" /\ valid'[t] = valid[t]
  BY DEF Shape, TypeOK
<1>2. ThreadOrder(t)'
  BY <1>1 DEF Order, ThreadOrder, SearchBrackets, SpliceBrackets, Found, NoDuplicate,
              Threaded, GivenUp, Cursors
<1>3. \A u \in Threads : u # t => SameOrder(u)
  BY DEF SameOrder, SameCall, Shape, TypeOK
<1>4. SplicesNested'
  BY NestedKept DEF Shape, TypeOK
<1> QED BY <1>2, <1>3, <1>4, OrderKept

LEMMA LinkDuplicateOrder ==
  ASSUME Shape, Shape', Order, NEW t \in Threads, LinkDuplicate(t)
  PROVE  Order'
<1> USE DEF LinkDuplicate, list, splices, call, search, Inserting
<1>1. pc[t] = "link" /\ pc'[t] = "ret" /\ valid'[t] = valid[t]
  BY DEF Shape, TypeOK
<1>2. ThreadOrder(t)'
  BY <1>1 DEF Order, ThreadOrder, SearchBrackets, SpliceBrackets, Found, NoDuplicate,
              Threaded, GivenUp, Cursors
<1>3. \A u \in Threads : u # t => SameOrder(u)
  BY DEF SameOrder, SameCall, Shape, TypeOK
<1>4. SplicesNested'
  <2>1. valid[t]
    BY <1>1 DEF Order, ThreadOrder, GivenUp, IsDuplicate
  <2> QED BY <2>1, NestedKept DEF Shape, TypeOK
<1> QED BY <1>2, <1>3, <1>4, OrderKept

\* One level up, a nested splice brackets the key as well.
LEMMA BracketsAbove ==
  ASSUME Shape, NEW t \in Threads, Inserting(t), pc[t] = "check",
         NEW l \in 0 .. height_[splice[t]] - 1, BracketsAt(t, l), NestedAt(splice[t], l)
  PROVE  BracketsAt(t, l + 1)
<1> DEFINE s == splice[t]
           k == key[t]
<1>1. s \in Splices /\ height_[s] \in 0 .. kMaxHeight /\ height_[s] > 0
  BY HeightAssumption DEF Shape, TypeOK, Inserting
<1>2. /\ l \in SpliceLevels /\ l + 1 \in SpliceLevels
      /\ l <= height_[s] /\ l + 1 <= height_[s]
  BY <1>1, HeightAssumption DEF SpliceLevels
<1>3. /\ prev_[s][l] \in Nodes \cup {Head} /\ next_[s][l] \in Nodes \cup {Null}
      /\ prev_[s][l + 1] \in Nodes \cup {Head} /\ next_[s][l + 1] \in Nodes \cup {Null}
  BY <1>1, <1>2, OwnWritten
<1>4. k \in Int /\ \A n \in Nodes : Key[n] \in Int
  BY KeyIsInt
<1>5. IsBehind(prev_[s][l + 1], k)
  BY <1>3, <1>4 DEF BracketsAt, NestedAt, NotAfter, IsBehind
<1>6. ~KeyIsAfterNode(k, next_[s][l + 1])
  BY <1>3, <1>4 DEF BracketsAt, NestedAt, NotBefore, IsBeyond, KeyIsAfterNode
<1> QED BY <1>5, <1>6 DEF BracketsAt

\* A splice that is good for a key at level r is good for it from r up.
LEMMA BracketsUp ==
  ASSUME Shape, Order, NEW t \in Threads, Inserting(t), pc[t] = "check",
         NEW r \in 0 .. height_[splice[t]], BracketsAt(t, r)
  PROVE  \A l \in r .. height_[splice[t]] : BracketsAt(t, l)
<1> DEFINE s == splice[t]
           T == {l \in r .. height_[s] : ~BracketsAt(t, l)}
<1>1. s \in Splices /\ height_[s] \in 0 .. kMaxHeight
  BY HeightAssumption DEF Shape, TypeOK, Inserting
<1>2. SUFFICES ASSUME T # {} PROVE FALSE
  OBVIOUS
<1>3. T \subseteq Nat
  BY <1>1
<1>4. PICK m \in T : \A n \in T : m <= n
  <2> HIDE DEF T
  <2> QED BY <1>2, <1>3, LeastNatural
<1>5. m \in r + 1 .. height_[s]
  BY <1>1
<1>6. m - 1 \notin T /\ m - 1 \in r .. height_[s]
  BY <1>1, <1>4, <1>5
<1>7. BracketsAt(t, m - 1)
  BY <1>6
<1>8. NestedAt(s, m - 1)
  <2>1. Trusted(s, m - 1)
    BY DEF Trusted, Shape, Exclusive, Inserting
  <2>2. m - 1 \in Levels /\ m - 1 < height_[s]
    BY <1>1, <1>5, HeightAssumption DEF Levels
  <2> QED BY <1>1, <2>1, <2>2 DEF Order, SplicesNested
<1>9. BracketsAt(t, (m - 1) + 1)
  BY <1>1, <1>5, <1>7, <1>8, BracketsAbove
<1> QED BY <1>4, <1>5, <1>9

LEMMA RecomputeOrder ==
  ASSUME Shape, Shape', Order, NEW t \in Threads, pc[t] = "check",
         NEW r \in 0 .. max_height[t], RecomputeSpliceLevels(t, r), BracketsAt(t, r),
         UNCHANGED <<list, splices, call, valid, ret>>
  PROVE  Order'
<1> USE DEF RecomputeSpliceLevels, list, splices, call, search, Inserting
<1> DEFINE s == splice[t]
<1>a. /\ Inserting(t) /\ s \in Splices /\ max_height[t] \in 1 .. kMaxHeight
      /\ height_[s] \in 0 .. max_height[t] /\ max_height[t] = height_[s]
  <2>1. /\ Inserting(t) /\ s \in Splices /\ max_height[t] \in 1 .. kMaxHeight
        /\ height_[s] \in 0 .. max_height[t]
    BY Inside
  <2> QED BY <2>1 DEF Shape, CallShape, CallOK
<1>b. \A l \in r .. height_[s] : BracketsAt(t, l)
  BY <1>a, BracketsUp
<1>1. valid[t]
  BY DEF Order, ThreadOrder, GivenUp
<1>2. /\ \/ r = 0 /\ pc'[t] = "link" /\ level'[t] = 0
         \/ /\ r > 0 /\ pc'[t] = "find" /\ level'[t] = r - 1
            /\ before'[t] = prev_[s][r] /\ after'[t] = next_[s][r]
      /\ splice'[t] = s /\ key'[t] = key[t] /\ valid'[t]
  BY <1>1 DEF Shape, TypeOK
<1>3. SearchBrackets(t)'
  BY <1>2, <1>a DEF SearchBrackets, Cursors, BracketsAt, NotAfter
<1>4. SpliceBrackets(t)'
  <2>1. \A l \in SpliceLevels : Found(t, l)' => r <= l
    BY <1>2 DEF Found, SpliceLevels
  <2>2. \A l \in SpliceLevels : Found(t, l)' /\ l <= height_[s] => BracketsAt(t, l)
    BY <1>a, <1>b, <2>1 DEF SpliceLevels
  <2> QED BY <2>2 DEF SpliceBrackets, BracketsAt
<1>5. NoDuplicate(t)' /\ Threaded(t)' /\ GivenUp(t)'
  BY <1>2 DEF NoDuplicate, Threaded, GivenUp, Levels
<1>6. \A u \in Threads : u # t => SameOrder(u)
  BY DEF SameOrder, SameCall, Shape, TypeOK
<1>7. SplicesNested'
  BY <1>1, NestedKept DEF Shape, TypeOK
<1> QED BY <1>3, <1>4, <1>5, <1>6, <1>7, OrderKept DEF ThreadOrder

\* The first level CheckSplice stops at brackets the key.
LEMMA CheckSpliceStops ==
  ASSUME Shape, NEW t \in Threads, CheckSplice(t)
  PROVE  \/ UNCHANGED <<list, splices, call, valid, ret, pc, level, before, after>>
         \/ \E r \in 0 .. max_height[t] :
                RecomputeSpliceLevels(t, r) /\ BracketsAt(t, r)
<1> DEFINE r == recompute[t]
           m == max_height[t]
           s == splice[t]
<1>1. pc[t] = "check" /\ UNCHANGED <<list, splices, call, valid, ret>>
  BY DEF CheckSplice
<1>2. s \in Splices /\ m \in 1 .. kMaxHeight /\ height_[s] = m /\ r \in 0 .. m - 1
  <2>1. s \in Splices /\ m \in 1 .. kMaxHeight /\ Inserting(t) /\ height_[s] \in 0 .. m
    BY <1>1, Inside
  <2>2. r \in 0 .. kMaxHeight /\ r < m /\ m <= height_[s]
    BY <1>1, <2>1 DEF Shape, TypeOK, CallShape, CallOK
  <2> QED BY <2>1, <2>2, HeightAssumption
<1>3. r \in SpliceLevels /\ m \in SpliceLevels
  BY <1>2, HeightAssumption DEF SpliceLevels
<1>4. prev_[s][m] = Head /\ next_[s][m] = Null
  BY <1>2 DEF Shape, SpliceShape
<1>5. BracketsAt(t, m)
  BY <1>4 DEF BracketsAt, IsBehind, KeyIsAfterNode
<1>6. ASSUME NEW q \in 0 .. m, CheckFrom(t, q)
      PROVE  \/ UNCHANGED <<pc, level, before, after>>
             \/ RecomputeSpliceLevels(t, m)
  BY <1>2, <1>6 DEF CheckFrom
<1>7. CASE CheckFrom(t, r + 1)
  BY <1>1, <1>2, <1>5, <1>6, <1>7
<1>8. CASE prev_[s][r] # Head /\ CheckFrom(t, SkipBad(t, prev_[s], r))
  <2>1. SkipBad(t, prev_[s], r) \in 0 .. m
    BY <1>2, <1>3, <1>4, <1>8, AboveBadBounds DEF SkipBad
  <2> QED BY <1>1, <1>2, <1>5, <1>6, <1>8, <2>1
<1>9. CASE next_[s][r] # Null /\ CheckFrom(t, SkipBad(t, next_[s], r))
  <2>1. SkipBad(t, next_[s], r) \in 0 .. m
    BY <1>2, <1>3, <1>4, <1>9, AboveBadBounds DEF SkipBad
  <2> QED BY <1>1, <1>2, <1>5, <1>6, <1>9, <2>1
<1>10. CASE /\ prev_[s][r] = Head \/ KeyIsAfterNode(key[t], prev_[s][r])
            /\ ~KeyIsAfterNode(key[t], next_[s][r])
            /\ RecomputeSpliceLevels(t, r)
  <2>1. BracketsAt(t, r)
    BY <1>10 DEF BracketsAt, IsBehind, KeyIsAfterNode
  <2> QED BY <1>2, <1>10, <2>1
<1> QED BY <1>7, <1>8, <1>9, <1>10 DEF CheckSplice, KeyIsAfterNode

LEMMA CheckSpliceOrder ==
  ASSUME Shape, Shape', Order, NEW t \in Threads, CheckSplice(t)
  PROVE  Order'
<1>1. pc[t] = "check" /\ UNCHANGED <<list, splices, call, valid, ret>>
  BY DEF CheckSplice
<1>2. CASE UNCHANGED <<list, splices, call, valid, ret, pc, level, before, after>>
  <2> USE <1>2 DEF list, splices, call, Inserting
  <2>1. ThreadOrder(t)'
    BY <1>1 DEF Order, ThreadOrder, SearchBrackets, SpliceBrackets, Found, NoDuplicate,
                Threaded, GivenUp, Cursors
  <2>2. \A u \in Threads : u # t => SameOrder(u)
    <3>1. recompute' = [recompute EXCEPT ![t] = recompute'[t]]
      BY DEF CheckSplice, CheckFrom, RecomputeSpliceLevels, Shape, TypeOK
    <3> QED BY <3>1 DEF SameOrder, SameCall, Shape, TypeOK
  <2>3. SplicesNested'
    BY NestedKept
  <2> QED BY <2>1, <2>2, <2>3, OrderKept
<1> QED BY <1>1, <1>2, CheckSpliceStops, RecomputeOrder

LEMMA FindAdvanceOrder ==
  ASSUME Shape, Shape', Links, Order, NEW t \in Threads, FindAdvance(t)
  PROVE  Order'
<1> USE DEF FindAdvance, list, splices, call, search, Inserting
<1> DEFINE n == link[before[t]][level[t]]
           lv == level[t]
           s == splice[t]
<1>a. Inserting(t) /\ s \in Splices
  BY Inside
<1>b. /\ before[t] \in OnLevel(lv) /\ lv \in Levels /\ n \in Nodes /\ n \in Linked(lv)
      /\ IsBehind(n, key[t])
  BY StandsOn, NodesAssumption
     DEF Cursors, KeyIsAfterNode, IsBehind, Shape, TypeOK, Linked
<1>1. /\ pc'[t] = pc[t] /\ before'[t] = n /\ UNCHANGED <<after, valid, level, key, splice, height>>
  BY DEF Shape, TypeOK
<1>c. ASSUME NEW p, NotAfter(p, before[t]), p \in Nodes \cup {Head}
      PROVE  NotAfter(p, n)
  <2>1. n # Head
    BY <1>b, NodesAssumption
  <2>2. IsBehind(before[t], Key[n])
    BY <1>b DEF Order, Ordered, NothingSkipped, Linked
  <2>3. before[t] \in Nodes \cup {Head}
    BY DEF Shape, TypeOK
  <2>4. IsBehind(p, Key[n])
    BY <1>c, <1>b, <2>2, <2>3, KeyIsInt DEF NotAfter, IsBehind
  <2> QED BY <2>1, <2>4 DEF NotAfter
<1>2. SearchBrackets(t)'
  <2>1. CASE pc[t] = "find"
    <3>1. lv + 1 \in SpliceLevels /\ lv < lv + 1 /\ lv + 1 <= height_[s] /\ height_[s] > 0
      <4>1. /\ height_[s] \in 0 .. max_height[t] /\ max_height[t] \in 1 .. kMaxHeight
            /\ lv < max_height[t] /\ max_height[t] <= height_[s]
        BY <1>a, <2>1, Inside DEF Shape, CallShape, CallOK
      <4> QED BY <4>1, <1>b, HeightAssumption DEF Levels, SpliceLevels
    <3>2. prev_[s][lv + 1] \in Nodes \cup {Head}
      BY <1>a, <3>1, OwnWritten
    <3>3. NotAfter(prev_[s][lv + 1], n)
      BY <1>c, <3>2, <2>1 DEF Order, ThreadOrder, SearchBrackets
    <3> QED BY <1>1, <1>b, <2>1, <3>3 DEF Order, ThreadOrder, SearchBrackets
  <2>2. CASE pc[t] = "refind"
    <3>1. prev_[s][lv] \in Nodes \cup {Head}
      BY <2>2, Linking DEF Prev
    <3>2. NotAfter(prev_[s][lv], n)
      BY <1>c, <3>1, <2>2 DEF Order, ThreadOrder, SearchBrackets
    <3> QED BY <1>1, <1>b, <2>2, <3>2 DEF Order, ThreadOrder, SearchBrackets
  <2> QED BY <2>1, <2>2
<1>3. /\ SpliceBrackets(t)' /\ NoDuplicate(t)' /\ Threaded(t)' /\ GivenUp(t)'
  BY <1>1 DEF Order, ThreadOrder, SpliceBrackets, BracketsAt, Found, NoDuplicate, Succ,
              Threaded, GivenUp
<1>4. \A u \in Threads : u # t => SameOrder(u)
  BY DEF SameOrder, SameCall, Shape, TypeOK
<1>5. SplicesNested'
  BY NestedKept DEF Shape, TypeOK
<1> QED BY <1>2, <1>3, <1>4, <1>5, OrderKept DEF ThreadOrder

\* After a lost race the search goes on from the same entry.
LEMMA RefindOrder ==
  ASSUME Shape, Shape', Order, NEW t \in Threads, pc[t] \in {"link", "publish"}, Refind(t),
         ~valid[t] => cas[t] /\ level[t] > 0,
         UNCHANGED <<list, splices, call, ret>>
  PROVE  Order'
<1> USE DEF Refind, list, splices, call, search, Inserting
<1>1. /\ pc'[t] = "refind" /\ before'[t] = Prev(t) /\ after'[t] = Null
      /\ UNCHANGED <<valid, level, key, splice, height>>
  BY DEF Shape, TypeOK, Prev
<1>a. Inserting(t) /\ level[t] \in SpliceLevels /\ level[t] <= height_[splice[t]]
  <2>1. level[t] \in Levels /\ level[t] < height_[splice[t]] /\ splice[t] \in Splices
    BY Linking, Inside
  <2>2. /\ Inserting(t) /\ max_height[t] \in 1 .. kMaxHeight
        /\ height_[splice[t]] \in 0 .. max_height[t]
    BY Inside
  <2> QED BY <2>1, <2>2, HeightAssumption DEF Levels, SpliceLevels
<1>2. SearchBrackets(t)'
  <2>1. BracketsAt(t, level[t])
    BY <1>a, HeightAssumption DEF Order, ThreadOrder, SpliceBrackets, Found, SpliceLevels
  <2> QED BY <1>1, <2>1 DEF SearchBrackets, Cursors, BracketsAt, NotAfter, Prev
<1>3. /\ SpliceBrackets(t)' /\ NoDuplicate(t)' /\ Threaded(t)' /\ GivenUp(t)'
  BY <1>1 DEF Order, ThreadOrder, SpliceBrackets, BracketsAt, Found, NoDuplicate,
              Threaded, GivenUp
<1>4. \A u \in Threads : u # t => SameOrder(u)
  BY DEF SameOrder, SameCall, Shape, TypeOK
<1>5. SplicesNested'
  BY <1>1, NestedKept DEF Shape, TypeOK
<1> QED BY <1>2, <1>3, <1>4, <1>5, OrderKept DEF ThreadOrder

LEMMA LinkStaleOrder ==
  ASSUME Shape, Shape', Order, NEW t \in Threads, LinkStale(t)
  PROVE  Order'
BY RefindOrder DEF LinkStale, Order, ThreadOrder, GivenUp

LEMMA CASFailedOrder ==
  ASSUME Shape, Shape', Order, NEW t \in Threads, CASFailed(t)
  PROVE  Order'
BY RefindOrder DEF CASFailed, Order, ThreadOrder, GivenUp

-----------------------------------------------------------------------------
(* Every step preserves Order: what a search finds                         *)

\* The node behind a search is the first of its level at or behind the key.
LEMMA NextOnLevel ==
  ASSUME Shape, Links, Order, NEW l \in Levels, NEW k \in Int,
         NEW b \in OnLevel(l), IsBehind(b, k), ~KeyIsAfterNode(k, link[b][l]),
         NEW m \in Linked(l) \cup {Null}, ~KeyIsAfterNode(k, m)
  PROVE  NotBefore(m, link[b][l])
<1> DEFINE n == link[b][l]
<1>1. /\ b \in Nodes \cup {Head} /\ m \in Nodes \cup {Null}
      /\ n \in Nodes \cup {Null} /\ n \in Linked(l) \cup {Null}
  BY DEF OnLevel, Linked, Shape, TypeOK
<1>2. CASE m = Null
  BY <1>1, <1>2, NodesAssumption DEF NotBefore, IsBeyond
<1>3. CASE m # Null
  <2>1. m \in Linked(l) /\ m \in Nodes /\ k <= Key[m] /\ Key[m] \in Int
    BY <1>1, <1>3, KeyIsInt DEF KeyIsAfterNode
  <2>2. IsBehind(b, Key[m])
    BY <1>1, <2>1, KeyIsInt DEF IsBehind
  <2>3. ~IsBeyond(n, Key[m])
    BY <2>1, <2>2 DEF Order, Ordered, NothingSkipped
  <2>4. n \in Nodes /\ n \in Linked(l) /\ n # Null /\ Key[n] <= Key[m] /\ Key[n] \in Int
    BY <1>1, <2>1, <2>3, KeyIsInt DEF IsBeyond
  <2>5. m \in Linked(0) /\ n \in Linked(0)
    BY <2>1, <2>4, HeightAssumption DEF Links, Nested, Levels
  <2>6. Key[n] = Key[m] => m = n
    BY <2>5 DEF Order, DistinctKeys
  <2> QED BY <2>1, <2>4, <2>6 DEF NotBefore, IsBeyond
<1> QED BY <1>2, <1>3

\* The node before a link that passes the key is the last of its level.
LEMMA PrevOnLevel ==
  ASSUME Shape, Links, Order, NEW l \in Levels, NEW k \in Int,
         NEW b \in OnLevel(l), ~KeyIsAfterNode(k, link[b][l]),
         NEW q \in OnLevel(l), IsBehind(q, k)
  PROVE  NotAfter(q, b)
<1> DEFINE n == link[b][l]
<1>1. /\ b \in Nodes \cup {Head} /\ q \in Nodes \cup {Head} /\ n \in Nodes \cup {Null}
  BY DEF OnLevel, Linked, Shape, TypeOK
<1>2. CASE q = Head
  BY <1>1, <1>2 DEF NotAfter, IsBehind
<1>3. CASE q # Head
  <2>1. q \in Linked(l) /\ q \in Nodes /\ Key[q] < k /\ Key[q] \in Int
    BY <1>1, <1>3, KeyIsInt DEF OnLevel, IsBehind
  <2>2. ~IsBehind(b, Key[q])
    <3>1. SUFFICES ASSUME IsBehind(b, Key[q]) PROVE FALSE
      OBVIOUS
    <3>2. ~IsBeyond(n, Key[q])
      BY <2>1, <3>1 DEF Order, Ordered, NothingSkipped
    <3> QED BY <1>1, <2>1, <3>2, KeyIsInt DEF IsBeyond, KeyIsAfterNode
  <2>3. b # Head /\ b \in Nodes /\ b \in Linked(l) /\ Key[q] <= Key[b] /\ Key[b] \in Int
    BY <1>1, <2>1, <2>2, KeyIsInt DEF IsBehind, OnLevel
  <2>4. q \in Linked(0) /\ b \in Linked(0)
    BY <2>1, <2>3, HeightAssumption DEF Links, Nested, Levels
  <2>5. Key[q] = Key[b] => q = b
    BY <2>4 DEF Order, DistinctKeys
  <2> QED BY <2>1, <2>3, <2>5 DEF NotAfter, IsBehind
<1> QED BY <1>2, <1>3

\* An insert that writes one level of its splice.
LEMMA NestedStored ==
  ASSUME Shape, Order, NEW t \in Threads, Inserting(t), NEW i \in SpliceLevels,
         \A q \in Splices : q # splice[t] =>
             prev_'[q] = prev_[q] /\ next_'[q] = next_[q] /\ height_'[q] = height_[q],
         \A l \in SpliceLevels : l # i => /\ prev_'[splice[t]][l] = prev_[splice[t]][l]
                                          /\ next_'[splice[t]][l] = next_[splice[t]][l],
         splice'[t] = splice[t],
         \A u \in Threads : u # t =>
             pc'[u] = pc[u] /\ splice'[u] = splice[u] /\ level'[u] = level[u]
             /\ valid'[u] = valid[u],
         \A l \in Levels : l < height_'[splice[t]] /\ Trusted(splice[t], l)' =>
             \/ l # i /\ l + 1 # i /\ l < height_[splice[t]] /\ Trusted(splice[t], l)
             \/ NestedAt(splice[t], l)'
  PROVE  SplicesNested'
<1> DEFINE s == splice[t]
<1>0. s \in Splices /\ \A l \in Levels : l \in SpliceLevels /\ l + 1 \in SpliceLevels
  BY HeightAssumption DEF Shape, TypeOK, Inserting, Levels, SpliceLevels
<1>1. SUFFICES ASSUME NEW q \in Splices, NEW l \in Levels, l < height_'[q], Trusted(q, l)'
      PROVE  NestedAt(q, l)'
  BY DEF SplicesNested
<1>2. CASE q = s
  <2>1. \/ l # i /\ l + 1 # i /\ l < height_[s] /\ Trusted(s, l)
        \/ NestedAt(s, l)'
    BY <1>0, <1>1, <1>2 DEF Trusted
  <2>2. CASE l # i /\ l + 1 # i /\ l < height_[s] /\ Trusted(s, l)
    <3>1. NestedAt(s, l)
      BY <1>0, <2>2 DEF Order, SplicesNested
    <3> QED BY <1>0, <1>2, <2>2, <3>1 DEF NestedAt
  <2>3. CASE NestedAt(s, l)'
    BY <1>2, <2>3 DEF NestedAt
  <2> QED BY <2>1, <2>2, <2>3
<1>3. CASE q # s
  <2>1. Trusted(q, l)
    BY <1>1, <1>3 DEF Trusted
  <2>2. NestedAt(q, l)
    BY <1>1, <1>3, <2>1 DEF Order, SplicesNested
  <2> QED BY <1>3, <2>2 DEF NestedAt
<1> QED BY <1>2, <1>3

LEMMA OpenSpliceOrder ==
  ASSUME Shape, Shape', Links, Order, NEW t \in Threads, OpenSplice(t)
  PROVE  Order'
<1> USE DEF OpenSplice, list, splices, call, search, Inserting
<1> DEFINE s == splice[t]
           m == max_height[t]
<1>a. Inserting(t) /\ s \in Splices /\ m \in 1 .. kMaxHeight
  BY Inside
<1>b. m \in SpliceLevels /\ m \in Nat /\ m - 1 \in Levels
  BY <1>a, HeightAssumption DEF SpliceLevels, Levels
<1>c. /\ prev_'[s][m] = Head /\ next_'[s][m] = Null
      /\ \A l \in SpliceLevels : l # m => /\ prev_'[s][l] = prev_[s][l]
                                          /\ next_'[s][l] = next_[s][l]
      /\ \A u \in Threads : u # t /\ Inserting(u) =>
             /\ prev_'[splice[u]] = prev_[splice[u]]
             /\ next_'[splice[u]] = next_[splice[u]]
  <2>1. /\ prev_' = [prev_ EXCEPT ![s][m] = Head] /\ next_' = [next_ EXCEPT ![s][m] = Null]
        /\ UNCHANGED link
    OBVIOUS
  <2>2. \A u \in Threads : u # t /\ Inserting(u) => splice[u] \in Splices /\ splice[u] # s
    BY <1>a DEF Shape, TypeOK, Exclusive
  <2> QED BY <1>a, <1>b, <2>1, <2>2 DEF Shape, TypeOK
<1>d. /\ height_'[s] = m
      /\ \A q \in Splices : q # s =>
             height_'[q] = height_[q] /\ prev_'[q] = prev_[q] /\ next_'[q] = next_[q]
  BY <1>a DEF Shape, TypeOK
<1>1. /\ pc'[t] = "find" /\ level'[t] = m - 1 /\ before'[t] = Head /\ after'[t] = Null
      /\ valid'[t] = valid[t] /\ splice'[t] = s /\ key'[t] = key[t] /\ pc[t] = "open"
  BY DEF Shape, TypeOK
<1>2. SearchBrackets(t)'
  BY <1>1, <1>b, <1>c DEF SearchBrackets, Cursors, IsBehind, NotAfter
<1>3. SpliceBrackets(t)'
  <2>1. SUFFICES ASSUME NEW l \in SpliceLevels, Found(t, l)', l <= m
        PROVE  BracketsAt(t, l)'
    BY <1>1, <1>d DEF SpliceBrackets
  <2>2. l = m
    BY <1>1, <1>b, <2>1 DEF Found, SpliceLevels
  <2> QED BY <1>1, <1>c, <2>2 DEF BracketsAt, IsBehind, KeyIsAfterNode
<1>4. NoDuplicate(t)' /\ Threaded(t)' /\ GivenUp(t)'
  BY <1>1 DEF Order, ThreadOrder, NoDuplicate, Threaded, GivenUp
<1>5. \A u \in Threads : u # t =>
         /\ pc'[u] = pc[u] /\ level'[u] = level[u] /\ recompute'[u] = recompute[u]
         /\ before'[u] = before[u] /\ after'[u] = after[u]
  BY DEF Shape, TypeOK
<1>6. \A u \in Threads : u # t => SameOrder(u)
  <2>1. \A u \in Threads : u # t /\ Inserting(u) => splice[u] \in Splices /\ splice[u] # s
    BY <1>a DEF Shape, TypeOK, Exclusive
  <2> QED BY <1>c, <1>d, <1>5, <2>1 DEF SameOrder, SameCall
<1>7. SplicesNested'
  <2>1. \A l \in Levels : l < height_'[s] => ~Trusted(s, l)'
    BY <1>1, <1>b, <1>d DEF Trusted, Levels
  <2> QED BY <1>a, <1>b, <1>c, <1>d, <1>1, <1>5, <2>1, NestedStored
<1> QED BY <1>2, <1>3, <1>4, <1>6, <1>7, OrderKept DEF ThreadOrder

LEMMA FindDescendOrder ==
  ASSUME Shape, Shape', Links, Order, NEW t \in Threads, FindDescend(t)
  PROVE  Order'
<1> USE DEF FindDescend, FoundSplice, list, splices, call, search, Inserting
<1> DEFINE s == splice[t]
           n == link[before[t]][level[t]]
<1>0. PICK lv \in Levels : lv = level[t]
  BY DEF Shape, TypeOK
<1>a. Inserting(t) /\ s \in Splices /\ key[t] \in Int
  BY Inside, KeyIsInt
<1>b. /\ lv \in SpliceLevels /\ lv \in Nat /\ lv + 1 \in SpliceLevels
      /\ lv + 1 <= height_[s] /\ height_[s] > 0
      /\ before[t] \in OnLevel(lv) /\ n \in Linked(lv) \cup {Null}
      /\ n \in Nodes \cup {Null} /\ before[t] \in Nodes \cup {Head}
  <2>1. /\ height_[s] \in 0 .. max_height[t] /\ max_height[t] \in 1 .. kMaxHeight
        /\ lv < max_height[t] /\ max_height[t] <= height_[s]
    BY <1>a, <1>0, Inside DEF Shape, CallShape, CallOK
  <2>2. /\ lv \in SpliceLevels /\ lv \in Nat /\ before[t] \in OnLevel(lv)
        /\ n \in Linked(lv) \cup {Null}
    BY <1>0, StandsOn DEF Cursors
  <2>3. n \in Nodes \cup {Null} /\ before[t] \in Nodes \cup {Head}
    BY <1>0 DEF Shape, TypeOK
  <2> QED BY <2>1, <2>2, <2>3, HeightAssumption DEF SpliceLevels
<1>c. /\ prev_'[s][lv] = before[t] /\ next_'[s][lv] = n
      /\ \A l \in SpliceLevels : l # lv => /\ prev_'[s][l] = prev_[s][l]
                                           /\ next_'[s][l] = next_[s][l]
      /\ \A u \in Threads : u # t /\ Inserting(u) =>
             /\ prev_'[splice[u]] = prev_[splice[u]]
             /\ next_'[splice[u]] = next_[splice[u]]
  <2>1. /\ prev_' = [prev_ EXCEPT ![s][lv] = before[t]]
        /\ next_' = [next_ EXCEPT ![s][lv] = n]
    BY <1>0
  <2>2. \A u \in Threads : u # t /\ Inserting(u) => splice[u] \in Splices /\ splice[u] # s
    BY <1>a DEF Shape, TypeOK, Exclusive
  <2> QED BY <1>a, <1>b, <2>1, <2>2 DEF Shape, TypeOK
<1>d. \A q \in Splices : q # s => prev_'[q] = prev_[q] /\ next_'[q] = next_[q]
  BY <1>a DEF Shape, TypeOK
\* The level above.
<1>e. /\ BracketsAt(t, lv + 1)
      /\ next_[s][lv + 1] \in Linked(lv) \cup {Null}
      /\ after[t] = next_[s][lv + 1] /\ NotAfter(prev_[s][lv + 1], before[t])
  <2>1. BracketsAt(t, lv + 1)
    BY <1>0, <1>b DEF Order, ThreadOrder, SpliceBrackets, Found
  <2>2. next_[s][lv + 1] \in Nodes \cup {Null}
    BY <1>0, <1>a, <1>b, OwnWritten
  <2>3. CASE lv + 1 \in Levels
    <3>1. next_[s][lv + 1] \in Linked(lv + 1) \cup {Null}
      BY <1>a, <2>2, <2>3, NodesAssumption DEF Links, SplicesOnLevel, UninitNext
    <3>2. lv \in 0 .. lv + 1
      BY <1>b
    <3>3. \A m \in Linked(lv + 1) : m \in Linked(lv)
      BY <2>3, <3>2 DEF Links, Nested
    <3> QED BY <1>0, <2>1, <3>1, <3>3 DEF Order, ThreadOrder, SearchBrackets
  <2>4. CASE lv + 1 \notin Levels
    <3>1. height_[s] \in 0 .. kMaxHeight
      BY <1>a DEF Shape, TypeOK
    <3>2. lv + 1 = height_[s]
      BY <1>b, <2>4, <3>1, HeightAssumption DEF Levels
    <3>3. next_[s][lv + 1] = Null
      BY <1>a, <1>b, <3>2 DEF Shape, SpliceShape
    <3> QED BY <1>0, <2>1, <3>3 DEF Order, ThreadOrder, SearchBrackets
  <2> QED BY <2>3, <2>4
<1>f. IsBehind(before[t], key[t]) /\ ~KeyIsAfterNode(key[t], n)
  BY <1>0, <1>e DEF Order, ThreadOrder, SearchBrackets, Cursors, BracketsAt
<1>g. valid[t]
  BY DEF Order, ThreadOrder, GivenUp
<1>1. /\ \/ lv > 0 /\ pc'[t] = "find" /\ level'[t] = lv - 1 /\ after'[t] = n
         \/ lv = 0 /\ pc'[t] = "link" /\ level'[t] = 0
      /\ valid'[t] /\ splice'[t] = s /\ key'[t] = key[t] /\ before'[t] = before[t]
      /\ height_' = height_
  BY <1>0, <1>g DEF Shape, TypeOK
<1>2. SearchBrackets(t)'
  BY <1>1, <1>b, <1>c, <1>f DEF SearchBrackets, Cursors, NotAfter
<1>3. SpliceBrackets(t)'
  <2>1. SUFFICES ASSUME NEW l \in SpliceLevels, Found(t, l)', l <= height_[s]
        PROVE  BracketsAt(t, l)'
    BY <1>1 DEF SpliceBrackets
  <2>2. lv <= l /\ l \in Nat
    BY <1>1, <1>b, <2>1 DEF Found, SpliceLevels
  <2>3. CASE l = lv
    BY <1>1, <1>c, <1>f, <2>3 DEF BracketsAt
  <2>4. CASE l # lv
    <3>1. Found(t, l)
      BY <1>0, <1>b, <2>2, <2>4 DEF Found
    <3>2. BracketsAt(t, l)
      BY <2>1, <3>1 DEF Order, ThreadOrder, SpliceBrackets
    <3> QED BY <1>1, <1>c, <2>4, <3>2 DEF BracketsAt
  <2> QED BY <2>3, <2>4
<1>4. NoDuplicate(t)' /\ Threaded(t)' /\ GivenUp(t)'
  BY <1>1 DEF NoDuplicate, Threaded, GivenUp, Levels
<1>5. \A u \in Threads : u # t =>
         /\ pc'[u] = pc[u] /\ level'[u] = level[u] /\ recompute'[u] = recompute[u]
         /\ before'[u] = before[u] /\ after'[u] = after[u]
  BY DEF Shape, TypeOK
<1>6. \A u \in Threads : u # t => SameOrder(u)
  BY <1>c, <1>5 DEF SameOrder, SameCall
<1>7. SplicesNested'
  <2>1. NestedAt(s, lv)'
    <3>1. NotBefore(next_[s][lv + 1], n)
      BY <1>0, <1>a, <1>b, <1>e, <1>f, NextOnLevel DEF BracketsAt
    <3>2. lv + 1 # lv
      BY <1>b
    <3> QED BY <1>1, <1>b, <1>c, <1>e, <3>1, <3>2 DEF NestedAt
  <2>2. ASSUME NEW l \in Levels, l < height_'[s], Trusted(s, l)', l # lv
        PROVE  l # lv /\ l + 1 # lv /\ l < height_[s] /\ Trusted(s, l)
    <3>1. lv < l
      BY <1>1, <1>b, <2>2 DEF Trusted, Levels
    <3>2. Trusted(s, l)
      BY <1>0, <1>5, <2>2, <3>1 DEF Trusted
    <3> QED BY <1>1, <1>b, <2>2, <3>1, <3>2 DEF Levels
  <2> QED BY <1>a, <1>b, <1>c, <1>d, <1>1, <1>5, <2>1, <2>2, NestedStored
<1> QED BY <1>2, <1>3, <1>4, <1>6, <1>7, OrderKept DEF ThreadOrder

LEMMA RefoundOrder ==
  ASSUME Shape, Shape', Links, Order, NEW t \in Threads, Refound(t)
  PROVE  Order'
<1> USE DEF Refound, FoundSplice, list, splices, call, search, Inserting
<1> DEFINE s == splice[t]
           n == link[before[t]][level[t]]
           k == key[t]
<1>0. PICK lv \in Levels : lv = level[t]
  BY DEF Shape, TypeOK
<1>a. /\ Inserting(t) /\ s \in Splices /\ k \in Int
      /\ x[t] \in Nodes /\ k = Key[x[t]]
  BY Inside, KeyIsInt DEF Shape, CallShape, CallOK
<1>b. /\ lv \in SpliceLevels /\ lv \in Nat /\ lv + 1 \in SpliceLevels
      /\ lv + 1 <= height_[s] /\ height_[s] > 0 /\ height_[s] \in 0 .. kMaxHeight
      /\ before[t] \in OnLevel(lv) /\ n \in Linked(lv) \cup {Null}
      /\ n \in Nodes \cup {Null} /\ before[t] \in Nodes \cup {Head}
  <2>1. lv < height_[s] /\ height_[s] \in 0 .. kMaxHeight
    BY <1>0, <1>a, Linking DEF Shape, TypeOK
  <2>2. /\ lv \in SpliceLevels /\ lv \in Nat /\ before[t] \in OnLevel(lv)
        /\ n \in Linked(lv) \cup {Null}
    BY <1>0, StandsOn DEF Cursors
  <2>3. n \in Nodes \cup {Null} /\ before[t] \in Nodes \cup {Head}
    BY <1>0 DEF Shape, TypeOK
  <2> QED BY <2>1, <2>2, <2>3, HeightAssumption DEF SpliceLevels
<1>c. /\ prev_'[s][lv] = before[t] /\ next_'[s][lv] = n
      /\ \A l \in SpliceLevels : l # lv => /\ prev_'[s][l] = prev_[s][l]
                                           /\ next_'[s][l] = next_[s][l]
      /\ \A u \in Threads : u # t /\ Inserting(u) =>
             /\ prev_'[splice[u]] = prev_[splice[u]]
             /\ next_'[splice[u]] = next_[splice[u]]
  <2>1. /\ prev_' = [prev_ EXCEPT ![s][lv] = before[t]]
        /\ next_' = [next_ EXCEPT ![s][lv] = n]
    BY <1>0
  <2>2. \A u \in Threads : u # t /\ Inserting(u) => splice[u] \in Splices /\ splice[u] # s
    BY <1>a DEF Shape, TypeOK, Exclusive
  <2> QED BY <1>a, <1>b, <2>1, <2>2 DEF Shape, TypeOK
<1>d. \A q \in Splices : q # s => prev_'[q] = prev_[q] /\ next_'[q] = next_[q]
  BY <1>a DEF Shape, TypeOK
<1>f. IsBehind(before[t], k) /\ ~KeyIsAfterNode(k, n)
  BY DEF Order, ThreadOrder, SearchBrackets, Cursors, KeyIsAfterNode
<1>1. /\ pc'[t] = "link" /\ level'[t] = lv /\ splice'[t] = s /\ key'[t] = k
      /\ cas'[t] = cas[t] /\ x'[t] = x[t] /\ height_' = height_ /\ link' = link
      /\ valid'[t] <=> valid[t] /\ (cas[t] => lv = 0)
  <2>1. /\ pc'[t] = "link" /\ level'[t] = lv /\ splice'[t] = s /\ key'[t] = k
        /\ cas'[t] = cas[t] /\ x'[t] = x[t] /\ height_' = height_ /\ link' = link
    BY <1>0 DEF Shape, TypeOK
  <2>2. valid'[t] = (valid[t] /\ StaysValid(t))
    BY DEF Shape, TypeOK
  <2>3. valid'[t] <=> valid[t] /\ StaysValid(t)
    BY <2>2
  <2> QED BY <1>0, <2>1, <2>3 DEF StaysValid
<1>2. SearchBrackets(t)' /\ NoDuplicate(t)'
  BY <1>1 DEF SearchBrackets, Cursors, NoDuplicate
<1>3. SpliceBrackets(t)'
  <2>1. SUFFICES ASSUME NEW l \in SpliceLevels, Found(t, l)', l <= height_[s]
        PROVE  BracketsAt(t, l)'
    BY <1>1 DEF SpliceBrackets
  <2>2. lv <= l /\ l \in Nat
    BY <1>1, <1>b, <2>1 DEF Found, SpliceLevels
  <2>3. CASE l = lv
    BY <1>1, <1>c, <1>f, <2>3 DEF BracketsAt
  <2>4. CASE l # lv
    <3>1. Found(t, l)
      BY <1>0, <2>2 DEF Found
    <3>2. BracketsAt(t, l)
      BY <2>1, <3>1 DEF Order, ThreadOrder, SpliceBrackets
    <3> QED BY <1>1, <1>c, <2>4, <3>2 DEF BracketsAt
  <2> QED BY <2>3, <2>4
<1>4. Threaded(t)'
  <2>1. SUFFICES ASSUME ~cas[t], NEW l \in Levels, l < lv
        PROVE  /\ link[prev_'[s][l]][l] = x[t]
               /\ link[x[t]][l] = next_'[s][l]
    BY <1>1 DEF Threaded
  <2>2. l \in SpliceLevels /\ l # lv
    BY <1>b, <2>1, HeightAssumption DEF Levels, SpliceLevels
  <2>3. link[prev_[s][l]][l] = x[t] /\ link[x[t]][l] = next_[s][l]
    BY <1>0, <2>1 DEF Order, ThreadOrder, Threaded
  <2> QED BY <1>c, <2>2, <2>3
<1>5. GivenUp(t)'
  <2>1. ~valid[t] => cas[t] /\ lv > 0
    BY <1>0 DEF Order, ThreadOrder, GivenUp
  <2> QED BY <1>1, <1>b, <2>1 DEF GivenUp
<1>6. \A u \in Threads : u # t =>
         /\ pc'[u] = pc[u] /\ level'[u] = level[u] /\ recompute'[u] = recompute[u]
         /\ before'[u] = before[u] /\ after'[u] = after[u] /\ valid'[u] = valid[u]
  BY DEF Shape, TypeOK
<1>7. \A u \in Threads : u # t => SameOrder(u)
  BY <1>c, <1>6 DEF SameOrder, SameCall
\* The new entry lies inside the level above, which still brackets the key.
<1>8. ASSUME valid[t] PROVE NestedAt(s, lv)'
  <2>1. NestedAt(s, lv)
    <3>1. Trusted(s, lv)
      BY <1>8, <1>a DEF Trusted, Shape, Exclusive
    <3> QED BY <1>a, <1>b, <3>1 DEF Order, SplicesNested
  <2>2. /\ prev_[s][lv] \in Nodes \cup {Head} /\ prev_[s][lv + 1] \in Nodes \cup {Head}
        /\ next_[s][lv + 1] \in Nodes \cup {Null} /\ lv <= height_[s]
    BY <1>0, <1>a, <1>b, OwnWritten
  <2>3. BracketsAt(t, lv + 1)
    BY <1>0, <1>b DEF Order, ThreadOrder, SpliceBrackets, Found
  <2>4. next_[s][lv + 1] \in Linked(lv) \cup {Null}
    <3>1. CASE lv + 1 \in Levels
      <4>1. next_[s][lv + 1] \in Linked(lv + 1) \cup {Null}
        BY <1>a, <2>2, <3>1, NodesAssumption DEF Links, SplicesOnLevel, UninitNext
      <4>2. lv \in 0 .. lv + 1
        BY <1>b
      <4> QED BY <3>1, <4>1, <4>2 DEF Links, Nested
    <3>2. CASE lv + 1 \notin Levels
      <4>1. lv + 1 = height_[s]
        BY <1>b, <3>2, HeightAssumption DEF Levels
      <4> QED BY <1>a, <1>b, <4>1 DEF Shape, SpliceShape
    <3> QED BY <3>1, <3>2
  <2>5. NotBefore(next_[s][lv + 1], n)
    BY <1>0, <1>a, <1>b, <1>f, <2>3, <2>4, NextOnLevel DEF BracketsAt
  <2>6. NotAfter(prev_[s][lv + 1], before[t])
    <3>1. NotAfter(prev_[s][lv], before[t])
      BY <1>0 DEF Order, ThreadOrder, SearchBrackets
    <3>2. NotAfter(prev_[s][lv + 1], prev_[s][lv])
      BY <2>1 DEF NestedAt
    <3> QED BY <1>b, <2>2, <3>1, <3>2, KeyIsInt DEF NotAfter, IsBehind
  <2>7. lv + 1 # lv
    BY <1>b
  <2> QED BY <1>1, <1>b, <1>c, <2>5, <2>6, <2>7 DEF NestedAt
\* So does it lie outside the level below, where a sequential insert has
\* already put its node between the neighbours it found.
<1>9. ASSUME ~cas[t], lv > 0 PROVE NestedAt(s, lv - 1)'
  <2> DEFINE d == lv - 1
             b == prev_[s][d]
             m == next_[s][d]
  <2>0. /\ d \in Levels /\ d \in SpliceLevels /\ d # lv /\ d < lv /\ d + 1 = lv
        /\ d \in 0 .. lv
    BY <1>9, <1>b, HeightAssumption DEF Levels, SpliceLevels
  <2>1. link[b][d] = x[t] /\ link[x[t]][d] = m
    BY <1>0, <1>9, <2>0 DEF Order, ThreadOrder, Threaded
  <2>2. x[t] \in Linked(d) /\ x[t] \in Linked(0) /\ x[t] \notin Linked(lv)
    BY <1>0, <1>a, <1>b, <1>9, <2>0, HeightAssumption DEF Links, ThreadLinks, Placed, Levels
  <2>3. d <= height_[s] /\ b \in Nodes \cup {Head, Null} /\ m \in Nodes \cup {Null, Head}
    BY <1>a, <1>b, <2>0 DEF Shape, TypeOK, UninitPrev, UninitNext
  <2>4. b \in Nodes \cup {Head} /\ m \in Nodes \cup {Null}
    BY <1>a, <1>b, <2>0, <2>3, OwnWritten
  <2>5. b \in OnLevel(d) /\ m \in Linked(d) \cup {Null}
    BY <1>a, <2>0, <2>4, NodesAssumption
       DEF Links, SplicesOnLevel, UninitPrev, UninitNext
  <2>6. before[t] \in OnLevel(d) /\ n \in Linked(d) \cup {Null}
    BY <1>b, <2>0 DEF Links, Nested, OnLevel
  <2>7. NotAfter(before[t], b)
    <3>1. ~KeyIsAfterNode(k, link[b][d])
      BY <1>a, <2>1 DEF KeyIsAfterNode
    <3> QED BY <1>a, <1>f, <2>0, <2>5, <2>6, <3>1, PrevOnLevel
  <2>8. NotBefore(n, m)
    <3>1. IsBehind(x[t], k + 1) /\ k + 1 \in Int
      BY <1>a DEF IsBehind
    <3>2. ~KeyIsAfterNode(k + 1, m)
      <4>1. CASE m = Null
        BY <4>1 DEF KeyIsAfterNode
      <4>2. CASE m # Null
        <5>1. IsBehind(x[t], Key[m])
          BY <2>0, <2>1, <2>2, <4>2 DEF Order, Ordered, NothingSkipped, OnLevel
        <5>2. x[t] # Head /\ m \in Nodes
          BY <1>a, <2>4, <4>2, NodesAssumption
        <5> QED BY <1>a, <5>1, <5>2, KeyIsInt DEF IsBehind, KeyIsAfterNode
      <4> QED BY <4>1, <4>2
    <3>3. ~KeyIsAfterNode(k + 1, n)
      <4>1. CASE n = Null
        BY <4>1 DEF KeyIsAfterNode
      <4>2. CASE n # Null
        <5>1. n \in Linked(lv) /\ n \in Nodes /\ n # x[t]
          BY <1>b, <2>2, <4>2
        <5>2. n \in Linked(0)
          BY <5>1, <1>b DEF Links, Nested
        <5>3. Key[n] # k
          BY <1>a, <2>2, <5>1, <5>2 DEF Order, DistinctKeys
        <5> QED BY <1>a, <1>f, <5>1, <5>3, KeyIsInt DEF KeyIsAfterNode
      <4> QED BY <4>1, <4>2
    <3>4. x[t] \in OnLevel(d)
      BY <2>2 DEF OnLevel
    <3> QED BY <2>0, <2>1, <2>6, <3>1, <3>2, <3>3, <3>4, NextOnLevel
  <2> QED BY <1>1, <1>b, <1>c, <2>0, <2>7, <2>8 DEF NestedAt
<1>10. SplicesNested'
  <2>1. ASSUME NEW l \in Levels, l < height_'[s], Trusted(s, l)'
        PROVE  \/ l # lv /\ l + 1 # lv /\ l < height_[s] /\ Trusted(s, l)
               \/ NestedAt(s, l)'
    <3>1. valid[t] /\ (cas[t] => lv = 0)
      BY <1>1, <2>1 DEF Trusted
    <3>2. Trusted(s, l)
      BY <1>a, <3>1 DEF Trusted, Shape, Exclusive
    <3>3. CASE l = lv
      BY <1>8, <3>1, <3>3
    <3>4. CASE l + 1 = lv
      <4>1. lv > 0 /\ l = lv - 1
        BY <1>b, <3>4 DEF Levels
      <4> QED BY <1>9, <1>b, <3>1, <4>1
    <3>5. CASE l # lv /\ l + 1 # lv
      BY <1>1, <2>1, <3>2, <3>5
    <3> QED BY <3>3, <3>4, <3>5
  <2> QED BY <1>a, <1>b, <1>c, <1>d, <1>1, <1>6, <2>1, NestedStored
<1> QED BY <1>2, <1>3, <1>4, <1>5, <1>7, <1>10, OrderKept DEF ThreadOrder

LEMMA FinishInsertOrder ==
  ASSUME Shape, Shape', Order, NEW t \in Threads, FinishInsert(t)
  PROVE  Order'
<1> USE DEF FinishInsert, list, splices, call, search, Inserting
<1> DEFINE s == splice[t]
           h == height[x[t]]
<1>a. /\ Inserting(t) /\ s \in Splices /\ x[t] \in Nodes /\ h \in 1 .. kMaxHeight
      /\ key[t] = Key[x[t]] /\ h <= height_[s]
      /\ \A u \in Threads : u # t /\ Inserting(u) => splice[u] \in Splices /\ splice[u] # s
  <2>1. /\ Inserting(t) /\ s \in Splices /\ x[t] \in Nodes /\ h \in 1 .. kMaxHeight
        /\ height_[s] \in 0 .. max_height[t] /\ max_height[t] \in 1 .. kMaxHeight
    BY Inside
  <2>2. h <= max_height[t] /\ max_height[t] <= height_[s] /\ key[t] = Key[x[t]]
    BY <2>1 DEF Shape, CallShape, CallOK
  <2>3. \A u \in Threads : u # t /\ Inserting(u) => splice[u] \in Splices /\ splice[u] # s
    BY <2>1 DEF Shape, TypeOK, Exclusive
  <2> QED BY <2>1, <2>2, <2>3
<1>b. \A q \in Splices : q # s => prev_'[q] = prev_[q] /\ height_'[q] = height_[q]
  BY DEF Shape, TypeOK
<1>1. /\ pc[t] = "finish" /\ pc'[t] = "ret" /\ splice'[t] = s /\ x'[t] = x[t]
      /\ next_' = next_
      /\ \A u \in Threads : u # t => pc'[u] = pc[u] /\ ret'[u] = ret[u]
  BY DEF Shape, TypeOK
<1>2. ThreadOrder(t)'
  BY <1>1 DEF ThreadOrder, SearchBrackets, SpliceBrackets, Found, NoDuplicate,
              Threaded, GivenUp, Cursors
<1>3. \A u \in Threads : u # t => SameOrder(u)
  BY <1>a, <1>b, <1>1 DEF SameOrder, SameCall
<1>4. SplicesNested'
  <2>1. SUFFICES ASSUME NEW q \in Splices, NEW l \in Levels, l < height_'[q], Trusted(q, l)'
        PROVE  NestedAt(q, l)'
    BY DEF SplicesNested
  <2>2. CASE q # s
    <3>1. Trusted(q, l)
      BY <1>1, <2>1, <2>2 DEF Trusted
    <3>2. NestedAt(q, l)
      BY <1>b, <2>1, <2>2, <3>1 DEF Order, SplicesNested
    <3> QED BY <1>b, <1>1, <2>2, <3>2 DEF NestedAt
  <2>3. CASE q = s /\ ~valid[t]
    BY <2>1, <2>3, <1>a DEF Shape, TypeOK, Levels
  <2>4. CASE q = s /\ valid[t]
    <3>1. /\ height_' = height_
          /\ \A i \in SpliceLevels : prev_'[s][i] = IF i < h THEN x[t] ELSE prev_[s][i]
      BY <1>a, <2>4 DEF Shape, TypeOK
    <3>2. l \in SpliceLevels /\ l + 1 \in SpliceLevels /\ l \in Nat /\ l + 1 <= height_[s]
      BY <1>a, <2>1, <2>4, <3>1, HeightAssumption DEF Levels, SpliceLevels, Shape, TypeOK
    <3>3. NestedAt(s, l)
      <4>1. Trusted(s, l)
        BY <1>a, <1>1, <2>4 DEF Trusted
      <4> QED BY <1>a, <2>1, <2>4, <3>1, <4>1 DEF Order, SplicesNested
    <3>4. NotAfter(prev_'[s][l + 1], prev_'[s][l])
      <4>1. CASE l + 1 < h
        BY <1>a, <3>1, <3>2, <4>1 DEF NotAfter
      <4>2. CASE l + 1 = h
        <5>1. BracketsAt(t, l + 1)
          BY <1>a, <1>1, <3>2, <4>2 DEF Order, ThreadOrder, SpliceBrackets, Found
        <5>2. prev_'[s][l] = x[t] /\ prev_'[s][l + 1] = prev_[s][l + 1] /\ x[t] # Head
          BY <1>a, <3>1, <3>2, <4>2, NodesAssumption
        <5> QED BY <1>a, <5>1, <5>2 DEF NotAfter, BracketsAt
      <4>3. CASE h <= l
        BY <1>a, <3>1, <3>2, <3>3, <4>3 DEF NestedAt
      <4> QED BY <1>a, <3>2, <4>1, <4>2, <4>3
    <3> QED BY <1>1, <2>4, <3>3, <3>4 DEF NestedAt
  <2> QED BY <2>2, <2>3, <2>4
<1> QED BY <1>2, <1>3, <1>4, OrderKept

LEMMA ReturnOrder ==
  ASSUME Shape, Shape', Order, NEW t \in Threads, Return(t)
  PROVE  Order'
<1> USE DEF Return, list, splices, call, search, Inserting
<1>a. /\ t \in Splices /\ height_'[t] = 0
      /\ \A q \in Splices : q # t =>
             prev_'[q] = prev_[q] /\ next_'[q] = next_[q] /\ height_'[q] = height_[q]
  BY HeightAssumption DEF Shape, TypeOK, Splices
<1>1. pc[t] = "ret" /\ pc'[t] = "idle" /\ valid'[t]
  BY DEF Shape, TypeOK
<1>2. ThreadOrder(t)'
  BY <1>1 DEF ThreadOrder, SearchBrackets, SpliceBrackets, Found, NoDuplicate,
              Threaded, GivenUp, Cursors
<1>3. \A u \in Threads : u # t => SameOrder(u)
  <2>1. \A u \in Threads : u # t /\ Inserting(u) => splice[u] \in Splices /\ splice[u] # t
    BY DEF Shape, TypeOK, CallShape, CallOK
  <2> QED BY <1>a, <2>1 DEF SameOrder, SameCall, Shape, TypeOK
<1>4. SplicesNested'
  <2>1. SUFFICES ASSUME NEW q \in Splices, NEW l \in Levels, l < height_'[q], Trusted(q, l)'
        PROVE  NestedAt(q, l)'
    BY DEF SplicesNested
  <2>2. q # t
    BY <1>a, <2>1 DEF Levels
  <2>3. Trusted(q, l)
    <3>1. \A u \in Threads : u # t =>
              pc'[u] = pc[u] /\ splice'[u] = splice[u] /\ level'[u] = level[u]
              /\ valid'[u] = valid[u]
      BY <1>3 DEF SameOrder, SameCall
    <3> QED BY <1>1, <2>1, <3>1 DEF Trusted
  <2>4. NestedAt(q, l)
    BY <1>a, <2>1, <2>2, <2>3 DEF Order, SplicesNested
  <2> QED BY <1>a, <2>2, <2>4 DEF NestedAt
<1> QED BY <1>2, <1>3, <1>4, OrderKept

-----------------------------------------------------------------------------
(* Every step preserves Order: the links                                   *)

\* An insert that is about to link level l brackets its key there.
LEMMA LinksInside ==
  ASSUME Shape, Links, Order, NEW t \in Threads, pc[t] \in {"link", "publish"}
  PROVE  /\ IsBehind(Prev(t), key[t]) /\ ~KeyIsAfterNode(key[t], Succ(t))
         /\ key[t] = Key[x[t]] /\ key[t] \in Int
         /\ \A m \in Linked(level[t]) \cup {Null} :
                level[t] > 0 /\ ~KeyIsAfterNode(key[t], m) => IsBeyond(m, key[t])
<1>1. /\ x[t] \in Nodes /\ level[t] \in Levels /\ x[t] # Null
      /\ Inserting(t)
      /\ \A l \in Levels : x[t] \in Linked(l) <=> l < level[t]
  BY AboutToLink
<1>2. key[t] = Key[x[t]] /\ key[t] \in Int
  BY <1>1, KeyIsInt DEF Shape, CallShape, CallOK
<1>3. BracketsAt(t, level[t])
  <2>1. level[t] \in SpliceLevels /\ level[t] < height_[splice[t]] /\ level[t] \in Nat
    BY <1>1, Linking, HeightAssumption DEF Levels, SpliceLevels
  <2>2. height_[splice[t]] \in 0 .. kMaxHeight
    BY Inside DEF Shape, TypeOK
  <2> QED BY <2>1, <2>2 DEF Order, ThreadOrder, SpliceBrackets, Found
<1>4. ASSUME NEW m \in Linked(level[t]), level[t] > 0, ~KeyIsAfterNode(key[t], m)
      PROVE  IsBeyond(m, key[t])
  <2>1. m \in Nodes /\ m # Null /\ m \in Linked(0) /\ x[t] \in Linked(0) /\ m # x[t]
    <3>1. m \in Linked(0) /\ x[t] \in Linked(0) /\ m # x[t]
      BY <1>1, <1>4, HeightAssumption DEF Links, Nested, Levels
    <3>2. m \in Nodes /\ m # Null
      BY <1>1 DEF Linked, Shape, TypeOK
    <3> QED BY <3>1, <3>2
  <2>2. Key[m] # Key[x[t]]
    BY <2>1 DEF Order, DistinctKeys
  <2> QED BY <1>2, <1>4, <2>1, <2>2, KeyIsInt DEF KeyIsAfterNode, IsBeyond
<1>5. IsBeyond(Null, key[t])
  BY DEF IsBeyond
<1> QED BY <1>2, <1>3, <1>4, <1>5 DEF BracketsAt, Prev, Succ

LEMMA PrepareLinkOrder ==
  ASSUME Shape, Shape', Links, Order, NEW t \in Threads, PrepareLink(t)
  PROVE  Order'
<1>a. /\ Inserting(t) /\ x[t] \in Nodes /\ level[t] \in Levels /\ level[t] \in Nat
      /\ Succ(t) \in Linked(level[t]) \cup {Null}
      /\ \A l \in Levels : x[t] \in Linked(l) <=> l < level[t]
      /\ x[t] # Head
  BY AboutToLink DEF PrepareLink, Levels
<1>b. /\ \A n \in Nodes \cup {Head}, l \in Levels :
             n # x[t] \/ l # level[t] => link'[n][l] = link[n][l]
      /\ \A l \in Levels : Linked(l)' = Linked(l)
  BY PrepareLinkStep
<1>c. /\ IsBehind(Prev(t), key[t]) /\ ~KeyIsAfterNode(key[t], Succ(t)) /\ key[t] \in Int
      /\ level[t] > 0 => IsBeyond(Succ(t), key[t])
  BY <1>a, LinksInside DEF PrepareLink
<1> USE DEF PrepareLink, splices, call, search, Inserting
<1>1. Ordered'
  <2>1. SUFFICES ASSUME NEW l \in Levels PROVE NothingSkipped(l)'
    BY DEF Ordered
  <2>2. OnLevel(l)' = OnLevel(l) /\ Linked(l)' = Linked(l)
    BY <1>b DEF OnLevel
  <2>3. ASSUME NEW n \in OnLevel(l) PROVE link'[n][l] = link[n][l]
    <3>1. n \in Nodes \cup {Head}
      BY DEF OnLevel, Linked, Shape, TypeOK
    <3>2. n # x[t] \/ l # level[t]
      BY <1>a DEF OnLevel
    <3> QED BY <1>b, <3>1, <3>2
  <2> QED BY <2>2, <2>3 DEF Order, Ordered, NothingSkipped
<1>2. DistinctKeys'
  BY <1>b, HeightAssumption DEF Order, DistinctKeys, Levels
<1>3. /\ pc[t] = "link" /\ pc'[t] = "publish"
      /\ UNCHANGED <<key, x, splice, cas, level, valid, prev_, next_, height_>>
  BY DEF Shape, TypeOK
<1>4. ThreadOrder(t)'
  <2>1. NoDuplicate(t)'
    <3>1. CASE level[t] = 0
      <4>1. Succ(t) \in Nodes \cup {Null}
        BY <1>a DEF Linked, Shape, TypeOK
      <4>2. Succ(t) = Null \/ ~(key[t] >= Key[Succ(t)])
        BY <3>1 DEF IsDuplicate
      <4>3. IsBeyond(Succ(t), key[t])
        BY <1>c, <4>1, <4>2, KeyIsInt DEF IsBeyond
      <4> QED BY <1>3, <4>3 DEF NoDuplicate, Succ
    <3>2. CASE level[t] > 0
      BY <1>c, <1>3, <3>2 DEF NoDuplicate, Succ
    <3> QED BY <1>a, <3>1, <3>2
  <2>2. Threaded(t)'
    <3>1. SUFFICES ASSUME ~cas[t], NEW l \in Levels, l < level[t]
          PROVE  link'[prev_[splice[t]][l]][l] = x[t] /\ link'[x[t]][l] = next_[splice[t]][l]
      BY <1>3 DEF Threaded
    <3>2. link[prev_[splice[t]][l]][l] = x[t] /\ link[x[t]][l] = next_[splice[t]][l]
      BY <1>3, <3>1 DEF Order, ThreadOrder, Threaded
    <3>3. l # level[t] /\ l \in SpliceLevels /\ l <= height_[splice[t]] /\ height_[splice[t]] > 0
      <4>1. level[t] < height_[splice[t]] /\ splice[t] \in Splices
        BY Linking, Inside
      <4> QED BY <1>a, <3>1, <4>1, HeightAssumption DEF Levels, SpliceLevels, Shape, TypeOK
    <3>4. prev_[splice[t]][l] \in Nodes \cup {Head}
      BY <1>a, <1>3, <3>3, OwnWritten
    <3> QED BY <1>a, <1>b, <3>2, <3>3, <3>4
  <2>3. SearchBrackets(t)' /\ SpliceBrackets(t)' /\ GivenUp(t)'
    BY <1>3 DEF Order, ThreadOrder, SearchBrackets, Cursors, SpliceBrackets, Found,
                BracketsAt, GivenUp
  <2> QED BY <2>1, <2>2, <2>3 DEF ThreadOrder
<1>5. ASSUME NEW u \in Threads, u # t PROVE ThreadOrder(u)'
  <2>1. SameOrder(u)
    BY <1>5 DEF SameOrder, SameCall, Shape, TypeOK
  <2> QED BY <1>a, <1>5, <2>1, OthersInOrder DEF Order
<1>6. SplicesNested'
  BY <1>3, NestedKept DEF Shape, TypeOK
<1> QED BY <1>1, <1>2, <1>4, <1>5, <1>6 DEF Order

\* No node of the level has the key of a node that is published there.
LEMMA NotThere ==
  ASSUME Shape, Links, Order, NEW t \in Threads, PublishLink(t)
  PROVE  \A m \in Linked(level[t]) : Key[m] # key[t]
<1>1. /\ level[t] \in Levels /\ Prev(t) \in OnLevel(level[t])
      /\ link[Prev(t)][level[t]] = Succ(t)
  <2>1. level[t] \in Levels
    BY DEF Shape, TypeOK
  <2>2. Prev(t) \in OnLevel(level[t])
    BY AboutToLink DEF PublishLink
  <2> QED BY <2>1, <2>2, PublishLinkStep
<1>2. IsBehind(Prev(t), key[t]) /\ IsBeyond(Succ(t), key[t])
  BY LinksInside DEF PublishLink, Order, ThreadOrder, NoDuplicate
<1>3. ASSUME NEW m \in Linked(level[t]), Key[m] = key[t] PROVE FALSE
  <2>1. NothingSkipped(level[t])
    BY <1>1 DEF Order, Ordered
  <2>2. ~IsBeyond(link[Prev(t)][level[t]], Key[m])
    BY <1>1, <1>2, <1>3, <2>1 DEF NothingSkipped
  <2> QED BY <1>1, <1>2, <1>3, <2>2
<1> QED BY <1>3

\* A node that goes in between a node before its key and one behind it.
LEMMA StaysOrdered ==
  ASSUME Shape, Links, Order, NEW t \in Threads, PublishLink(t)
  PROVE  Ordered' /\ DistinctKeys'
<1> DEFINE p == Prev(t)
           n == Succ(t)
           k == key[t]
           y == x[t]
<1>0. PICK lv \in Levels : lv = level[t]
  BY DEF Shape, TypeOK
<1>1. /\ Inserting(t) /\ y \in Nodes /\ y # Head /\ y # Null
      /\ p \in Nodes \cup {Head} /\ p \in OnLevel(lv) /\ p # y
      /\ n \in Linked(lv) \cup {Null}
      /\ \A l \in Levels : y \in Linked(l) <=> l < lv
  BY <1>0, AboutToLink DEF PublishLink
<1>2. /\ k = Key[y] /\ k \in Int /\ IsBehind(p, k) /\ IsBeyond(n, k)
  BY LinksInside DEF PublishLink, Order, ThreadOrder, NoDuplicate
<1>3. /\ link'[p][lv] = y
      /\ \A q \in Nodes \cup {Head}, l \in Levels :
             q # p \/ l # lv => link'[q][l] = link[q][l]
      /\ link[p][lv] = n /\ link[y][lv] = n
      /\ \A l \in Levels : l # lv => Linked(l)' = Linked(l)
      /\ Linked(lv)' = Linked(lv) \cup {y}
  BY <1>0, PublishLinkStep
<1>4. /\ n \in Nodes \cup {Null} /\ \A q \in Nodes : Key[q] \in Int
      /\ \A l \in Levels : Linked(l) \subseteq Nodes /\ OnLevel(l) \subseteq Nodes \cup {Head}
      /\ \A l \in Levels : Null \notin Linked(l)
      /\ \A q \in Nodes \cup {Head}, l \in Levels : link[q][l] \in Nodes \cup {Null}
  BY <1>1, KeyIsInt DEF Linked, OnLevel, Shape, TypeOK
<1>5. NothingSkipped(lv)
  BY DEF Order, Ordered
\* No node of the level has the key.
<1>6. \A m \in Linked(lv) : Key[m] # k
  BY <1>0, NotThere
<1>7. ASSUME NEW l \in Levels, l # lv PROVE NothingSkipped(l)'
  <2>1. \A q \in OnLevel(l) : link'[q][l] = link[q][l]
    BY <1>3, <1>4, <1>7
  <2>2. OnLevel(l)' = OnLevel(l) /\ Linked(l)' = Linked(l)
    BY <1>3, <1>7 DEF OnLevel
  <2> QED BY <2>1, <2>2 DEF Order, Ordered, NothingSkipped
\* The new node.
<1>8. /\ link'[y][lv] # Null => IsBehind(y, Key[link'[y][lv]])
      /\ \A m \in Linked(lv)' : IsBehind(y, Key[m]) => ~IsBeyond(link'[y][lv], Key[m])
  <2>1. link'[y][lv] = n
    BY <1>1, <1>3
  <2>2. n # Null => IsBehind(y, Key[n])
    BY <1>1, <1>2 DEF IsBehind, IsBeyond
  <2>3. ASSUME NEW m \in Linked(lv), IsBehind(y, Key[m]) PROVE ~IsBeyond(n, Key[m])
    <3>1. k < Key[m] /\ Key[m] \in Int
      BY <1>1, <1>2, <1>4, <2>3 DEF IsBehind
    <3>2. IsBehind(p, Key[m])
      BY <1>1, <1>2, <1>4, <3>1 DEF IsBehind
    <3> QED BY <1>1, <1>3, <1>5, <3>2 DEF NothingSkipped
  <2>4. ~IsBehind(y, Key[y])
    BY <1>1, <1>2 DEF IsBehind
  <2> QED BY <1>3, <2>1, <2>2, <2>3, <2>4
\* The node before it.
<1>9. /\ link'[p][lv] # Null => IsBehind(p, Key[link'[p][lv]])
      /\ \A m \in Linked(lv)' : IsBehind(p, Key[m]) => ~IsBeyond(link'[p][lv], Key[m])
  <2>1. ASSUME NEW m \in Linked(lv), IsBehind(p, Key[m]) PROVE ~IsBeyond(y, Key[m])
    <3>1. ~IsBeyond(n, Key[m])
      BY <1>1, <1>3, <1>5, <2>1 DEF NothingSkipped
    <3>2. n # Null /\ n \in Nodes /\ Key[n] <= Key[m] /\ Key[m] \in Int
      BY <1>4, <3>1 DEF IsBeyond
    <3> QED BY <1>1, <1>2, <1>4, <3>2 DEF IsBeyond
  <2>2. ~IsBeyond(y, Key[y])
    BY <1>1, <1>2 DEF IsBeyond
  <2> QED BY <1>2, <1>3, <2>1, <2>2
\* Every other node: its link does not jump over the key.
<1>10. ASSUME NEW q \in OnLevel(lv), q # p
       PROVE  /\ link'[q][lv] # Null => IsBehind(q, Key[link'[q][lv]])
              /\ \A m \in Linked(lv)' : IsBehind(q, Key[m]) => ~IsBeyond(link'[q][lv], Key[m])
  <2>1. link'[q][lv] = link[q][lv] /\ q \in Nodes \cup {Head}
    BY <1>3, <1>4, <1>10
  <2>2. ASSUME IsBehind(q, k), IsBeyond(link[q][lv], k) PROVE FALSE
    <3>1. CASE p # Head /\ IsBehind(q, Key[p])
      <4>1. p \in Linked(lv) /\ p \in Nodes /\ Key[p] < k /\ Key[p] \in Int
        BY <1>1, <1>2, <1>4, <3>1 DEF OnLevel, IsBehind
      <4>2. ~IsBeyond(link[q][lv], Key[p])
        BY <1>5, <3>1, <4>1 DEF NothingSkipped
      <4> QED BY <1>2, <1>4, <2>1, <2>2, <4>1, <4>2 DEF IsBeyond
    <3>2. CASE q # Head /\ IsBehind(p, Key[q])
      <4>1. q \in Linked(lv) /\ q \in Nodes /\ Key[q] < k /\ Key[q] \in Int
        BY <1>4, <2>1, <2>2, <3>2 DEF OnLevel, IsBehind
      <4>2. ~IsBeyond(n, Key[q])
        BY <1>1, <1>3, <1>5, <3>2, <4>1 DEF NothingSkipped
      <4> QED BY <1>2, <1>4, <4>1, <4>2 DEF IsBeyond
    <3>3. CASE p # Head /\ q # Head /\ Key[p] = Key[q]
      <4>1. p \in Linked(lv) /\ q \in Linked(lv)
        BY <1>1, <3>3 DEF OnLevel
      <4>2. p \in Linked(0) /\ q \in Linked(0)
        BY <4>1, HeightAssumption DEF Links, Nested, Levels
      <4> QED BY <1>10, <3>3, <4>2 DEF Order, DistinctKeys
    <3> QED BY <1>1, <1>4, <1>10, <2>1, <3>1, <3>2, <3>3 DEF IsBehind
  <2>3. \A m \in Linked(lv) : IsBehind(q, Key[m]) => ~IsBeyond(link[q][lv], Key[m])
    BY <1>5 DEF NothingSkipped
  <2>4. link[q][lv] # Null => IsBehind(q, Key[link[q][lv]])
    BY <1>5 DEF NothingSkipped
  <2> QED BY <1>2, <1>3, <2>1, <2>2, <2>3, <2>4
<1>11. NothingSkipped(lv)'
  <2>1. OnLevel(lv)' = OnLevel(lv) \cup {y}
    BY <1>3 DEF OnLevel
  <2> QED BY <1>8, <1>9, <1>10, <2>1 DEF NothingSkipped
<1>12. DistinctKeys'
  <2>1. CASE lv = 0
    BY <1>2, <1>3, <1>6, <2>1 DEF Order, DistinctKeys
  <2>2. CASE lv # 0
    BY <1>3, <2>2, HeightAssumption DEF Order, DistinctKeys, Levels
  <2> QED BY <2>1, <2>2
<1> QED BY <1>7, <1>11, <1>12 DEF Ordered

LEMMA PublishLinkOrder ==
  ASSUME Shape, Shape', Links, Order, NEW t \in Threads, PublishLink(t)
  PROVE  Order'
<1> DEFINE s == splice[t]
<1>0. PICK lv \in Levels : lv = level[t]
  BY DEF Shape, TypeOK
<1>1. /\ Inserting(t) /\ s \in Splices /\ x[t] \in Nodes /\ lv < height[x[t]] /\ x[t] # Head
      /\ height[x[t]] \in 1 .. kMaxHeight
      /\ Prev(t) \in Nodes \cup {Head} /\ Prev(t) # x[t] /\ lv \in Nat
      /\ \A l \in Levels : x[t] \in Linked(l) <=> l < lv
  BY <1>0, AboutToLink DEF PublishLink, Levels
<1>2. /\ link'[Prev(t)][lv] = x[t]
      /\ \A q \in Nodes \cup {Head}, l \in Levels :
             q # Prev(t) \/ l # lv => link'[q][l] = link[q][l]
      /\ link[x[t]][lv] = Succ(t)
  BY <1>0, PublishLinkStep
<1>3. Ordered' /\ DistinctKeys'
  BY StaysOrdered
<1> USE DEF PublishLink, splices, call, search, Inserting
<1>4. /\ \/ pc'[t] = "link" /\ level'[t] = lv + 1
         \/ pc'[t] = "finish" /\ level'[t] = lv /\ height[x[t]] = lv + 1
      /\ UNCHANGED <<key, x, splice, cas, valid, prev_, next_, height_, height>>
  <2>1. CASE MoreLevels(t)
    BY <1>0, <1>1, <2>1 DEF MoreLevels, Shape, TypeOK
  <2>2. CASE ~MoreLevels(t)
    <3>1. height[x[t]] = lv + 1
      BY <1>0, <1>1, <2>2 DEF MoreLevels
    <3>2. pc'[t] = "finish" /\ level'[t] = lv
      BY <1>0, <2>2 DEF Shape, TypeOK
    <3> QED BY <3>1, <3>2
  <2> QED BY <2>1, <2>2
<1>5. Threaded(t)'
  <2>1. SUFFICES ASSUME ~cas[t], NEW l \in Levels, l < lv + 1
        PROVE  link'[prev_[s][l]][l] = x[t] /\ link'[x[t]][l] = next_[s][l]
    BY <1>4 DEF Threaded
  <2>2. CASE l = lv
    <3>1. Prev(t) = prev_[s][lv] /\ Succ(t) = next_[s][lv]
      BY <1>0 DEF Prev, Succ
    <3>2. link'[prev_[s][lv]][lv] = x[t]
      BY <1>2, <3>1
    <3>3. link'[x[t]][lv] = link[x[t]][lv]
      BY <1>1, <1>2
    <3> QED BY <1>2, <2>2, <3>1, <3>2, <3>3
  <2>3. CASE l # lv
    <3>1. l < lv /\ l \in Nat
      BY <1>1, <2>1, <2>3 DEF Levels
    <3>2. link[prev_[s][l]][l] = x[t] /\ link[x[t]][l] = next_[s][l]
      BY <1>0, <2>1, <3>1 DEF Order, ThreadOrder, Threaded
    <3>3. l \in SpliceLevels /\ l <= height_[s] /\ height_[s] > 0
      <4>1. lv < height_[s] /\ height_[s] \in 0 .. kMaxHeight
        BY <1>0, <1>1, Linking DEF Shape, TypeOK
      <4> QED BY <1>1, <3>1, <4>1, HeightAssumption DEF Levels, SpliceLevels
    <3>4. prev_[s][l] \in Nodes \cup {Head}
      BY <1>1, <3>3, OwnWritten
    <3> QED BY <1>1, <1>2, <2>3, <3>2, <3>4
  <2> QED BY <2>2, <2>3
<1>6. ThreadOrder(t)'
  <2>1. SearchBrackets(t)' /\ NoDuplicate(t)'
    BY <1>4 DEF SearchBrackets, Cursors, NoDuplicate
  <2>2. GivenUp(t)'
    BY <1>0, <1>1, <1>4 DEF Order, ThreadOrder, GivenUp
  <2>3. SpliceBrackets(t)'
    <3>1. \A l \in SpliceLevels : Found(t, l)' => Found(t, l)
      BY <1>0, <1>1, <1>4 DEF Found, SpliceLevels
    <3> QED BY <1>4, <3>1 DEF Order, ThreadOrder, SpliceBrackets, BracketsAt
  <2> QED BY <1>5, <2>1, <2>2, <2>3 DEF ThreadOrder
<1>7. ASSUME NEW u \in Threads, u # t PROVE ThreadOrder(u)'
  <2>1. SameOrder(u)
    BY <1>7 DEF SameOrder, SameCall, Shape, TypeOK
  <2> QED BY <1>1, <1>7, <2>1, OthersInOrder DEF Order
<1>8. SplicesNested'
  BY <1>4, NestedKept DEF Shape, TypeOK
<1> QED BY <1>3, <1>6, <1>7, <1>8 DEF Order

LEMMA InitOrder == Init => Order
<1> SUFFICES ASSUME Init PROVE Order
  OBVIOUS
<1>1. \A l \in Levels : Linked(l) = {}
  BY DEF Init, Linked
<1>2. \A l \in Levels : link[Head][l] = Null
  BY DEF Init
<1>3. Ordered /\ DistinctKeys
  BY <1>1, <1>2, HeightAssumption DEF Ordered, NothingSkipped, OnLevel, DistinctKeys, Levels
<1>4. SplicesNested
  BY HeightAssumption DEF Init, SplicesNested, Levels
<1>5. \A t \in Threads : ThreadOrder(t)
  BY DEF Init, ThreadOrder, SearchBrackets, Cursors, SpliceBrackets, Found, NoDuplicate,
         Threaded, GivenUp
<1> QED BY <1>3, <1>4, <1>5 DEF Order

LEMMA NextOrder ==
  ASSUME Shape, Shape', Links, Order, [Next]_vars
  PROVE  Order'
<1>1. CASE UNCHANGED vars
  BY <1>1, SameLinks
     DEF vars, list, splices, call, search, Order, Ordered, NothingSkipped, Linked, OnLevel,
         DistinctKeys, SplicesNested, Trusted, NestedAt, ThreadOrder, SearchBrackets,
         SpliceBrackets, Found, BracketsAt, NoDuplicate, Succ, Threaded, GivenUp
<1>2. ASSUME NEW t \in Threads, Call(t) PROVE Order'
  <2>1. ASSUME NEW k \in Keys, ContainsCall(t, k) PROVE Order'
    BY <2>1, ContainsCallOrder
  <2>2. ASSUME NEW n \in Nodes, NEW h \in 1 .. kMaxHeight,
               Insert(t, n, h) \/ InsertConcurrently(t, n, h) \/ InsertWithHint(t, n, h)
        PROVE  Order'
    <3>1. PICK s \in Splices, c \in BOOLEAN, f \in BOOLEAN : InsertCall(t, n, h, s, c, f)
      BY <2>2 DEF Insert, InsertConcurrently, InsertWithHint, Splices
    <3> QED BY <3>1, InsertCallOrder
  <2> QED BY <1>2, <2>1, <2>2 DEF Call
<1>3. ASSUME NEW t \in Threads, Step(t) PROVE Order'
  BY <1>3, SeekAdvanceOrder, SeekDescendOrder, SeekReturnOrder, CASMaxHeightOrder,
     ReloadMaxHeightOrder, OpenSpliceOrder, ReuseSpliceOrder, CheckSpliceOrder,
     FindAdvanceOrder, FindDescendOrder, RefoundOrder, LinkStaleOrder, LinkDuplicateOrder,
     PrepareLinkOrder, PublishLinkOrder, CASFailedOrder, FinishInsertOrder, ReturnOrder
     DEF Step
<1> QED BY <1>1, <1>2, <1>3 DEF Next

-----------------------------------------------------------------------------
(* What the invariant implies                                              *)

LEMMA OrderSearches == Shape /\ Links /\ Order => SearchOnLevel
<1> SUFFICES ASSUME Shape, Links, Order, NEW t \in Threads, pc[t] \in Cursors
             PROVE  before[t] \in OnLevel(level[t]) /\ IsBehind(before[t], key[t])
  BY DEF SearchOnLevel
<1> QED BY StandsOn DEF Order, ThreadOrder, SearchBrackets

LEMMA OrderLinks == Shape /\ Links /\ Order => LinkBrackets
<1> SUFFICES ASSUME Shape, Links, Order, NEW t \in Threads, pc[t] = "publish"
             PROVE  /\ Prev(t) \in OnLevel(level[t]) /\ IsBehind(Prev(t), key[t])
                    /\ Succ(t) \in Linked(level[t]) \cup {Null} /\ IsBeyond(Succ(t), key[t])
                    /\ ~cas[t] => link[Prev(t)][level[t]] = Succ(t)
  BY DEF LinkBrackets
<1>1. /\ Prev(t) \in OnLevel(level[t]) /\ Succ(t) \in Linked(level[t]) \cup {Null}
      /\ Inserting(t) /\ level[t] \in Levels /\ Prev(t) \in Nodes \cup {Head}
  BY AboutToLink
<1>2. IsBehind(Prev(t), key[t]) /\ IsBeyond(Succ(t), key[t])
  BY LinksInside DEF Order, ThreadOrder, NoDuplicate
<1>3. ~cas[t] => link[Prev(t)][level[t]] = Succ(t)
  BY <1>1, NodesAssumption
     DEF Links, ThreadLinks, Tight, Settled, Prev, Succ, UninitPrev
<1> QED BY <1>1, <1>2, <1>3

LEMMA OrderSplices == Shape /\ Links /\ Order => SpliceNested
<1> SUFFICES ASSUME Shape, Links, Order, NEW s \in Splices,
                    \A t \in Threads : splice[t] # s
             PROVE  /\ height_[s] > 0 => /\ prev_[s][height_[s]] = Head
                                         /\ next_[s][height_[s]] = Null
                    /\ \A l \in 0 .. height_[s] - 1 :
                           /\ prev_[s][l] \in OnLevel(l)
                           /\ next_[s][l] \in Linked(l) \cup {Null}
                           /\ NotAfter(prev_[s][l + 1], prev_[s][l])
                           /\ NotBefore(next_[s][l + 1], next_[s][l])
  BY DEF SpliceNested, NotAfter, NotBefore
<1>1. height_[s] > 0 => /\ prev_[s][height_[s]] = Head
                        /\ next_[s][height_[s]] = Null
  BY DEF Shape, SpliceShape
<1>2. ASSUME NEW l \in 0 .. height_[s] - 1
      PROVE  /\ prev_[s][l] \in OnLevel(l)
             /\ next_[s][l] \in Linked(l) \cup {Null}
             /\ NotAfter(prev_[s][l + 1], prev_[s][l])
             /\ NotBefore(next_[s][l + 1], next_[s][l])
  <2>1. height_[s] \in 0 .. kMaxHeight
    BY DEF Shape, TypeOK
  <2>2. l \in Levels /\ l \in 0 .. height_[s] /\ height_[s] > 0 /\ l < height_[s]
    BY <2>1, HeightAssumption DEF Levels
  <2>3. Written(s, l)
    BY <2>2 DEF Shape, SpliceShape, Searched
  <2>4. NestedAt(s, l)
    BY <2>2 DEF Order, SplicesNested, Trusted
  <2> QED BY <2>2, <2>3, <2>4 DEF Links, SplicesOnLevel, Written, NestedAt
<1> QED BY <1>1, <1>2

-----------------------------------------------------------------------------
(* Every node ends up at all of its levels                                 *)

LEMMA CompleteKept ==
  ASSUME Shape, Links, Complete, \A l \in Levels : Linked(l) \subseteq Linked(l)',
         \A n \in Linked(0)' : n \in Linked(0) \/ \E t \in Threads : x'[t] = n,
         \A n \in Linked(0) : height'[n] = height[n],
         \A t \in Threads : x[t] \in Linked(0) =>
             x'[t] = x[t] \/ \A l \in 0 .. height[x[t]] - 1 : x[t] \in Linked(l)
  PROVE  Complete'
<1> SUFFICES ASSUME NEW n \in Linked(0), ~(\E t \in Threads : x'[t] = n)
             PROVE  \A l \in 0 .. height[n] - 1 : n \in Linked(l)'
  BY DEF Complete
<1>1. \A l \in 0 .. height[n] - 1 : n \in Linked(l)
  <2>1. CASE \E t \in Threads : x[t] = n
    <3>1. PICK t \in Threads : x[t] = n
      BY <2>1
    <3>2. x'[t] # x[t]
      BY <3>1
    <3> QED BY <3>1, <3>2
  <2>2. CASE ~(\E t \in Threads : x[t] = n)
    BY <2>2 DEF Complete
  <2> QED BY <2>1, <2>2
<1>2. height[n] \in 0 .. kMaxHeight
  <2>1. 0 \in Levels
    BY HeightAssumption DEF Levels
  <2>2. n \in Nodes
    BY <2>1 DEF Linked, Shape, TypeOK
  <2> QED BY <2>2 DEF Shape, TypeOK
<1>3. \A l \in 0 .. height[n] - 1 : l \in Levels
  BY <1>2, HeightAssumption DEF Levels
<1> QED BY <1>1, <1>3

LEMMA NextComplete ==
  ASSUME Shape, Shape', Links, Complete, [Next]_vars
  PROVE  Complete'
<1>1. /\ \A l \in Levels : Linked(l) \subseteq Linked(l)'
      /\ 0 \in Levels /\ Linked(0) \subseteq Nodes
  <2>1. \A l \in Levels : Linked(l) \subseteq Linked(l)'
    BY NextLinks
  <2>2. 0 \in Levels
    BY HeightAssumption DEF Levels
  <2>3. Linked(0) \subseteq Nodes
    BY <2>2 DEF Linked, Shape, TypeOK
  <2> QED BY <2>1, <2>2, <2>3
<1>2. CASE UNCHANGED <<link, height, x>>
  BY <1>1, <1>2, SameLinks, CompleteKept
<1>3. ASSUME NEW t \in Threads, NEW n \in Nodes, NEW h \in 1 .. kMaxHeight,
             NEW s \in Splices, NEW c, NEW f, InsertCall(t, n, h, s, c, f)
      PROVE  Complete'
  <2>1. Linked(0)' = Linked(0)
    BY <1>1, <1>3, SameLinks DEF InsertCall
  <2>2. x[t] \notin Linked(0)
    BY <1>1, <1>3, Reading, NodesAssumption DEF InsertCall, Shape, CallShape, CallOK
  <2>3. \A m \in Linked(0) : height'[m] = height[m]
    <3>1. \A m \in Linked(0) : height[m] > 0
      BY <1>1 DEF Links, Nested
    <3> QED BY <1>1, <1>3, <3>1 DEF InsertCall, Shape, TypeOK
  <2>4. \A u \in Threads : u # t => x'[u] = x[u]
    BY <1>3 DEF InsertCall, Shape, TypeOK
  <2> QED BY <1>1, <2>1, <2>2, <2>3, <2>4, CompleteKept
<1>4. ASSUME NEW t \in Threads, PrepareLink(t) PROVE Complete'
  <2>1. Linked(0)' = Linked(0)
    BY <1>1, <1>4, PrepareLinkStep
  <2> QED BY <1>1, <1>4, <2>1, CompleteKept DEF PrepareLink, call
<1>5. ASSUME NEW t \in Threads, PublishLink(t) PROVE Complete'
  <2>1. PICK lv \in Levels : lv = level[t]
    BY DEF Shape, TypeOK
  <2>2. Linked(0)' \subseteq Linked(0) \cup {x[t]}
    BY <1>1, <1>5, <2>1, PublishLinkStep
  <2>3. UNCHANGED <<x, height>>
    BY <1>5 DEF PublishLink, call
  <2> QED BY <1>1, <2>2, <2>3, CompleteKept
<1>6. ASSUME NEW t \in Threads, Return(t) PROVE Complete'
  <2>1. UNCHANGED <<link, height>> /\ pc[t] = "ret" /\ \A u \in Threads : u # t => x'[u] = x[u]
    BY <1>6 DEF Return, list, Shape, TypeOK
  <2>2. x[t] \in Linked(0) => \A l \in 0 .. height[x[t]] - 1 : x[t] \in Linked(l)
    <3>1. SUFFICES ASSUME x[t] \in Linked(0), NEW l \in 0 .. height[x[t]] - 1
                   PROVE  x[t] \in Linked(l)
      OBVIOUS
    <3>2. Inserting(t) /\ height[x[t]] \in 0 .. kMaxHeight
      BY <1>1, <3>1, NodesAssumption DEF Shape, CallShape, CallOK, TypeOK
    <3>3. l \in Levels
      BY <3>2, HeightAssumption DEF Levels
    <3> QED BY <1>1, <2>1, <3>1, <3>2, <3>3 DEF Links, ThreadLinks, Placed
  <2>3. Linked(0)' = Linked(0)
    BY <1>1, <2>1, SameLinks
  <2> QED BY <1>1, <2>1, <2>2, <2>3, CompleteKept
<1>7. ASSUME NEW t \in Threads, Call(t) PROVE Complete'
  <2>1. ASSUME NEW k \in Keys, ContainsCall(t, k) PROVE Complete'
    BY <1>2, <2>1 DEF ContainsCall, list
  <2>2. ASSUME NEW n \in Nodes, NEW h \in 1 .. kMaxHeight,
               Insert(t, n, h) \/ InsertConcurrently(t, n, h) \/ InsertWithHint(t, n, h)
        PROVE  Complete'
    <3>1. PICK s \in Splices, c \in BOOLEAN, f \in BOOLEAN : InsertCall(t, n, h, s, c, f)
      BY <2>2 DEF Insert, InsertConcurrently, InsertWithHint, Splices
    <3> QED BY <1>3, <3>1
  <2> QED BY <1>7, <2>1, <2>2 DEF Call
<1>8. ASSUME NEW t \in Threads, Step(t), ~PrepareLink(t), ~PublishLink(t), ~Return(t)
      PROVE  UNCHANGED <<link, height, x>>
  BY <1>8 DEF Step, list, call, SeekAdvance, SeekDescend, SeekReturn, CASMaxHeight,
     ReloadMaxHeight, OpenSplice, ReuseSplice, CheckSplice, FindAdvance, FindDescend, Refound,
     LinkStale, LinkDuplicate, CASFailed, FinishInsert
<1>9. UNCHANGED vars => UNCHANGED <<link, height, x>>
  BY DEF vars, list, call
<1> QED BY <1>2, <1>4, <1>5, <1>6, <1>7, <1>8, <1>9 DEF Next

-----------------------------------------------------------------------------
(* The theorems                                                            *)

\* Shape, Links and Order together are inductive.
LEMMA OrderInvariant == Spec => [](Shape /\ Links /\ Order)
<1>1. Init => Shape /\ Links /\ Order
  BY InitShape, InitLinks, InitOrder
<1>2. Shape /\ Links /\ Order /\ [Next]_vars => Shape' /\ Links' /\ Order'
  BY NextShape, NextLinks, NextOrder
<1> QED BY <1>1, <1>2, PTL DEF Spec

\* Every level is a chain in key order in which no link jumps over a node of
\* the level, whatever inserts race to link it (asserts 259, 453).
THEOREM LevelsOrdered == Spec => []Ordered
<1>1. Order => Ordered
  BY DEF Order
<1> QED BY <1>1, OrderInvariant, PTL

\* Every search stands on a linked node of its level before the key it looks
\* for, also when other threads linked nodes since it got there.
THEOREM SearchesOnLevel == Spec => []SearchOnLevel
BY OrderSearches, OrderInvariant, PTL

\* A node is published between neighbours that bracket its key, and no
\* sequential insert overwrites a link it did not read (asserts 559-562).
THEOREM LinksBracket == Spec => []LinkBrackets
BY OrderLinks, OrderInvariant, PTL

\* A remembered splice brackets more and more from level to level, whatever
\* ran since it was used: trusting the levels above the first good one is
\* sound.
THEOREM SplicesStayNested == Spec => []SpliceNested
BY OrderSplices, OrderInvariant, PTL

\* A node whose insert is over is linked at all of its levels.
THEOREM NodesComplete == Spec => []Complete
<1>1. Init => Complete
  BY HeightAssumption DEF Init, Complete, Linked, Levels
<1>2. Shape /\ Links /\ Complete /\ [Next]_vars => Shape' /\ Links' /\ Complete'
  BY NextShape, NextLinks, NextComplete
<1>3. Init => Shape /\ Links
  BY InitShape, InitLinks
<1> QED BY <1>1, <1>2, <1>3, PTL DEF Spec
=============================================================================
