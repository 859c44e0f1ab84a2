------------------------ MODULE InlineSkipListProofs ------------------------
(***************************************************************************)
(* Theorems about InlineSkipList, for any number of threads, nodes, levels *)
(* and hint splices.                                                       *)
(***************************************************************************)
EXTENDS InlineSkipList, WellFoundedInduction, TLAPS

-----------------------------------------------------------------------------
(* The shape of the calls and of the splices                               *)

\* Where a call that is searching or linking may stand.
CallOK(t) ==
    /\ ~Inserting(t) => pc[t] \in {"idle", "seek", "ret"} /\ x[t] = Null
    /\ Inserting(t) =>
        /\ pc[t] \notin {"idle", "seek"}
        /\ x[t] \in Nodes /\ height[x[t]] > 0 /\ key[t] = Key[x[t]]
        /\ splice[t] \in Threads => splice[t] = t /\ cas[t]
        /\ max_height[t] \in 1 .. max_height_
        /\ height_[splice[t]] <= max_height[t]
        /\ pc[t] = "raise" => height[x[t]] > max_height[t]
        /\ pc[t] \notin {"raise", "ret"} => height[x[t]] <= max_height[t]
        /\ pc[t] \in {"check", "find", "refind", "link", "publish", "finish"} =>
               max_height[t] <= height_[splice[t]]
        /\ pc[t] = "check" => recompute[t] < max_height[t]
        /\ pc[t] = "find" => level[t] < max_height[t]
        /\ pc[t] \in {"refind", "link", "publish"} => level[t] < height[x[t]]
    /\ pc[t] = "idle" => before[t] = Head /\ after[t] = Null

CallShape == \A t \in Threads : CallOK(t)

\* Inserts that overlap use CAS, different splices and different nodes.
Exclusive ==
    \A t, u \in Threads : t # u /\ Inserting(t) /\ Inserting(u) =>
        cas[t] /\ splice[t] # splice[u] /\ x[t] # x[u]

\* An entry that was written.
Written(s, l) == prev_[s][l] # UninitPrev /\ next_[s][l] # UninitNext

\* No recomputation of s has yet to come to level l.
Searched(s, l) ==
    \A t \in Threads : splice[t] = s /\ pc[t] = "find" => level[t] < l

\* A splice is written up to height_, except below a recomputation.
SpliceShape ==
    \A s \in Splices :
        /\ height_[s] <= max_height_
        /\ height_[s] > 0 =>
            /\ prev_[s][height_[s]] = Head
            /\ next_[s][height_[s]] = Null
            /\ \A l \in 0 .. height_[s] : Searched(s, l) => Written(s, l)

Shape == TypeOK /\ CallShape /\ Exclusive /\ SpliceShape

-----------------------------------------------------------------------------
(* Lemmas                                                                  *)

LEMMA LeastNatural ==
  ASSUME NEW T, T \subseteq Nat, T # {}
  PROVE  \E m \in T : \A n \in T : m <= n
<1> DEFINE R == OpToRel(<, Nat)
<1>1. IsWellFoundedOn(R, Nat)
  BY NatLessThanWellFounded
<1>2. ASSUME NEW m \in Nat, NEW n \in Nat, n < m
      PROVE  <<n, m>> \in R
  BY <1>2 DEF OpToRel
<1> HIDE DEF R
<1>3. PICK m \in T : \A n \in T : ~(<<n, m>> \in R)
  BY <1>1, WFMin
<1>4. ASSUME NEW n \in T
      PROVE  m <= n
  <2>1. m \in Nat /\ n \in Nat
    OBVIOUS
  <2>2. ~(n < m)
    BY <1>2, <1>3, <2>1
  <2> QED BY <2>1, <2>2
<1> QED BY <1>4

\* The loops that skip a bad node stop at the splice's top at the latest.
LEMMA AboveBadBounds ==
  ASSUME NEW e, NEW r \in SpliceLevels, NEW h \in SpliceLevels,
         r < h, e[r] # e[h]
  PROVE  AboveBad(e, r) \in r + 1 .. h
<1> USE HeightAssumption DEF SpliceLevels
<1> DEFINE T == {j \in r + 1 .. h : e[j] # e[r]}
<1>1. PICK j \in T : \A n \in T : j <= n
  <2>1. T \subseteq Nat /\ h \in T
    OBVIOUS
  <2> QED BY <2>1, LeastNatural
<1>2. /\ j \in SpliceLevels /\ j > r /\ e[j] # e[r]
      /\ \A i \in r .. j - 1 : e[i] = e[r]
  <2>1. ASSUME NEW i \in r .. j - 1 PROVE e[i] = e[r]
    <3>1. CASE i = r BY <3>1
    <3>2. CASE i # r
      <4>1. i \in r + 1 .. h /\ i < j
        BY <3>2
      <4> QED BY <4>1, <1>1
    <3> QED BY <3>1, <3>2
  <2> QED BY <2>1
<1> DEFINE P(k) == /\ k > r /\ e[k] # e[r]
                   /\ \A i \in r .. k - 1 : e[i] = e[r]
<1>3. P(AboveBad(e, r)) /\ AboveBad(e, r) \in SpliceLevels
  <2>1. \E k \in SpliceLevels : P(k)
    BY <1>2
  <2>2. AboveBad(e, r) = CHOOSE k \in SpliceLevels : P(k)
    BY DEF AboveBad
  <2> HIDE DEF P
  <2> QED BY <2>1, <2>2
<1>4. AboveBad(e, r) <= h
  <2>1. ~(h \in r .. AboveBad(e, r) - 1)
    BY <1>3
  <2> QED BY <2>1, <1>3
<1> QED BY <1>3, <1>4

-----------------------------------------------------------------------------
(* Every step preserves Shape                                              *)

\* What Shape says of a thread inside an insert.
LEMMA Inside ==
  ASSUME Shape, NEW t \in Threads,
         pc[t] \in {"raise", "open", "check", "find", "refind", "link", "publish", "finish"}
  PROVE  /\ Inserting(t) /\ splice[t] \in Splices /\ x[t] \in Nodes
         /\ height[x[t]] \in 1 .. kMaxHeight
         /\ max_height[t] \in 1 .. kMaxHeight
         /\ height_[splice[t]] \in 0 .. max_height[t]
<1>1. /\ Inserting(t) /\ x[t] \in Nodes /\ height[x[t]] > 0
      /\ max_height[t] \in 1 .. max_height_ /\ height_[splice[t]] <= max_height[t]
  BY DEF Shape, CallShape, CallOK
<1>2. /\ splice[t] \in Splices
      /\ height[x[t]] \in 0 .. kMaxHeight /\ max_height_ \in 1 .. kMaxHeight
  BY <1>1 DEF Shape, TypeOK, Inserting
<1>3. height_[splice[t]] \in 0 .. kMaxHeight
  BY <1>2 DEF Shape, TypeOK
<1> QED BY <1>1, <1>2, <1>3, HeightAssumption

\* No other insert uses t's splice, so t's search has written what it covers.
LEMMA OwnSearched ==
  ASSUME Shape, NEW t \in Threads, Inserting(t), NEW l \in SpliceLevels,
         pc[t] = "find" => level[t] < l
  PROVE  Searched(splice[t], l)
BY DEF Shape, Exclusive, Searched, Inserting

LEMMA OwnWritten ==
  ASSUME Shape, NEW t \in Threads, Inserting(t), NEW l \in SpliceLevels,
         pc[t] = "find" => level[t] < l, height_[splice[t]] > 0, l <= height_[splice[t]]
  PROVE  /\ prev_[splice[t]][l] \in Nodes \cup {Head}
         /\ next_[splice[t]][l] \in Nodes \cup {Null}
<1>1. splice[t] \in Splices
  BY DEF Shape, TypeOK, Inserting
<1>2. Written(splice[t], l)
  BY <1>1, OwnSearched, HeightAssumption DEF Shape, SpliceShape, SpliceLevels
<1> QED
  BY <1>1, <1>2, NodesAssumption
     DEF Shape, TypeOK, Written, UninitPrev, UninitNext

\* The two neighbours an insert links between.
LEMMA Linking ==
  ASSUME Shape, NEW t \in Threads, pc[t] \in {"refind", "link", "publish"}
  PROVE  /\ level[t] \in Levels /\ level[t] < height_[splice[t]]
         /\ Prev(t) \in Nodes \cup {Head} /\ Succ(t) \in Nodes \cup {Null}
<1>1. /\ Inserting(t) /\ splice[t] \in Splices
      /\ height[x[t]] \in 1 .. kMaxHeight /\ max_height[t] \in 1 .. kMaxHeight
      /\ height_[splice[t]] \in 0 .. max_height[t]
  BY Inside
<1>2. level[t] \in Levels /\ level[t] \in 0 .. kMaxHeight - 1
  BY DEF Shape, TypeOK, Levels
<1>3. /\ height[x[t]] <= max_height[t] /\ level[t] < height[x[t]]
      /\ max_height[t] <= height_[splice[t]]
  BY <1>1 DEF Shape, CallShape, CallOK
<1>4. level[t] < height_[splice[t]] /\ level[t] \in SpliceLevels
  BY <1>1, <1>2, <1>3, HeightAssumption DEF SpliceLevels
<1>5. /\ prev_[splice[t]][level[t]] \in Nodes \cup {Head}
      /\ next_[splice[t]][level[t]] \in Nodes \cup {Null}
  BY <1>1, <1>2, <1>4, OwnWritten, HeightAssumption
<1> QED
  BY <1>2, <1>4, <1>5 DEF Prev, Succ

\* A step that writes no splice and starts or moves no recomputation.
LEMMA SpliceShapeKept ==
  ASSUME TypeOK, TypeOK', SpliceShape, UNCHANGED splices, max_height_ <= max_height_',
         \A u \in Threads : \A s \in Splices :
             splice[u] = s /\ pc[u] = "find" =>
                 splice'[u] = s /\ pc'[u] = "find" /\ level'[u] = level[u]
  PROVE  SpliceShape'
<1> SUFFICES ASSUME NEW s \in Splices
             PROVE  /\ height_[s] <= max_height_'
                    /\ height_[s] > 0 =>
                         /\ prev_[s][height_[s]] = Head
                         /\ next_[s][height_[s]] = Null
                         /\ \A l \in 0 .. height_[s] : Searched(s, l)' => Written(s, l)
  BY DEF SpliceShape, splices, Written
<1>1. \A l \in 0 .. height_[s] : Searched(s, l)' => Searched(s, l)
  BY DEF Searched
<1>2. height_[s] \in 0 .. kMaxHeight /\ max_height_ \in 1 .. kMaxHeight
      /\ max_height_' \in 1 .. kMaxHeight
  BY DEF TypeOK
<1> QED BY <1>1, <1>2, HeightAssumption DEF SpliceShape
LEMMA ContainsCallShape ==
  ASSUME Shape, NEW t \in Threads, NEW k \in Keys, ContainsCall(t, k)
  PROVE  Shape'
<1> USE DEF Shape, ContainsCall, list, splices, call, search, Inserting
<1>1. TypeOK'
  <2>1. max_height_ - 1 \in Levels
    BY HeightAssumption DEF TypeOK, Levels
  <2> QED BY <2>1 DEF TypeOK, Cursors
<1>2. CallShape'
  <2>1. CallOK(t)'
    BY DEF TypeOK, CallShape, CallOK
  <2>2. ASSUME NEW u \in Threads, u # t PROVE CallOK(u)'
    BY <2>2 DEF TypeOK, CallShape, CallOK
  <2> QED BY <2>1, <2>2 DEF CallShape
<1>3. Exclusive'
  BY SplicesAssumption DEF TypeOK, CallShape, CallOK, Exclusive
<1>4. SpliceShape'
  <2>1. max_height_ <= max_height_'
    BY <1>1 DEF TypeOK
  <2> QED BY <1>1, <2>1, SpliceShapeKept DEF TypeOK, CallShape, CallOK
<1> QED BY <1>1, <1>2, <1>3, <1>4

LEMMA SeekAdvanceShape ==
  ASSUME Shape, NEW t \in Threads, SeekAdvance(t)
  PROVE  Shape'
<1> USE DEF Shape, SeekAdvance, SeekIsBigger, list, splices, call, search, Inserting
<1>1. TypeOK'
  <2>1. link[before[t]][level[t]] \in Nodes
    BY DEF TypeOK
  <2> QED BY <2>1 DEF TypeOK, Cursors
<1>2. CallShape'
  <2>1. CallOK(t)'
    BY DEF TypeOK, CallShape, CallOK
  <2>2. ASSUME NEW u \in Threads, u # t PROVE CallOK(u)'
    BY <2>2 DEF TypeOK, CallShape, CallOK
  <2> QED BY <2>1, <2>2 DEF CallShape
<1>3. Exclusive'
  BY SplicesAssumption DEF TypeOK, CallShape, CallOK, Exclusive
<1>4. SpliceShape'
  <2>1. max_height_ <= max_height_'
    BY <1>1 DEF TypeOK
  <2> QED BY <1>1, <2>1, SpliceShapeKept DEF TypeOK, CallShape, CallOK
<1> QED BY <1>1, <1>2, <1>3, <1>4

LEMMA SeekDescendShape ==
  ASSUME Shape, NEW t \in Threads, SeekDescend(t)
  PROVE  Shape'
<1> USE DEF Shape, SeekDescend, SeekIsBigger, list, splices, call, search, Inserting
<1>1. TypeOK'
  <2>1. link[before[t]][level[t]] \in Nodes \cup {Null}
    BY DEF TypeOK
  <2>2. level'[t] \in Levels
    BY HeightAssumption DEF TypeOK, Levels
  <2> QED BY <2>1, <2>2 DEF TypeOK, Cursors
<1>2. CallShape'
  BY DEF TypeOK, CallShape, CallOK
<1>3. Exclusive'
  BY SplicesAssumption DEF TypeOK, CallShape, CallOK, Exclusive
<1>4. SpliceShape'
  <2>1. max_height_ <= max_height_'
    BY <1>1 DEF TypeOK
  <2> QED BY <1>1, <2>1, SpliceShapeKept DEF TypeOK, CallShape, CallOK
<1> QED BY <1>1, <1>2, <1>3, <1>4

LEMMA SeekReturnShape ==
  ASSUME Shape, NEW t \in Threads, SeekReturn(t)
  PROVE  Shape'
<1> USE DEF Shape, SeekReturn, list, splices, call, search, Inserting
<1>1. TypeOK'
  BY DEF TypeOK, Cursors
<1>2. CallShape'
  <2>1. CallOK(t)'
    BY DEF TypeOK, CallShape, CallOK
  <2>2. ASSUME NEW u \in Threads, u # t PROVE CallOK(u)'
    BY <2>2 DEF TypeOK, CallShape, CallOK
  <2> QED BY <2>1, <2>2 DEF CallShape
<1>3. Exclusive'
  BY SplicesAssumption DEF TypeOK, CallShape, CallOK, Exclusive
<1>4. SpliceShape'
  <2>1. max_height_ <= max_height_'
    BY <1>1 DEF TypeOK
  <2> QED BY <1>1, <2>1, SpliceShapeKept DEF TypeOK, CallShape, CallOK
<1> QED BY <1>1, <1>2, <1>3, <1>4

LEMMA InsertCallShape ==
  ASSUME Shape, NEW t \in Threads, NEW n \in Nodes, NEW h \in 1 .. kMaxHeight,
         NEW s \in Splices, NEW c \in BOOLEAN, NEW f \in BOOLEAN,
         s \in Threads => s = t /\ c, InsertCall(t, n, h, s, c, f)
  PROVE  Shape'
<1> USE DEF Shape, InsertCall, TooTall, list, splices, call, search, Inserting
<1>1. TypeOK'
  <2>1. key' \in [Threads -> Keys]
    BY KeysAssumption DEF TypeOK
  <2>5. height' \in [Nodes -> 0 .. kMaxHeight]
    <3>1. h \in 0 .. kMaxHeight
      BY HeightAssumption
    <3> QED BY <3>1 DEF TypeOK
  <2>2. max_height' \in [Threads -> 0 .. kMaxHeight]
    BY HeightAssumption DEF TypeOK
  <2>3. /\ x' \in [Threads -> Nodes \cup {Null}]
        /\ splice' \in [Threads -> Splices \cup {NoSplice}]
        /\ cas' \in [Threads -> BOOLEAN] /\ fix' \in [Threads -> BOOLEAN]
    BY DEF TypeOK
  <2>4. pc'[t] \in {"raise", "open"} /\ pc' = [pc EXCEPT ![t] = pc'[t]]
    BY DEF TypeOK
  <2> QED BY <2>1, <2>2, <2>3, <2>4, <2>5 DEF TypeOK, Cursors
<1>2. CallShape'
  <2>1. height_[s] <= max_height_ /\ max_height_ \in 1 .. kMaxHeight
    BY DEF SpliceShape, TypeOK
  <2>4. /\ x'[t] = n /\ splice'[t] = s /\ cas'[t] = c /\ key'[t] = Key[n]
        /\ height'[n] = h /\ max_height'[t] = max_height_ /\ height_' = height_
        /\ pc'[t] = IF h > max_height_ THEN "raise" ELSE "open"
        /\ s # NoSplice
    BY SplicesAssumption DEF TypeOK, Splices
  <2>2. CallOK(t)'
    BY <2>1, <2>4 DEF CallOK
  <2>3. ASSUME NEW u \in Threads, u # t PROVE CallOK(u)'
    BY <2>3 DEF TypeOK, CallShape, CallOK
  <2> QED BY <2>2, <2>3 DEF CallShape
<1>3. Exclusive'
  BY SplicesAssumption DEF TypeOK, CallShape, CallOK, Exclusive
<1>4. SpliceShape'
  <2>1. max_height_ <= max_height_'
    BY <1>1 DEF TypeOK
  <2> QED BY <1>1, <2>1, SpliceShapeKept DEF TypeOK, CallShape, CallOK
<1> QED BY <1>1, <1>2, <1>3, <1>4

LEMMA CASMaxHeightShape ==
  ASSUME Shape, NEW t \in Threads, CASMaxHeight(t)
  PROVE  Shape'
<1> USE DEF Shape, CASMaxHeight, list, splices, call, search, Inserting
<1>5. x[t] \in Nodes /\ Inserting(t) /\ height[x[t]] \in 1 .. kMaxHeight
  BY Inside
<1>1. TypeOK'
  BY <1>5, HeightAssumption DEF TypeOK, Cursors
<1>2. CallShape'
  <2>1. max_height_ < height[x[t]] /\ max_height_ \in 1 .. kMaxHeight
    BY <1>5 DEF TypeOK, CallShape, CallOK
  <2>2. CallOK(t)'
    BY <1>5, <2>1, HeightAssumption DEF TypeOK, CallShape, CallOK
  <2>3. ASSUME NEW u \in Threads, u # t PROVE CallOK(u)'
    BY <1>5, <2>1, <2>3, HeightAssumption DEF TypeOK, CallShape, CallOK
  <2> QED BY <2>2, <2>3 DEF CallShape
<1>3. Exclusive'
  BY SplicesAssumption DEF TypeOK, CallShape, CallOK, Exclusive
<1>4. SpliceShape'
  <2>1. max_height_ < height[x[t]] /\ max_height_ \in 1 .. kMaxHeight
    BY <1>5 DEF TypeOK, CallShape, CallOK
  <2>2. max_height_ <= max_height_'
    BY <1>5, <2>1, HeightAssumption
  <2> QED BY <1>1, <2>2, SpliceShapeKept DEF TypeOK
<1> QED BY <1>1, <1>2, <1>3, <1>4

LEMMA ReloadMaxHeightShape ==
  ASSUME Shape, NEW t \in Threads, ReloadMaxHeight(t)
  PROVE  Shape'
<1> USE DEF Shape, ReloadMaxHeight, TooTall, list, splices, call, search, Inserting
<1>5. x[t] \in Nodes /\ Inserting(t) /\ height[x[t]] \in 1 .. kMaxHeight
  BY Inside
<1>1. TypeOK'
  <2>1. max_height_ \in 0 .. kMaxHeight
    BY HeightAssumption DEF TypeOK
  <2> QED BY <2>1 DEF TypeOK, Cursors
<1>2. CallShape'
  <2>1. CallOK(t)'
    BY <1>5 DEF TypeOK, CallShape, CallOK
  <2>2. ASSUME NEW u \in Threads, u # t PROVE CallOK(u)'
    BY <2>2 DEF TypeOK, CallShape, CallOK
  <2> QED BY <2>1, <2>2 DEF CallShape
<1>3. Exclusive'
  BY SplicesAssumption DEF TypeOK, CallShape, CallOK, Exclusive
<1>4. SpliceShape'
  <2>1. max_height_ <= max_height_'
    BY <1>1 DEF TypeOK
  <2> QED BY <1>1, <2>1, SpliceShapeKept DEF TypeOK, CallShape, CallOK
<1> QED BY <1>1, <1>2, <1>3, <1>4

LEMMA ReuseSpliceShape ==
  ASSUME Shape, NEW t \in Threads, ReuseSplice(t)
  PROVE  Shape'
<1> USE DEF Shape, ReuseSplice, list, splices, call, search, Inserting
<1>5. /\ Inserting(t) /\ splice[t] \in Splices /\ x[t] \in Nodes
      /\ max_height[t] \in 1 .. kMaxHeight
  BY Inside
<1>1. TypeOK'
  BY HeightAssumption DEF TypeOK, Cursors
<1>2. CallShape'
  <2>5. height[x[t]] <= max_height[t]
    BY <1>5 DEF CallShape, CallOK
  <2>6. height_[splice[t]] \in Nat /\ max_height[t] \in Nat /\ 0 < max_height[t]
    BY <1>5, HeightAssumption DEF TypeOK
  <2>3. max_height[t] <= height_[splice[t]] /\ 0 < max_height[t]
    BY <2>6
  <2>4. pc'[t] = "check" /\ recompute'[t] = 0
    BY DEF TypeOK
  <2>1. CallOK(t)'
    BY <1>5, <2>3, <2>4, <2>5 DEF TypeOK, CallShape, CallOK
  <2>2. ASSUME NEW u \in Threads, u # t PROVE CallOK(u)'
    BY <2>2 DEF TypeOK, CallShape, CallOK
  <2> QED BY <2>1, <2>2 DEF CallShape
<1>3. Exclusive'
  BY SplicesAssumption DEF TypeOK, CallShape, CallOK, Exclusive
<1>4. SpliceShape'
  <2>1. max_height_ <= max_height_'
    BY <1>1 DEF TypeOK
  <2> QED BY <1>1, <2>1, SpliceShapeKept DEF TypeOK, CallShape, CallOK
<1> QED BY <1>1, <1>2, <1>3, <1>4

LEMMA LinkDuplicateShape ==
  ASSUME Shape, NEW t \in Threads, LinkDuplicate(t)
  PROVE  Shape'
<1> USE DEF Shape, LinkDuplicate, list, splices, call, search, Inserting
<1>1. TypeOK'
  BY DEF TypeOK, Cursors
<1>2. CallShape'
  <2>1. CallOK(t)'
    BY DEF TypeOK, CallShape, CallOK
  <2>2. ASSUME NEW u \in Threads, u # t PROVE CallOK(u)'
    BY <2>2 DEF TypeOK, CallShape, CallOK
  <2> QED BY <2>1, <2>2 DEF CallShape
<1>3. Exclusive'
  BY SplicesAssumption DEF TypeOK, CallShape, CallOK, Exclusive
<1>4. SpliceShape'
  <2>1. max_height_ <= max_height_'
    BY <1>1 DEF TypeOK
  <2> QED BY <1>1, <2>1, SpliceShapeKept DEF TypeOK, CallShape, CallOK
<1> QED BY <1>1, <1>2, <1>3, <1>4

LEMMA FindAdvanceShape ==
  ASSUME Shape, NEW t \in Threads, FindAdvance(t)
  PROVE  Shape'
<1> USE DEF Shape, FindAdvance, KeyIsAfterNode, list, splices, call, search, Inserting
<1>1. TypeOK'
  <2>1. link[before[t]][level[t]] \in Nodes
    BY DEF TypeOK
  <2> QED BY <2>1 DEF TypeOK, Cursors
<1>2. CallShape'
  <2>1. CallOK(t)'
    BY DEF TypeOK, CallShape, CallOK
  <2>2. ASSUME NEW u \in Threads, u # t PROVE CallOK(u)'
    BY <2>2 DEF TypeOK, CallShape, CallOK
  <2> QED BY <2>1, <2>2 DEF CallShape
<1>3. Exclusive'
  BY SplicesAssumption DEF TypeOK, CallShape, CallOK, Exclusive
<1>4. SpliceShape'
  <2>1. max_height_ <= max_height_'
    BY <1>1 DEF TypeOK
  <2> QED BY <1>1, <2>1, SpliceShapeKept DEF TypeOK, CallShape, CallOK
<1> QED BY <1>1, <1>2, <1>3, <1>4
LEMMA OpenSpliceShape ==
  ASSUME Shape, NEW t \in Threads, OpenSplice(t)
  PROVE  Shape'
<1> USE DEF Shape, OpenSplice, list, splices, call, search, Inserting
<1>5. /\ Inserting(t) /\ splice[t] \in Splices /\ x[t] \in Nodes
      /\ height[x[t]] \in 1 .. kMaxHeight
      /\ max_height[t] \in 1 .. kMaxHeight
      /\ height_[splice[t]] \in 0 .. max_height[t]
  BY Inside
<1>1. TypeOK'
  <2>1. max_height[t] \in SpliceLevels /\ max_height[t] - 1 \in Levels
    BY <1>5, HeightAssumption DEF SpliceLevels, Levels
  <2>2. /\ prev_' \in [Splices -> [SpliceLevels -> Nodes \cup {Head, UninitPrev}]]
        /\ next_' \in [Splices -> [SpliceLevels -> Nodes \cup {Null, UninitNext}]]
        /\ height_' \in [Splices -> 0 .. kMaxHeight]
    BY <1>5, <2>1, HeightAssumption DEF TypeOK
  <2>3. /\ level' \in [Threads -> Levels]
        /\ recompute' \in [Threads -> 0 .. kMaxHeight]
    BY <1>5, <2>1, HeightAssumption DEF TypeOK
  <2> QED BY <2>2, <2>3 DEF TypeOK, Cursors
<1>2. CallShape'
  <2>3. /\ height_'[splice[t]] = max_height[t] /\ level'[t] = max_height[t] - 1
        /\ pc'[t] = "find" /\ before' = [before EXCEPT ![t] = Head]
    BY <1>5, HeightAssumption DEF TypeOK
  <2>1. CallOK(t)'
    BY <1>5, <2>3, HeightAssumption DEF CallShape, CallOK
  <2>2. ASSUME NEW u \in Threads, u # t PROVE CallOK(u)'
    BY <2>2, <1>5, HeightAssumption DEF TypeOK, CallShape, CallOK, Exclusive
  <2> QED BY <2>1, <2>2 DEF CallShape
<1>3. Exclusive'
  BY SplicesAssumption DEF TypeOK, CallShape, CallOK, Exclusive
<1>4. SpliceShape'
  <2> DEFINE s == splice[t]
             m == max_height[t]
  <2>1. m <= max_height_ /\ max_height_ \in 1 .. kMaxHeight
    BY <1>5 DEF TypeOK, CallShape, CallOK
  <2>2. \A l \in 0 .. m : Searched(s, l)' => Written(s, l)'
    <3>1. SUFFICES ASSUME NEW l \in 0 .. m, Searched(s, l)' PROVE Written(s, l)'
      OBVIOUS
    <3>2. l = m
      <4>1. pc'[t] = "find" /\ level'[t] = m - 1 /\ splice'[t] = s
        BY DEF TypeOK
      <4> QED BY <4>1, <3>1, <1>5 DEF Searched
    <3> QED BY <3>2, <1>5, NodesAssumption, HeightAssumption
            DEF Written, TypeOK, SpliceLevels, UninitPrev, UninitNext
  <2>3. /\ height_'[s] = m /\ prev_'[s][m] = Head /\ next_'[s][m] = Null
        /\ max_height_' = max_height_
    BY <1>5, HeightAssumption DEF TypeOK, SpliceLevels
  <2>4. ASSUME NEW q \in Splices, q # s
        PROVE  /\ height_'[q] = height_[q] /\ prev_'[q] = prev_[q] /\ next_'[q] = next_[q]
               /\ \A l \in 0 .. height_[q] : Searched(q, l)' => Searched(q, l)
    BY <2>4 DEF TypeOK, Searched
  <2> QED BY <2>1, <2>2, <2>3, <2>4 DEF SpliceShape, Written
<1> QED BY <1>1, <1>2, <1>3, <1>4


\* RecomputeSpliceLevels starts inside the written part of the splice.
LEMMA RecomputeShape ==
  ASSUME Shape, NEW t \in Threads, pc[t] = "check",
         NEW r \in 0 .. max_height[t], RecomputeSpliceLevels(t, r),
         UNCHANGED <<list, splices, call, valid, ret>>
  PROVE  Shape'
<1> USE DEF Shape, RecomputeSpliceLevels, list, splices, call, Inserting
<1>5. /\ Inserting(t) /\ splice[t] \in Splices /\ x[t] \in Nodes
      /\ height[x[t]] \in 1 .. kMaxHeight
      /\ max_height[t] \in 1 .. kMaxHeight
      /\ height_[splice[t]] \in 0 .. max_height[t]
  BY Inside
<1>6. max_height[t] = height_[splice[t]]
  BY <1>5 DEF CallShape, CallOK
<1>7. /\ prev_[splice[t]][r] \in Nodes \cup {Head}
      /\ next_[splice[t]][r] \in Nodes \cup {Null}
  <2>1. r \in SpliceLevels /\ r <= height_[splice[t]] /\ height_[splice[t]] > 0
    BY <1>5, <1>6, HeightAssumption DEF SpliceLevels
  <2> QED BY <1>5, <2>1, OwnWritten
<1>8. pc' \in [Threads -> {"link", "find"} \cup {pc[u] : u \in Threads}]
  BY DEF TypeOK
<1>1. TypeOK'
  <2>1. level' \in [Threads -> Levels] /\ recompute' \in [Threads -> 0 .. kMaxHeight]
    BY <1>5, HeightAssumption DEF TypeOK, Levels
  <2>2. /\ before' \in [Threads -> Nodes \cup {Head}]
        /\ after' \in [Threads -> Nodes \cup {Null}]
    BY <1>7 DEF TypeOK
  <2> QED BY <2>1, <2>2 DEF TypeOK, Cursors
<1>2. CallShape'
  <2>1. CallOK(t)'
    BY <1>5, HeightAssumption DEF TypeOK, CallShape, CallOK
  <2>2. ASSUME NEW u \in Threads, u # t PROVE CallOK(u)'
    BY <2>2, <1>5, HeightAssumption DEF TypeOK, CallShape, CallOK, Exclusive
  <2> QED BY <2>1, <2>2 DEF CallShape
<1>3. Exclusive'
  BY DEF Exclusive
<1>4. SpliceShape'
  <2> DEFINE s == splice[t]
  <2>1. ASSUME NEW q \in Splices, NEW l \in 0 .. height_[q], Searched(q, l)'
        PROVE  Searched(q, l)
    BY <2>1 DEF TypeOK, Searched
  <2> QED BY <2>1 DEF SpliceShape, Written
<1> QED BY <1>1, <1>2, <1>3, <1>4

LEMMA CheckFromShape ==
  ASSUME Shape, NEW t \in Threads, pc[t] = "check",
         NEW r \in 0 .. max_height[t], CheckFrom(t, r),
         UNCHANGED <<list, splices, call, valid, ret>>
  PROVE  Shape'
<1>1. CASE RecomputeSpliceLevels(t, r)
  BY <1>1, RecomputeShape
<1>2. CASE /\ r < max_height[t]
           /\ recompute' = [recompute EXCEPT ![t] = r]
           /\ UNCHANGED <<pc, level, before, after>>
  <2> USE <1>2 DEF Shape, list, splices, call, Inserting
  <2>1. max_height[t] \in 1 .. kMaxHeight
    BY Inside
  <2>2. TypeOK'
    BY <2>1, HeightAssumption DEF TypeOK
  <2>3. CallShape'
    BY <2>1 DEF TypeOK, CallShape, CallOK
  <2>4. Exclusive'
    BY DEF Exclusive
  <2>5. SpliceShape'
    BY DEF SpliceShape, Written, Searched
  <2> QED BY <2>2, <2>3, <2>4, <2>5
<1> QED BY <1>1, <1>2 DEF CheckFrom

\* recompute_height never leaves the splice (assert 539).
LEMMA CheckSpliceSteps ==
  ASSUME Shape, NEW t \in Threads, CheckSplice(t)
  PROVE  /\ pc[t] = "check" /\ UNCHANGED <<list, splices, call, valid, ret>>
         /\ \E r \in 0 .. max_height[t] : CheckFrom(t, r) \/ RecomputeSpliceLevels(t, r)
<1> DEFINE r == recompute[t]
           m == max_height[t]
           s == splice[t]
<1>1. pc[t] = "check" /\ UNCHANGED <<list, splices, call, valid, ret>>
  BY DEF CheckSplice
<1>2. s \in Splices /\ m \in 1 .. kMaxHeight /\ height_[s] = m /\ r \in 0 .. m - 1
  <2>1. s \in Splices /\ m \in 1 .. kMaxHeight /\ Inserting(t) /\ height_[s] \in 0 .. m
    BY <1>1, Inside
  <2>2. r \in 0 .. kMaxHeight /\ r < m /\ m <= height_[s]
    BY <1>1, <2>1 DEF Shape, TypeOK, CallShape, CallOK
  <2> QED BY <2>1, <2>2, HeightAssumption
<1>3. r \in SpliceLevels /\ m \in SpliceLevels
  BY <1>2, HeightAssumption DEF SpliceLevels
<1>4. prev_[s][m] = Head /\ next_[s][m] = Null
  BY <1>2 DEF Shape, SpliceShape
<1>5. CASE CheckFrom(t, r + 1)
  BY <1>1, <1>2, <1>5
<1>6. CASE prev_[s][r] # Head /\ CheckFrom(t, SkipBad(t, prev_[s], r))
  <2>1. SkipBad(t, prev_[s], r) \in 0 .. m
    BY <1>2, <1>3, <1>4, <1>6, AboveBadBounds DEF SkipBad
  <2> QED BY <1>1, <1>6, <2>1
<1>7. CASE next_[s][r] # Null /\ CheckFrom(t, SkipBad(t, next_[s], r))
  <2>1. SkipBad(t, next_[s], r) \in 0 .. m
    BY <1>2, <1>3, <1>4, <1>7, AboveBadBounds DEF SkipBad
  <2> QED BY <1>1, <1>7, <2>1
<1>8. CASE RecomputeSpliceLevels(t, r)
  BY <1>1, <1>2, <1>8
<1> QED BY <1>5, <1>6, <1>7, <1>8 DEF CheckSplice, KeyIsAfterNode

LEMMA CheckSpliceShape ==
  ASSUME Shape, NEW t \in Threads, CheckSplice(t)
  PROVE  Shape'
BY CheckSpliceSteps, CheckFromShape, RecomputeShape

LEMMA FindDescendShape ==
  ASSUME Shape, NEW t \in Threads, FindDescend(t)
  PROVE  Shape'
<1> USE DEF Shape, FindDescend, FoundSplice, list, splices, call, search, Inserting
<1>5. /\ Inserting(t) /\ splice[t] \in Splices /\ x[t] \in Nodes
      /\ height[x[t]] \in 1 .. kMaxHeight
      /\ max_height[t] \in 1 .. kMaxHeight
      /\ height_[splice[t]] \in 0 .. max_height[t]
  BY Inside
<1>6. level[t] \in Levels /\ level[t] < height_[splice[t]]
  BY <1>5 DEF TypeOK, CallShape, CallOK, Levels
<1>7. /\ prev_' \in [Splices -> [SpliceLevels -> Nodes \cup {Head, UninitPrev}]]
      /\ next_' \in [Splices -> [SpliceLevels -> Nodes \cup {Null, UninitNext}]]
  <2>1. link[before[t]][level[t]] \in Nodes \cup {Null} /\ level[t] \in SpliceLevels
    BY HeightAssumption DEF TypeOK, Levels, SpliceLevels
  <2> QED BY <1>5, <2>1 DEF TypeOK
<1>1. TypeOK'
  <2>1. link[before[t]][level[t]] \in Nodes \cup {Null}
    BY DEF TypeOK
  <2>2. level[t] > 0 => level[t] - 1 \in Levels
    BY <1>6, HeightAssumption DEF Levels
  <2>3. CASE level[t] > 0 /\ level' = [level EXCEPT ![t] = @ - 1]
    BY <1>7, <2>1, <2>2, <2>3 DEF TypeOK, Cursors
  <2>4. CASE level[t] = 0
    <3>1. pc' = [pc EXCEPT ![t] = "link"] /\ UNCHANGED <<level, after>>
      BY <2>4
    <3> QED BY <1>7, <3>1 DEF TypeOK, Cursors
  <2> QED BY <2>3, <2>4
<1>2. CallShape'
  <2>3. /\ height[x[t]] <= max_height[t] /\ max_height[t] <= height_[splice[t]]
        /\ level[t] < max_height[t]
    BY <1>5 DEF CallShape, CallOK
  <2>4. \/ pc'[t] = "find" /\ level'[t] < max_height[t]
        \/ pc'[t] = "link" /\ level'[t] < height[x[t]]
    BY <1>5, <1>6, <2>3, HeightAssumption DEF TypeOK, Levels
  <2>1. CallOK(t)'
    BY <1>5, <2>3, <2>4 DEF CallShape, CallOK
  <2>2. ASSUME NEW u \in Threads, u # t PROVE CallOK(u)'
    BY <2>2, <1>5, HeightAssumption DEF TypeOK, CallShape, CallOK, Exclusive
  <2> QED BY <2>1, <2>2 DEF CallShape
<1>3. Exclusive'
  BY SplicesAssumption DEF TypeOK, CallShape, CallOK, Exclusive
<1>4. SpliceShape'
  <2> DEFINE s == splice[t]
  <2>0. PICK v \in Levels : v = level[t]
    BY <1>6
  <2>1. \A q \in Splices : height_'[q] = height_[q] /\ max_height_' = max_height_
    OBVIOUS
  <2>2. \A q \in Splices, l \in SpliceLevels :
            (q # s \/ l # v) => /\ prev_'[q][l] = prev_[q][l]
                                       /\ next_'[q][l] = next_[q][l]
    BY <1>5, <2>0 DEF TypeOK
  <2>3. v \in SpliceLevels /\ v < height_[s] /\ height_[s] \in 0 .. kMaxHeight
    BY <1>5, <1>6, <2>0, HeightAssumption DEF Levels, SpliceLevels, TypeOK
  <2>4. prev_'[s][v] = before[t] /\ next_'[s][v] = link[before[t]][level[t]]
    BY <1>5, <2>0, <2>3 DEF TypeOK
  <2>5. Written(s, v)'
    <3>1. before[t] \in Nodes \cup {Head} /\ link[before[t]][level[t]] \in Nodes \cup {Null}
      BY DEF TypeOK
    <3> QED BY <2>4, <3>1, NodesAssumption DEF Written, UninitPrev, UninitNext
  <2>6. ASSUME NEW q \in Splices, NEW l \in 0 .. height_[q], Searched(q, l)',
               q # s \/ l # v
        PROVE  Searched(q, l)
    BY <1>5, <1>6, <2>0, <2>6, HeightAssumption DEF TypeOK, Searched, Exclusive, Levels
  <2>7. ASSUME NEW q \in Splices, height_[q] > 0
        PROVE  /\ prev_'[q][height_[q]] = Head
               /\ next_'[q][height_[q]] = Null
               /\ \A l \in 0 .. height_[q] : Searched(q, l)' => Written(q, l)'
    <3>1. height_[q] \in SpliceLevels
      BY DEF TypeOK, SpliceLevels
    <3>2. q # s \/ height_[q] # v
      BY <2>0, <2>3, HeightAssumption DEF Levels
    <3>3. prev_'[q][height_[q]] = Head /\ next_'[q][height_[q]] = Null
      BY <2>2, <2>7, <3>1, <3>2 DEF SpliceShape
    <3>4. ASSUME NEW l \in 0 .. height_[q], Searched(q, l)' PROVE Written(q, l)'
      <4>1. CASE q = s /\ l = v
        BY <4>1, <2>5
      <4>2. CASE q # s \/ l # v
        <5>1. l \in SpliceLevels
          BY <3>1, HeightAssumption DEF SpliceLevels
        <5>2. Written(q, l)
          BY <2>6, <2>7, <3>4, <4>2 DEF SpliceShape
        <5> QED BY <2>2, <4>2, <5>1, <5>2 DEF Written
      <4> QED BY <4>1, <4>2
    <3> QED BY <3>3, <3>4
  <2> QED BY <2>1, <2>7 DEF SpliceShape
<1> QED BY <1>1, <1>2, <1>3, <1>4

LEMMA RefoundShape ==
  ASSUME Shape, NEW t \in Threads, Refound(t)
  PROVE  Shape'
<1> USE DEF Shape, Refound, FoundSplice, StaysValid, list, splices, call, search, Inserting
<1>5. /\ Inserting(t) /\ splice[t] \in Splices /\ x[t] \in Nodes
      /\ height[x[t]] \in 1 .. kMaxHeight
      /\ max_height[t] \in 1 .. kMaxHeight
      /\ height_[splice[t]] \in 0 .. max_height[t]
  BY Inside
<1>6. /\ level[t] \in Levels /\ level[t] < height_[splice[t]]
      /\ Prev(t) \in Nodes \cup {Head} /\ Succ(t) \in Nodes \cup {Null}
  BY Linking
<1>7. /\ prev_' \in [Splices -> [SpliceLevels -> Nodes \cup {Head, UninitPrev}]]
      /\ next_' \in [Splices -> [SpliceLevels -> Nodes \cup {Null, UninitNext}]]
  <2>1. link[before[t]][level[t]] \in Nodes \cup {Null} /\ level[t] \in SpliceLevels
    BY HeightAssumption DEF TypeOK, Levels, SpliceLevels
  <2> QED BY <1>5, <2>1 DEF TypeOK
<1>1. TypeOK'
  <2>1. valid' \in [Threads -> BOOLEAN]
    BY DEF TypeOK
  <2> QED BY <1>7, <2>1 DEF TypeOK, Cursors
<1>2. CallShape'
  <2>3. /\ height[x[t]] <= max_height[t] /\ max_height[t] <= height_[splice[t]]
        /\ level[t] < height[x[t]]
    BY <1>5 DEF CallShape, CallOK
  <2>4. pc'[t] = "link" /\ level'[t] = level[t]
    BY DEF TypeOK
  <2>1. CallOK(t)'
    BY <1>5, <2>3, <2>4 DEF CallShape, CallOK
  <2>2. ASSUME NEW u \in Threads, u # t PROVE CallOK(u)'
    BY <2>2, <1>5, HeightAssumption DEF TypeOK, CallShape, CallOK, Exclusive
  <2> QED BY <2>1, <2>2 DEF CallShape
<1>3. Exclusive'
  BY SplicesAssumption DEF TypeOK, CallShape, CallOK, Exclusive
<1>4. SpliceShape'
  <2> DEFINE s == splice[t]
  <2>0. PICK v \in Levels : v = level[t]
    BY <1>6
  <2>1. \A q \in Splices : height_'[q] = height_[q] /\ max_height_' = max_height_
    OBVIOUS
  <2>2. \A q \in Splices, l \in SpliceLevels :
            (q # s \/ l # v) => /\ prev_'[q][l] = prev_[q][l]
                                       /\ next_'[q][l] = next_[q][l]
    BY <1>5, <2>0 DEF TypeOK
  <2>3. v \in SpliceLevels /\ v < height_[s] /\ height_[s] \in 0 .. kMaxHeight
    BY <1>5, <1>6, <2>0, HeightAssumption DEF Levels, SpliceLevels, TypeOK
  <2>4. prev_'[s][v] = before[t] /\ next_'[s][v] = link[before[t]][level[t]]
    BY <1>5, <2>0, <2>3 DEF TypeOK
  <2>5. Written(s, v)'
    <3>1. before[t] \in Nodes \cup {Head} /\ link[before[t]][level[t]] \in Nodes \cup {Null}
      BY DEF TypeOK
    <3> QED BY <2>4, <3>1, NodesAssumption DEF Written, UninitPrev, UninitNext
  <2>6. ASSUME NEW q \in Splices, NEW l \in 0 .. height_[q], Searched(q, l)',
               q # s \/ l # v
        PROVE  Searched(q, l)
    BY <1>5, <1>6, <2>0, <2>6, HeightAssumption DEF TypeOK, Searched, Exclusive, Levels
  <2>7. ASSUME NEW q \in Splices, height_[q] > 0
        PROVE  /\ prev_'[q][height_[q]] = Head
               /\ next_'[q][height_[q]] = Null
               /\ \A l \in 0 .. height_[q] : Searched(q, l)' => Written(q, l)'
    <3>1. height_[q] \in SpliceLevels
      BY DEF TypeOK, SpliceLevels
    <3>2. q # s \/ height_[q] # v
      BY <2>0, <2>3, HeightAssumption DEF Levels
    <3>3. prev_'[q][height_[q]] = Head /\ next_'[q][height_[q]] = Null
      BY <2>2, <2>7, <3>1, <3>2 DEF SpliceShape
    <3>4. ASSUME NEW l \in 0 .. height_[q], Searched(q, l)' PROVE Written(q, l)'
      <4>1. CASE q = s /\ l = v
        BY <4>1, <2>5
      <4>2. CASE q # s \/ l # v
        <5>1. l \in SpliceLevels
          BY <3>1, HeightAssumption DEF SpliceLevels
        <5>2. Written(q, l)
          BY <2>6, <2>7, <3>4, <4>2 DEF SpliceShape
        <5> QED BY <2>2, <4>2, <5>1, <5>2 DEF Written
      <4> QED BY <4>1, <4>2
    <3> QED BY <3>3, <3>4
  <2> QED BY <2>1, <2>7 DEF SpliceShape
<1> QED BY <1>1, <1>2, <1>3, <1>4

LEMMA LinkStaleShape ==
  ASSUME Shape, NEW t \in Threads, LinkStale(t)
  PROVE  Shape'
<1> USE DEF Shape, LinkStale, Refind, list, splices, call, search, Inserting
<1>5. /\ Inserting(t) /\ splice[t] \in Splices /\ x[t] \in Nodes
      /\ height[x[t]] \in 1 .. kMaxHeight
      /\ max_height[t] \in 1 .. kMaxHeight
      /\ height_[splice[t]] \in 0 .. max_height[t]
  BY Inside
<1>6. /\ level[t] \in Levels /\ level[t] < height_[splice[t]]
      /\ Prev(t) \in Nodes \cup {Head} /\ Succ(t) \in Nodes \cup {Null}
  BY Linking
<1>1. TypeOK'
  BY <1>6 DEF TypeOK, Cursors, Prev
<1>2. CallShape'
  <2>3. /\ height[x[t]] <= max_height[t] /\ max_height[t] <= height_[splice[t]]
        /\ level[t] < height[x[t]]
    BY <1>5 DEF CallShape, CallOK
  <2>4. pc'[t] = "refind" /\ level'[t] = level[t]
    BY DEF TypeOK
  <2>1. CallOK(t)'
    BY <1>5, <2>3, <2>4 DEF CallShape, CallOK
  <2>2. ASSUME NEW u \in Threads, u # t PROVE CallOK(u)'
    BY <2>2, <1>5, HeightAssumption DEF TypeOK, CallShape, CallOK, Exclusive
  <2> QED BY <2>1, <2>2 DEF CallShape
<1>3. Exclusive'
  BY SplicesAssumption DEF TypeOK, CallShape, CallOK, Exclusive
<1>4. SpliceShape'
  <2>1. max_height_ <= max_height_'
    BY <1>1 DEF TypeOK
  <2> QED BY <1>1, <2>1, SpliceShapeKept DEF TypeOK, CallShape, CallOK
<1> QED BY <1>1, <1>2, <1>3, <1>4

LEMMA CASFailedShape ==
  ASSUME Shape, NEW t \in Threads, CASFailed(t)
  PROVE  Shape'
<1> USE DEF Shape, CASFailed, Refind, list, splices, call, search, Inserting
<1>5. /\ Inserting(t) /\ splice[t] \in Splices /\ x[t] \in Nodes
      /\ height[x[t]] \in 1 .. kMaxHeight
      /\ max_height[t] \in 1 .. kMaxHeight
      /\ height_[splice[t]] \in 0 .. max_height[t]
  BY Inside
<1>6. /\ level[t] \in Levels /\ level[t] < height_[splice[t]]
      /\ Prev(t) \in Nodes \cup {Head} /\ Succ(t) \in Nodes \cup {Null}
  BY Linking
<1>1. TypeOK'
  BY <1>6 DEF TypeOK, Cursors, Prev
<1>2. CallShape'
  <2>3. /\ height[x[t]] <= max_height[t] /\ max_height[t] <= height_[splice[t]]
        /\ level[t] < height[x[t]]
    BY <1>5 DEF CallShape, CallOK
  <2>4. pc'[t] = "refind" /\ level'[t] = level[t]
    BY DEF TypeOK
  <2>1. CallOK(t)'
    BY <1>5, <2>3, <2>4 DEF CallShape, CallOK
  <2>2. ASSUME NEW u \in Threads, u # t PROVE CallOK(u)'
    BY <2>2, <1>5, HeightAssumption DEF TypeOK, CallShape, CallOK, Exclusive
  <2> QED BY <2>1, <2>2 DEF CallShape
<1>3. Exclusive'
  BY SplicesAssumption DEF TypeOK, CallShape, CallOK, Exclusive
<1>4. SpliceShape'
  <2>1. max_height_ <= max_height_'
    BY <1>1 DEF TypeOK
  <2> QED BY <1>1, <2>1, SpliceShapeKept DEF TypeOK, CallShape, CallOK
<1> QED BY <1>1, <1>2, <1>3, <1>4

LEMMA PrepareLinkShape ==
  ASSUME Shape, NEW t \in Threads, PrepareLink(t)
  PROVE  Shape'
<1> USE DEF Shape, PrepareLink, list, splices, call, search, Inserting
<1>5. /\ Inserting(t) /\ splice[t] \in Splices /\ x[t] \in Nodes
      /\ height[x[t]] \in 1 .. kMaxHeight
      /\ max_height[t] \in 1 .. kMaxHeight
      /\ height_[splice[t]] \in 0 .. max_height[t]
  BY Inside
<1>6. /\ level[t] \in Levels /\ level[t] < height_[splice[t]]
      /\ Prev(t) \in Nodes \cup {Head} /\ Succ(t) \in Nodes \cup {Null}
  BY Linking
<1>1. TypeOK'
  <2>1. link' \in [Nodes \cup {Head} -> [Levels -> Nodes \cup {Null}]]
    BY <1>5, <1>6 DEF TypeOK
  <2> QED BY <2>1 DEF TypeOK, Cursors
<1>2. CallShape'
  <2>3. /\ height[x[t]] <= max_height[t] /\ max_height[t] <= height_[splice[t]]
        /\ level[t] < height[x[t]]
    BY <1>5 DEF CallShape, CallOK
  <2>4. pc'[t] = "publish" /\ level'[t] = level[t]
    BY DEF TypeOK
  <2>1. CallOK(t)'
    BY <1>5, <2>3, <2>4 DEF CallShape, CallOK
  <2>2. ASSUME NEW u \in Threads, u # t PROVE CallOK(u)'
    BY <2>2, <1>5, HeightAssumption DEF TypeOK, CallShape, CallOK, Exclusive
  <2> QED BY <2>1, <2>2 DEF CallShape
<1>3. Exclusive'
  BY SplicesAssumption DEF TypeOK, CallShape, CallOK, Exclusive
<1>4. SpliceShape'
  <2>1. max_height_ <= max_height_'
    BY <1>1 DEF TypeOK
  <2> QED BY <1>1, <2>1, SpliceShapeKept DEF TypeOK, CallShape, CallOK
<1> QED BY <1>1, <1>2, <1>3, <1>4

LEMMA PublishLinkShape ==
  ASSUME Shape, NEW t \in Threads, PublishLink(t)
  PROVE  Shape'
<1> USE DEF Shape, PublishLink, MoreLevels, list, splices, call, search, Inserting
<1>5. /\ Inserting(t) /\ splice[t] \in Splices /\ x[t] \in Nodes
      /\ height[x[t]] \in 1 .. kMaxHeight
      /\ max_height[t] \in 1 .. kMaxHeight
      /\ height_[splice[t]] \in 0 .. max_height[t]
  BY Inside
<1>6. /\ level[t] \in Levels /\ level[t] < height_[splice[t]]
      /\ Prev(t) \in Nodes \cup {Head} /\ Succ(t) \in Nodes \cup {Null}
  BY Linking
<1>1. TypeOK'
  <2>1. link' \in [Nodes \cup {Head} -> [Levels -> Nodes \cup {Null}]]
    BY <1>5, <1>6 DEF TypeOK
  <2>2. level' \in [Threads -> Levels]
    BY <1>5, <1>6, HeightAssumption DEF TypeOK, Levels
  <2> QED BY <2>1, <2>2 DEF TypeOK, Cursors
<1>2. CallShape'
  <2>3. \/ pc'[t] = "link" /\ level'[t] < height[x[t]]
        \/ pc'[t] = "finish"
    BY <1>5, <1>6, HeightAssumption DEF TypeOK, Levels
  <2>4. height[x[t]] <= max_height[t] /\ max_height[t] <= height_[splice[t]]
    BY <1>5 DEF CallShape, CallOK
  <2>1. CallOK(t)'
    BY <1>5, <2>3, <2>4 DEF CallShape, CallOK
  <2>2. ASSUME NEW u \in Threads, u # t PROVE CallOK(u)'
    BY <2>2, <1>5, HeightAssumption DEF TypeOK, CallShape, CallOK, Exclusive
  <2> QED BY <2>1, <2>2 DEF CallShape
<1>3. Exclusive'
  BY SplicesAssumption DEF TypeOK, CallShape, CallOK, Exclusive
<1>4. SpliceShape'
  <2>1. max_height_ <= max_height_'
    BY <1>1 DEF TypeOK
  <2> QED BY <1>1, <2>1, SpliceShapeKept DEF TypeOK, CallShape, CallOK
<1> QED BY <1>1, <1>2, <1>3, <1>4

LEMMA FinishInsertShape ==
  ASSUME Shape, NEW t \in Threads, FinishInsert(t)
  PROVE  Shape'
<1> USE DEF Shape, FinishInsert, list, splices, call, search, Inserting
<1>5. /\ Inserting(t) /\ splice[t] \in Splices /\ x[t] \in Nodes
      /\ height[x[t]] \in 1 .. kMaxHeight
      /\ max_height[t] \in 1 .. kMaxHeight
      /\ height_[splice[t]] \in 0 .. max_height[t]
  BY Inside
<1>1. TypeOK'
  <2>1. CASE valid[t]
    <3>1. [l \in SpliceLevels |-> IF l < height[x[t]] THEN x[t] ELSE prev_[splice[t]][l]]
              \in [SpliceLevels -> Nodes \cup {Head, UninitPrev}]
      BY <1>5 DEF TypeOK
    <3>2. prev_' \in [Splices -> [SpliceLevels -> Nodes \cup {Head, UninitPrev}]]
      BY <1>5, <2>1, <3>1 DEF TypeOK
    <3> QED BY <2>1, <3>2 DEF TypeOK, Cursors
  <2>2. CASE ~valid[t]
    <3>1. 0 \in 0 .. kMaxHeight
      BY HeightAssumption
    <3>2. height_' \in [Splices -> 0 .. kMaxHeight]
      BY <2>2, <3>1 DEF TypeOK
    <3> QED BY <2>2, <3>2 DEF TypeOK, Cursors
  <2> QED BY <2>1, <2>2
<1>2. CallShape'
  <2>1. CallOK(t)'
    BY <1>5, HeightAssumption DEF TypeOK, CallShape, CallOK
  <2>2. ASSUME NEW u \in Threads, u # t PROVE CallOK(u)'
    BY <2>2, <1>5, HeightAssumption DEF TypeOK, CallShape, CallOK, Exclusive
  <2> QED BY <2>1, <2>2 DEF CallShape
<1>3. Exclusive'
  BY SplicesAssumption DEF TypeOK, CallShape, CallOK, Exclusive
<1>4. SpliceShape'
  <2> DEFINE s == splice[t]
  <2>1. \A q \in Splices : q # s => height_'[q] = height_[q] /\ prev_'[q] = prev_[q]
    BY DEF TypeOK
  <2>2. \A q \in Splices, l \in SpliceLevels : Searched(q, l)' => Searched(q, l)
    BY DEF Searched, TypeOK
  <2>3. ASSUME NEW q \in Splices, height_'[q] > 0, height_'[q] = height_[q]
        PROVE  /\ prev_'[q][height_[q]] = Head
               /\ \A l \in SpliceLevels : Written(q, l) => Written(q, l)'
    <3>1. height_[q] \in SpliceLevels
      BY DEF TypeOK, SpliceLevels
    <3>2. prev_[q][height_[q]] = Head
      BY <2>3 DEF SpliceShape
    <3>3. CASE q # s
      BY <2>1, <3>2, <3>3 DEF Written
    <3>4. CASE q = s /\ valid[t]
      <4>1. \A l \in SpliceLevels :
                prev_'[q][l] = IF l < height[x[t]] THEN x[t] ELSE prev_[q][l]
        BY <1>5, <3>4 DEF TypeOK
      <4>2. height[x[t]] <= height_[q]
        <5>1. height[x[t]] <= max_height[t] /\ max_height[t] <= height_[s]
          BY <1>5 DEF CallShape, CallOK
        <5> QED BY <1>5, <3>4, <5>1, HeightAssumption
      <4> QED BY <1>5, <3>1, <3>2, <4>1, <4>2, NodesAssumption, HeightAssumption
              DEF Written, UninitPrev, SpliceLevels
    <3>5. CASE q = s /\ ~valid[t]
      BY <1>5, <2>3, <3>5 DEF TypeOK
    <3> QED BY <3>3, <3>4, <3>5 DEF TypeOK
  <2>4. \A q \in Splices : height_'[q] \in 0 .. height_[q] /\ height_[q] \in 0 .. kMaxHeight
    BY HeightAssumption DEF TypeOK
  <2>5. \A q \in Splices : height_'[q] > 0 => height_'[q] = height_[q]
    BY <1>5 DEF TypeOK
  <2>6. \A q \in Splices : height_[q] <= max_height_ /\ max_height_ \in 1 .. kMaxHeight
    BY DEF TypeOK, SpliceShape
  <2>7. ASSUME NEW q \in Splices, height_'[q] > 0, NEW l \in 0 .. height_'[q], Searched(q, l)'
        PROVE  Written(q, l)'
    <3>1. l \in SpliceLevels /\ l \in 0 .. height_[q] /\ height_[q] > 0
      BY <2>4, <2>5, <2>7, HeightAssumption DEF SpliceLevels
    <3>2. Written(q, l)
      BY <2>2, <2>7, <3>1 DEF SpliceShape
    <3> QED BY <2>3, <2>5, <2>7, <3>1, <3>2
  <2>8. \A q \in Splices : height_'[q] <= max_height_'
    BY <2>4, <2>6, HeightAssumption
  <2>9. \A q \in Splices : height_'[q] > 0 =>
            prev_'[q][height_'[q]] = Head /\ next_'[q][height_'[q]] = Null
    BY <2>3, <2>5 DEF SpliceShape
  <2> QED BY <2>7, <2>8, <2>9 DEF SpliceShape
<1> QED BY <1>1, <1>2, <1>3, <1>4

LEMMA ReturnShape ==
  ASSUME Shape, NEW t \in Threads, Return(t)
  PROVE  Shape'
<1> USE DEF Shape, Return, list, splices, call, search, Inserting
<1>1. TypeOK'
  BY HeightAssumption, KeysAssumption, NodesAssumption, SplicesAssumption
     DEF TypeOK, CallShape, CallOK, Cursors, Levels, SpliceLevels, Splices, UninitPrev, UninitNext
<1>2. CallShape'
  BY HeightAssumption, KeysAssumption, NodesAssumption, SplicesAssumption
     DEF TypeOK, CallShape, CallOK, Exclusive, Cursors, Levels, Splices
<1>3. Exclusive'
  BY SplicesAssumption DEF TypeOK, CallShape, CallOK, Exclusive
<1>4. SpliceShape'
  <2>1. ASSUME NEW q \in Splices, height_'[q] > 0
        PROVE  q # t /\ height_'[q] = height_[q] /\ prev_'[q] = prev_[q] /\ next_'[q] = next_[q]
    BY <2>1 DEF TypeOK, Splices
  <2>2. \A q \in Splices, l \in SpliceLevels : Searched(q, l)' => Searched(q, l)
    BY DEF Searched, TypeOK
  <2>3. \A q \in Splices : height_'[q] <= max_height_'
    BY HeightAssumption DEF TypeOK, SpliceShape, Splices
  <2>4. \A q \in Splices : height_[q] \in 0 .. kMaxHeight
    BY DEF TypeOK
  <2>5. ASSUME NEW q \in Splices, height_'[q] > 0, NEW l \in 0 .. height_'[q], Searched(q, l)'
        PROVE  Written(q, l)'
    <3>1. l \in SpliceLevels /\ l \in 0 .. height_[q] /\ height_[q] > 0
      BY <2>1, <2>4, <2>5, HeightAssumption DEF SpliceLevels
    <3>2. Written(q, l)
      BY <2>2, <2>5, <3>1 DEF SpliceShape
    <3> QED BY <2>1, <2>5, <3>2 DEF Written
  <2> QED BY <2>1, <2>3, <2>5 DEF SpliceShape
<1> QED BY <1>1, <1>2, <1>3, <1>4

LEMMA InitShape == Init => Shape
BY KeysAssumption, HeightAssumption, NodesAssumption, SplicesAssumption
   DEF Init, Shape, TypeOK, CallShape, CallOK, Exclusive, SpliceShape, Inserting,
       Cursors, Levels, SpliceLevels, Splices, UninitPrev, UninitNext

LEMMA NextShape == Shape /\ [Next]_vars => Shape'
<1> SUFFICES ASSUME Shape, [Next]_vars PROVE Shape'
  OBVIOUS
<1>1. CASE UNCHANGED vars
  BY <1>1 DEF vars, list, splices, call, search, Shape, TypeOK, CallShape, CallOK,
       Exclusive, SpliceShape, Searched, Written, Inserting
<1>2. ASSUME NEW t \in Threads, Call(t) PROVE Shape'
  <2>1. ASSUME NEW k \in Keys, ContainsCall(t, k) PROVE Shape'
    BY <2>1, ContainsCallShape
  <2>2. ASSUME NEW n \in Nodes, NEW h \in 1 .. kMaxHeight, Insert(t, n, h) PROVE Shape'
    BY <2>2, InsertCallShape, SplicesAssumption DEF Insert, Splices
  <2>3. ASSUME NEW n \in Nodes, NEW h \in 1 .. kMaxHeight, InsertConcurrently(t, n, h)
        PROVE  Shape'
    BY <2>3, InsertCallShape DEF InsertConcurrently, Splices
  <2>4. ASSUME NEW n \in Nodes, NEW h \in 1 .. kMaxHeight, InsertWithHint(t, n, h)
        PROVE  Shape'
    BY <2>4, InsertCallShape, SplicesAssumption DEF InsertWithHint, Splices
  <2> QED BY <1>2, <2>1, <2>2, <2>3, <2>4 DEF Call
<1>3. ASSUME NEW t \in Threads, Step(t) PROVE Shape'
  BY <1>3, SeekAdvanceShape, SeekDescendShape, SeekReturnShape, CASMaxHeightShape,
     ReloadMaxHeightShape, OpenSpliceShape, ReuseSpliceShape, CheckSpliceShape,
     FindAdvanceShape, FindDescendShape, RefoundShape, LinkStaleShape,
     LinkDuplicateShape, PrepareLinkShape, PublishLinkShape, CASFailedShape,
     FinishInsertShape, ReturnShape DEF Step
<1> QED BY <1>1, <1>2, <1>3 DEF Next

\* Every variable always has its type: in particular no link is read through
\* nullptr or through a splice entry that was never written.
THEOREM TypeCorrect == Spec => []TypeOK
<1>1. Init => Shape
  BY InitShape
<1>2. Shape /\ [Next]_vars => Shape'
  BY NextShape
<1>3. Shape => TypeOK
  BY DEF Shape
<1> QED BY <1>1, <1>2, <1>3, PTL DEF Spec

-----------------------------------------------------------------------------
(* The links and the levels a node has been linked at                      *)

\* Every linked node can be reached from a linked node, or from head_.
Pointed ==
    \A l \in Levels : \A m \in Linked(l) : \E p \in OnLevel(l) : link[p][l] = m

\* The levels at which the node of an insert is linked already.
Placed(t) ==
    Inserting(t) =>
        \A l \in Levels :
            x[t] \in Linked(l) <=>
                \/ pc[t] \in {"refind", "link", "publish"} /\ l < level[t]
                \/ /\ pc[t] = "finish" \/ (pc[t] = "ret" /\ ret[t])
                   /\ l < height[x[t]]

\* Splices and searches hold nodes of their levels.
SplicesOnLevel ==
    \A s \in Splices, l \in Levels :
        /\ prev_[s][l] # UninitPrev => prev_[s][l] \in OnLevel(l)
        /\ next_[s][l] # UninitNext => next_[s][l] \in Linked(l) \cup {Null}

CursorOnLevel(t) ==
    \A l \in Levels :
        pc[t] \in Cursors /\ level[t] = l => before[t] \in OnLevel(l)

\* The levels a sequential insert need not look at again.
Settled(t, l) ==
    \/ pc[t] = "find" /\ level[t] < l /\ l < recompute[t]
    \/ pc[t] \in {"refind", "link", "publish"} /\ level[t] <= l /\ l < recompute[t]
    \/ pc[t] = "publish" /\ level[t] = l

Tight(t) ==
    Inserting(t) /\ ~cas[t] =>
        \A l \in Levels :
            Settled(t, l) /\ prev_[splice[t]][l] # UninitPrev =>
                link[prev_[splice[t]][l]][l] = next_[splice[t]][l]

\* A node about to be published has its own link set.
Prepared(t) ==
    \A l \in Levels :
        pc[t] = "publish" /\ level[t] = l => link[x[t]][l] = next_[splice[t]][l]

\* What Links says of one thread.
ThreadLinks(t) == CursorOnLevel(t) /\ Placed(t) /\ Tight(t) /\ Prepared(t)

Links ==
    /\ Nested
    /\ Pointed
    /\ SplicesOnLevel
    /\ \A t \in Threads : ThreadLinks(t)

LEMMA SameLinks ==
  ASSUME UNCHANGED link
  PROVE  \A l \in Levels : Linked(l)' = Linked(l) /\ OnLevel(l)' = OnLevel(l)
BY DEF Linked, OnLevel

\* A link leads to a node of its level.
LEMMA LinkOnLevel ==
  ASSUME Shape, NEW l \in Levels, NEW n \in Nodes \cup {Head}
  PROVE  link[n][l] \in Linked(l) \cup {Null}
BY DEF Linked

LEMMA OneLevelDown ==
  ASSUME Links, NEW l \in Levels, NEW k \in 0 .. l, NEW n \in OnLevel(l)
  PROVE  n \in OnLevel(k)
BY DEF Links, Nested, OnLevel

\* What a step of another thread leaves alone.
SameCall(u) ==
    /\ pc'[u] = pc[u] /\ x'[u] = x[u] /\ splice'[u] = splice[u] /\ cas'[u] = cas[u]
    /\ level'[u] = level[u] /\ recompute'[u] = recompute[u] /\ before'[u] = before[u]
    /\ ret'[u] = ret[u]
    /\ Inserting(u) => /\ height'[x[u]] = height[x[u]]
                       /\ prev_'[splice[u]] = prev_[splice[u]]
                       /\ next_'[splice[u]] = next_[splice[u]]

LEMMA OthersKept ==
  ASSUME Shape, Links, NEW u \in Threads, SameCall(u), UNCHANGED link
  PROVE  ThreadLinks(u)'
<1> USE SameLinks DEF SameCall, Inserting
<1>1. Placed(u)'
  BY DEF Links, ThreadLinks, Placed
<1>2. Tight(u)'
  BY DEF Links, ThreadLinks, Tight, Settled
<1>3. Prepared(u)'
  <2>1. SUFFICES ASSUME NEW l \in Levels, pc'[u] = "publish", level'[u] = l
                 PROVE  link[x'[u]][l] = next_'[splice'[u]][l]
    BY DEF Prepared
  <2>2. Inserting(u)
    BY <2>1, Inside
  <2> QED BY <2>1, <2>2 DEF Links, ThreadLinks, Prepared
<1>4. CursorOnLevel(u)'
  BY DEF Links, ThreadLinks, CursorOnLevel
<1> QED BY <1>1, <1>2, <1>3, <1>4 DEF ThreadLinks

\* A step that sets no link.
LEMMA LinksKept ==
  ASSUME Shape, Links, UNCHANGED link, max_height_ <= max_height_',
         max_height_' \in Nat,
         \A n \in Nodes : height[n] > 0 => height'[n] = height[n],
         NEW t \in Threads, \A u \in Threads : u # t => SameCall(u),
         SplicesOnLevel', ThreadLinks(t)'
  PROVE  Links'
<1> USE SameLinks
<1>1. Nested'
  <2> SUFFICES ASSUME NEW l \in Levels, NEW n \in Linked(l)
               PROVE  height'[n] > l /\ max_height_' > l /\ \A k \in 0 .. l : n \in Linked(k)'
    BY DEF Nested
  <2>1. n \in Nodes /\ height[n] \in 0 .. kMaxHeight
    BY DEF Shape, TypeOK, Linked
  <2>2. height[n] > l /\ max_height_ > l /\ \A k \in 0 .. l : n \in Linked(k)
    BY DEF Links, Nested
  <2>3. l \in 0 .. kMaxHeight - 1 /\ max_height_ \in 1 .. kMaxHeight
    BY DEF Levels, Shape, TypeOK
  <2>4. \A k \in 0 .. l : n \in Linked(k)'
    BY <2>2, <2>3, HeightAssumption DEF Levels
  <2> QED BY <2>1, <2>2, <2>3, <2>4, HeightAssumption
<1>2. Pointed'
  BY DEF Links, Pointed
<1>3. \A u \in Threads : ThreadLinks(u)'
  BY OthersKept
<1> QED BY <1>1, <1>2, <1>3 DEF Links, ThreadLinks

-----------------------------------------------------------------------------
(* Every step preserves Links                                              *)

\* A thread that is idle or reading inserts nothing.
LEMMA Reading ==
  ASSUME Shape, NEW t \in Threads, pc[t] \in {"idle", "seek"}
  PROVE  ~Inserting(t)
BY DEF Shape, CallShape, CallOK

\* Before its link loop an insert has linked nothing.
LEMMA NotPlaced ==
  ASSUME Shape, Links, NEW t \in Threads, pc[t] \in {"raise", "open", "check", "find"}
  PROVE  \A l \in Levels : x[t] \notin Linked(l)
BY Inside DEF Links, ThreadLinks, Placed

\* ... nor has it when it enters the loop.
LEMMA NotPlacedYet ==
  ASSUME Shape, Links, UNCHANGED link, NEW t \in Threads,
         pc[t] \in {"raise", "open", "check", "find"}, x'[t] = x[t],
         pc'[t] \in {"raise", "open", "check", "find"} \/ (pc'[t] = "link" /\ level'[t] = 0)
  PROVE  Placed(t)'
<1>1. \A l \in Levels : x'[t] \notin Linked(l)'
  BY NotPlaced, SameLinks
<1> QED BY <1>1, HeightAssumption DEF Placed, Levels

\* A search stands on a node of its level, and so is the node it looks at.
LEMMA StandsOn ==
  ASSUME Shape, Links, NEW t \in Threads, pc[t] \in Cursors
  PROVE  /\ level[t] \in Levels /\ level[t] \in SpliceLevels /\ level[t] \in Nat
         /\ before[t] \in OnLevel(level[t])
         /\ link[before[t]][level[t]] \in Linked(level[t]) \cup {Null}
<1>1. level[t] \in Levels /\ before[t] \in Nodes \cup {Head}
  BY DEF Shape, TypeOK
<1>2. before[t] \in OnLevel(level[t])
  BY <1>1 DEF Links, ThreadLinks, CursorOnLevel
<1> QED BY <1>1, <1>2, LinkOnLevel, HeightAssumption DEF Levels, SpliceLevels

\* A step that moves the search of t to a node of its new level.
LEMMA CursorAt ==
  ASSUME UNCHANGED link, NEW t \in Threads, NEW l \in Levels, level'[t] = l,
         before'[t] \in OnLevel(l)
  PROVE  CursorOnLevel(t)'
BY SameLinks DEF CursorOnLevel

\* An insert writes level i of its own splice.
LEMMA EntryStored ==
  ASSUME Shape, Links, UNCHANGED link, NEW t \in Threads, Inserting(t),
         NEW i \in SpliceLevels, NEW p, NEW n,
         prev_' = [prev_ EXCEPT ![splice[t]][i] = p],
         next_' = [next_ EXCEPT ![splice[t]][i] = n],
         i \in Levels => p \in OnLevel(i) /\ n \in Linked(i) \cup {Null}
  PROVE  /\ SplicesOnLevel'
         /\ prev_'[splice[t]][i] = p /\ next_'[splice[t]][i] = n
         /\ \A l \in SpliceLevels : l # i => /\ prev_'[splice[t]][l] = prev_[splice[t]][l]
                                             /\ next_'[splice[t]][l] = next_[splice[t]][l]
         /\ \A u \in Threads : u # t /\ Inserting(u) =>
                /\ prev_'[splice[u]] = prev_[splice[u]]
                /\ next_'[splice[u]] = next_[splice[u]]
<1>1. splice[t] \in Splices
  BY DEF Shape, TypeOK, Inserting
<1>2. /\ prev_'[splice[t]][i] = p /\ next_'[splice[t]][i] = n
      /\ \A l \in SpliceLevels : l # i => /\ prev_'[splice[t]][l] = prev_[splice[t]][l]
                                          /\ next_'[splice[t]][l] = next_[splice[t]][l]
      /\ \A q \in Splices : q # splice[t] => prev_'[q] = prev_[q] /\ next_'[q] = next_[q]
  BY <1>1 DEF Shape, TypeOK
<1>3. SplicesOnLevel'
  <2>1. SUFFICES ASSUME NEW q \in Splices, NEW l \in Levels
        PROVE  /\ prev_'[q][l] # UninitPrev => prev_'[q][l] \in OnLevel(l)
               /\ next_'[q][l] # UninitNext => next_'[q][l] \in Linked(l) \cup {Null}
    BY SameLinks DEF SplicesOnLevel, UninitPrev, UninitNext
  <2>2. l \in SpliceLevels
    BY HeightAssumption DEF Levels, SpliceLevels
  <2> QED BY <1>2, <2>2 DEF Links, SplicesOnLevel
<1>4. \A u \in Threads : u # t /\ Inserting(u) =>
         /\ prev_'[splice[u]] = prev_[splice[u]]
         /\ next_'[splice[u]] = next_[splice[u]]
  <2>1. \A u \in Threads : u # t /\ Inserting(u) =>
           splice[u] \in Splices /\ splice[u] # splice[t]
    BY DEF Shape, TypeOK, Exclusive, Inserting
  <2> QED BY <1>2, <2>1
<1> QED BY <1>2, <1>3, <1>4

\* The entry a lost race goes on from.
LEMMA RefindFrom ==
  ASSUME Shape, Links, NEW t \in Threads, pc[t] \in {"link", "publish"}
  PROVE  level[t] \in Levels /\ Prev(t) \in OnLevel(level[t])
<1>1. level[t] \in Levels /\ Prev(t) \in Nodes \cup {Head} /\ splice[t] \in Splices
  BY Linking, Inside
<1>2. Prev(t) # UninitPrev
  BY <1>1, NodesAssumption DEF UninitPrev
<1> QED BY <1>1, <1>2 DEF Links, SplicesOnLevel, Prev

LEMMA ContainsCallLinks ==
  ASSUME Shape, Shape', Links, NEW t \in Threads, NEW k \in Keys, ContainsCall(t, k)
  PROVE  Links'
<1> USE DEF ContainsCall, list, splices, call, search, Inserting
<1>a. ~Inserting(t)
  BY Reading
<1>1. SplicesOnLevel'
  BY SameLinks DEF Links, SplicesOnLevel
<1>2. CursorOnLevel(t)'
  BY DEF Shape, CallShape, CallOK, OnLevel, CursorOnLevel, TypeOK
<1>3. Placed(t)'
  BY <1>a DEF Placed, Shape, TypeOK
<1>4. Tight(t)'
  BY <1>a DEF Shape, TypeOK, CallShape, CallOK, Tight
<1>5. Prepared(t)'
  BY DEF Links, ThreadLinks, Prepared, Shape, TypeOK
<1>6. \A u \in Threads : u # t => SameCall(u)
  BY DEF SameCall, Shape, TypeOK
<1>7. /\ max_height_ <= max_height_' /\ max_height_' \in Nat
      /\ \A n \in Nodes : height[n] > 0 => height'[n] = height[n]
  BY DEF Shape, TypeOK
<1> QED BY <1>1, <1>2, <1>3, <1>4, <1>5, <1>6, <1>7, LinksKept DEF ThreadLinks

LEMMA InsertCallLinks ==
  ASSUME Shape, Shape', Links, NEW t \in Threads, NEW n \in Nodes,
         NEW h \in 1 .. kMaxHeight, NEW s \in Splices, NEW c, NEW f, InsertCall(t, n, h, s, c, f)
  PROVE  Links'
<1> USE DEF InsertCall, list, splices, call, search, Inserting
<1>a. ~Inserting(t)
  BY Reading
<1>1. SplicesOnLevel'
  BY SameLinks DEF Links, SplicesOnLevel
<1>2. CursorOnLevel(t)'
  BY SameLinks DEF Links, ThreadLinks, CursorOnLevel, Shape, TypeOK, Cursors
<1>3. Placed(t)'
  <2>1. \A l \in Levels : n \notin Linked(l)
    BY DEF Links, Nested, Levels
  <2>2. x'[t] = n /\ pc'[t] \in {"raise", "open"}
    BY DEF Shape, TypeOK
  <2> QED BY <2>1, <2>2, SameLinks DEF Placed
<1>4. Tight(t)'
  BY SameLinks DEF Links, ThreadLinks, Tight, Settled, Shape, TypeOK
<1>5. Prepared(t)'
  BY DEF Links, ThreadLinks, Prepared, Shape, TypeOK
<1>6. \A u \in Threads : u # t => SameCall(u)
  <2>1. \A u \in Threads : Inserting(u) => x[u] \in Nodes /\ height[x[u]] > 0
    BY DEF Shape, CallShape, CallOK
  <2>2. \A u \in Threads : Inserting(u) => height'[x[u]] = height[x[u]]
    BY <2>1 DEF Shape, TypeOK
  <2> QED BY <2>2 DEF SameCall, Shape, TypeOK
<1>7. /\ max_height_ <= max_height_' /\ max_height_' \in Nat
      /\ \A p \in Nodes : height[p] > 0 => height'[p] = height[p]
  BY DEF Shape, TypeOK
<1> QED BY <1>1, <1>2, <1>3, <1>4, <1>5, <1>6, <1>7, LinksKept DEF ThreadLinks

LEMMA SeekAdvanceLinks ==
  ASSUME Shape, Shape', Links, NEW t \in Threads, SeekAdvance(t)
  PROVE  Links'
<1> USE DEF SeekAdvance, list, splices, call, search, Inserting
<1>a. ~Inserting(t)
  BY Reading
<1>b. /\ level[t] \in Levels /\ level[t] \in SpliceLevels /\ level[t] \in Nat
      /\ before[t] \in OnLevel(level[t])
      /\ link[before[t]][level[t]] \in Linked(level[t]) \cup {Null}
  BY StandsOn DEF Cursors
<1>1. SplicesOnLevel'
  BY SameLinks DEF Links, SplicesOnLevel
<1>2. CursorOnLevel(t)'
  <2>1. level'[t] = level[t] /\ before'[t] = link[before[t]][level[t]]
    BY DEF Shape, TypeOK
  <2>2. link[before[t]][level[t]] # Null
    BY <1>b, NodesAssumption DEF SeekIsBigger
  <2> QED BY <1>b, <2>1, <2>2, CursorAt DEF OnLevel
<1>3. Placed(t)'
  BY <1>a DEF Placed, Shape, TypeOK
<1>4. Tight(t)'
  BY SameLinks DEF Links, ThreadLinks, Tight, Settled, Shape, TypeOK
<1>5. Prepared(t)'
  BY DEF Links, ThreadLinks, Prepared, Shape, TypeOK
<1>6. \A u \in Threads : u # t => SameCall(u)
  BY DEF SameCall, Shape, TypeOK
<1>7. /\ max_height_ <= max_height_' /\ max_height_' \in Nat
      /\ \A n \in Nodes : height[n] > 0 => height'[n] = height[n]
  BY DEF Shape, TypeOK
<1> QED BY <1>1, <1>2, <1>3, <1>4, <1>5, <1>6, <1>7, LinksKept DEF ThreadLinks

LEMMA SeekDescendLinks ==
  ASSUME Shape, Shape', Links, NEW t \in Threads, SeekDescend(t)
  PROVE  Links'
<1> USE DEF SeekDescend, list, splices, call, search, Inserting
<1>a. ~Inserting(t)
  BY Reading
<1>b. /\ level[t] \in Levels /\ level[t] \in SpliceLevels /\ level[t] \in Nat
      /\ before[t] \in OnLevel(level[t])
      /\ link[before[t]][level[t]] \in Linked(level[t]) \cup {Null}
  BY StandsOn DEF Cursors
<1>1. SplicesOnLevel'
  BY SameLinks DEF Links, SplicesOnLevel
<1>2. CursorOnLevel(t)'
  <2>1. CASE level[t] > 0
    <3>1. level[t] - 1 \in Levels /\ level[t] - 1 \in 0 .. level[t]
      BY <1>b, <2>1, HeightAssumption DEF Levels
    <3>2. before[t] \in OnLevel(level[t] - 1)
      BY <1>b, <3>1, OneLevelDown
    <3>3. level'[t] = level[t] - 1 /\ before'[t] = before[t]
      BY <2>1 DEF Shape, TypeOK
    <3> QED BY <3>1, <3>2, <3>3, CursorAt
  <2> QED BY <2>1
<1>3. Placed(t)'
  BY <1>a DEF Placed, Shape, TypeOK
<1>4. Tight(t)'
  BY SameLinks DEF Links, ThreadLinks, Tight, Settled, Shape, TypeOK
<1>5. Prepared(t)'
  BY DEF Links, ThreadLinks, Prepared, Shape, TypeOK
<1>6. \A u \in Threads : u # t => SameCall(u)
  BY DEF SameCall, Shape, TypeOK
<1>7. /\ max_height_ <= max_height_' /\ max_height_' \in Nat
      /\ \A n \in Nodes : height[n] > 0 => height'[n] = height[n]
  BY DEF Shape, TypeOK
<1> QED BY <1>1, <1>2, <1>3, <1>4, <1>5, <1>6, <1>7, LinksKept DEF ThreadLinks

LEMMA SeekReturnLinks ==
  ASSUME Shape, Shape', Links, NEW t \in Threads, SeekReturn(t)
  PROVE  Links'
<1> USE DEF SeekReturn, list, splices, call, search, Inserting
<1>a. ~Inserting(t)
  BY Reading
<1>1. SplicesOnLevel'
  BY SameLinks DEF Links, SplicesOnLevel
<1>2. CursorOnLevel(t)'
  BY SameLinks DEF Links, ThreadLinks, CursorOnLevel, Shape, TypeOK, Cursors
<1>3. Placed(t)'
  BY <1>a DEF Placed, Shape, TypeOK
<1>4. Tight(t)'
  BY SameLinks DEF Links, ThreadLinks, Tight, Settled, Shape, TypeOK
<1>5. Prepared(t)'
  BY DEF Links, ThreadLinks, Prepared, Shape, TypeOK
<1>6. \A u \in Threads : u # t => SameCall(u)
  BY DEF SameCall, Shape, TypeOK
<1>7. /\ max_height_ <= max_height_' /\ max_height_' \in Nat
      /\ \A n \in Nodes : height[n] > 0 => height'[n] = height[n]
  BY DEF Shape, TypeOK
<1> QED BY <1>1, <1>2, <1>3, <1>4, <1>5, <1>6, <1>7, LinksKept DEF ThreadLinks

LEMMA CASMaxHeightLinks ==
  ASSUME Shape, Shape', Links, NEW t \in Threads, CASMaxHeight(t)
  PROVE  Links'
<1> USE DEF CASMaxHeight, list, splices, call, search, Inserting
<1>a. Inserting(t) /\ splice[t] \in Splices
  BY Inside
<1>1. SplicesOnLevel'
  BY SameLinks DEF Links, SplicesOnLevel
<1>2. CursorOnLevel(t)'
  BY SameLinks DEF Links, ThreadLinks, CursorOnLevel, Shape, TypeOK, Cursors
<1>3. Placed(t)'
  <2>1. x'[t] = x[t] /\ pc[t] \in {"raise", "open", "check", "find"} /\ UNCHANGED link
    BY DEF Shape, TypeOK
  <2>2. pc'[t] \in {"raise", "open", "check", "find"} \/ (pc'[t] = "link" /\ level'[t] = 0)
    BY DEF Shape, TypeOK
  <2> QED BY <2>1, <2>2, NotPlacedYet
<1>4. Tight(t)'
  BY SameLinks DEF Links, ThreadLinks, Tight, Settled, Shape, TypeOK
<1>5. Prepared(t)'
  BY DEF Links, ThreadLinks, Prepared, Shape, TypeOK
<1>6. \A u \in Threads : u # t => SameCall(u)
  BY DEF SameCall, Shape, TypeOK
<1>7. /\ max_height_ <= max_height_' /\ max_height_' \in Nat
      /\ \A n \in Nodes : height[n] > 0 => height'[n] = height[n]
  BY Inside DEF Shape, TypeOK, CallShape, CallOK
<1> QED BY <1>1, <1>2, <1>3, <1>4, <1>5, <1>6, <1>7, LinksKept DEF ThreadLinks

LEMMA ReloadMaxHeightLinks ==
  ASSUME Shape, Shape', Links, NEW t \in Threads, ReloadMaxHeight(t)
  PROVE  Links'
<1> USE DEF ReloadMaxHeight, list, splices, call, search, Inserting
<1>a. Inserting(t) /\ splice[t] \in Splices
  BY Inside
<1>1. SplicesOnLevel'
  BY SameLinks DEF Links, SplicesOnLevel
<1>2. CursorOnLevel(t)'
  BY SameLinks DEF Links, ThreadLinks, CursorOnLevel, Shape, TypeOK, Cursors
<1>3. Placed(t)'
  <2>1. x'[t] = x[t] /\ pc[t] \in {"raise", "open", "check", "find"} /\ UNCHANGED link
    BY DEF Shape, TypeOK
  <2>2. pc'[t] \in {"raise", "open", "check", "find"} \/ (pc'[t] = "link" /\ level'[t] = 0)
    BY DEF Shape, TypeOK
  <2> QED BY <2>1, <2>2, NotPlacedYet
<1>4. Tight(t)'
  BY SameLinks DEF Links, ThreadLinks, Tight, Settled, Shape, TypeOK
<1>5. Prepared(t)'
  BY DEF Links, ThreadLinks, Prepared, Shape, TypeOK
<1>6. \A u \in Threads : u # t => SameCall(u)
  BY DEF SameCall, Shape, TypeOK
<1>7. /\ max_height_ <= max_height_' /\ max_height_' \in Nat
      /\ \A n \in Nodes : height[n] > 0 => height'[n] = height[n]
  BY DEF Shape, TypeOK
<1> QED BY <1>1, <1>2, <1>3, <1>4, <1>5, <1>6, <1>7, LinksKept DEF ThreadLinks

LEMMA ReuseSpliceLinks ==
  ASSUME Shape, Shape', Links, NEW t \in Threads, ReuseSplice(t)
  PROVE  Links'
<1> USE DEF ReuseSplice, list, splices, call, search, Inserting
<1>a. Inserting(t) /\ splice[t] \in Splices
  BY Inside
<1>1. SplicesOnLevel'
  BY SameLinks DEF Links, SplicesOnLevel
<1>2. CursorOnLevel(t)'
  BY SameLinks DEF Links, ThreadLinks, CursorOnLevel, Shape, TypeOK, Cursors
<1>3. Placed(t)'
  <2>1. x'[t] = x[t] /\ pc[t] \in {"raise", "open", "check", "find"} /\ UNCHANGED link
    BY DEF Shape, TypeOK
  <2>2. pc'[t] \in {"raise", "open", "check", "find"} \/ (pc'[t] = "link" /\ level'[t] = 0)
    BY DEF Shape, TypeOK
  <2> QED BY <2>1, <2>2, NotPlacedYet
<1>4. Tight(t)'
  BY SameLinks DEF Links, ThreadLinks, Tight, Settled, Shape, TypeOK
<1>5. Prepared(t)'
  BY DEF Links, ThreadLinks, Prepared, Shape, TypeOK
<1>6. \A u \in Threads : u # t => SameCall(u)
  BY DEF SameCall, Shape, TypeOK
<1>7. /\ max_height_ <= max_height_' /\ max_height_' \in Nat
      /\ \A n \in Nodes : height[n] > 0 => height'[n] = height[n]
  BY DEF Shape, TypeOK
<1> QED BY <1>1, <1>2, <1>3, <1>4, <1>5, <1>6, <1>7, LinksKept DEF ThreadLinks

LEMMA RecomputeLinks ==
  ASSUME Shape, Shape', Links, NEW t \in Threads, pc[t] = "check",
         NEW r \in 0 .. max_height[t], RecomputeSpliceLevels(t, r),
         UNCHANGED <<list, splices, call, valid, ret>>
  PROVE  Links'
<1> USE DEF RecomputeSpliceLevels, list, splices, call, search, Inserting
<1>a. /\ Inserting(t) /\ splice[t] \in Splices /\ max_height[t] \in 1 .. kMaxHeight
      /\ height_[splice[t]] \in 0 .. max_height[t] /\ max_height[t] = height_[splice[t]]
  <2>1. /\ Inserting(t) /\ splice[t] \in Splices /\ max_height[t] \in 1 .. kMaxHeight
        /\ height_[splice[t]] \in 0 .. max_height[t]
    BY Inside
  <2> QED BY <2>1 DEF Shape, CallShape, CallOK
<1>1. SplicesOnLevel'
  BY SameLinks DEF Links, SplicesOnLevel
<1>2. CursorOnLevel(t)'
  <2>1. CASE r = 0
    <3>1. pc'[t] = "link"
      BY <2>1 DEF Shape, TypeOK
    <3> QED BY <3>1 DEF CursorOnLevel, Cursors
  <2>2. CASE r > 0
    <3>1. /\ r - 1 \in Levels /\ r \in SpliceLevels
          /\ level'[t] = r - 1 /\ before'[t] = prev_[splice[t]][r]
      BY <2>2, <1>a, HeightAssumption DEF Shape, TypeOK, Levels, SpliceLevels
    <3>2. CASE r = max_height[t]
      <4>1. prev_[splice[t]][r] = Head
        BY <1>a, <3>2 DEF Shape, SpliceShape
      <4> QED BY <3>1, <4>1, CursorAt DEF OnLevel
    <3>3. CASE r < max_height[t]
      <4>1. r \in Levels /\ r - 1 \in 0 .. r
        BY <1>a, <2>2, <3>3, HeightAssumption DEF Levels
      <4>2. prev_[splice[t]][r] \in Nodes \cup {Head}
        BY <1>a, <3>1, <2>2, OwnWritten
      <4>3. prev_[splice[t]][r] # UninitPrev
        BY <4>2, NodesAssumption DEF UninitPrev
      <4>4. prev_[splice[t]][r] \in OnLevel(r)
        BY <1>a, <4>1, <4>3 DEF Links, SplicesOnLevel
      <4>5. prev_[splice[t]][r] \in OnLevel(r - 1)
        BY <4>1, <4>4, OneLevelDown
      <4> QED BY <3>1, <4>5, CursorAt
    <3> QED BY <1>a, <3>2, <3>3
  <2> QED BY <1>a, <2>1, <2>2
<1>3. Placed(t)'
  <2>1. x'[t] = x[t] /\ pc[t] \in {"raise", "open", "check", "find"} /\ UNCHANGED link
    BY DEF Shape, TypeOK
  <2>2. pc'[t] \in {"raise", "open", "check", "find"} \/ (pc'[t] = "link" /\ level'[t] = 0)
    BY DEF Shape, TypeOK
  <2> QED BY <2>1, <2>2, NotPlacedYet
<1>4. Tight(t)'
  <2>1. recompute'[t] = r /\ \/ r = 0 /\ pc'[t] = "link" /\ level'[t] = 0
                             \/ r > 0 /\ pc'[t] = "find" /\ level'[t] = r - 1
    BY DEF Shape, TypeOK
  <2>2. \A l \in Levels : ~Settled(t, l)'
    BY <1>a, <2>1 DEF Settled, Levels
  <2> QED BY <2>2 DEF Tight
<1>5. Prepared(t)'
  BY DEF Prepared, Shape, TypeOK
<1>6. \A u \in Threads : u # t => SameCall(u)
  BY DEF SameCall, Shape, TypeOK
<1>7. /\ max_height_ <= max_height_' /\ max_height_' \in Nat
      /\ \A n \in Nodes : height[n] > 0 => height'[n] = height[n]
  BY DEF Shape, TypeOK
<1> QED BY <1>1, <1>2, <1>3, <1>4, <1>5, <1>6, <1>7, LinksKept DEF ThreadLinks

LEMMA CheckFromLinks ==
  ASSUME Shape, Shape', Links, NEW t \in Threads, pc[t] = "check",
         NEW r \in 0 .. max_height[t], CheckFrom(t, r),
         UNCHANGED <<list, splices, call, valid, ret>>
  PROVE  Links'
<1>1. CASE RecomputeSpliceLevels(t, r)
  BY <1>1, RecomputeLinks
<1>2. CASE /\ recompute' = [recompute EXCEPT ![t] = r]
           /\ UNCHANGED <<pc, level, before, after>>
  <2> USE <1>2 DEF list, splices, call, Inserting
  <2>1. SplicesOnLevel'
    BY SameLinks DEF Links, SplicesOnLevel
  <2>2. CursorOnLevel(t)'
    BY DEF CursorOnLevel, Cursors
  <2>3. Placed(t)'
    <3>1. x'[t] = x[t] /\ pc'[t] \in {"raise", "open", "check", "find"} /\ UNCHANGED link
      OBVIOUS
    <3> QED BY <3>1, NotPlacedYet
  <2>4. Tight(t)' /\ Prepared(t)'
    BY DEF Tight, Settled, Prepared
  <2>5. \A u \in Threads : u # t => SameCall(u)
    BY DEF SameCall, Shape, TypeOK
  <2>6. max_height_ <= max_height_ /\ max_height_ \in Nat
    BY DEF Shape, TypeOK
  <2> QED BY <2>1, <2>2, <2>3, <2>4, <2>5, <2>6, LinksKept DEF ThreadLinks
<1> QED BY <1>1, <1>2 DEF CheckFrom

LEMMA CheckSpliceLinks ==
  ASSUME Shape, Shape', Links, NEW t \in Threads, CheckSplice(t)
  PROVE  Links'
BY CheckSpliceSteps, CheckFromLinks, RecomputeLinks

LEMMA FindAdvanceLinks ==
  ASSUME Shape, Shape', Links, NEW t \in Threads, FindAdvance(t)
  PROVE  Links'
<1> USE DEF FindAdvance, list, splices, call, search, Inserting
<1>a. Inserting(t) /\ splice[t] \in Splices
  BY Inside
<1>b. /\ level[t] \in Levels /\ level[t] \in SpliceLevels /\ level[t] \in Nat
      /\ before[t] \in OnLevel(level[t])
      /\ link[before[t]][level[t]] \in Linked(level[t]) \cup {Null}
  BY StandsOn DEF Cursors
<1>1. SplicesOnLevel'
  BY SameLinks DEF Links, SplicesOnLevel
<1>2. CursorOnLevel(t)'
  <2>1. level'[t] = level[t] /\ before'[t] = link[before[t]][level[t]]
    BY DEF Shape, TypeOK
  <2>2. link[before[t]][level[t]] # Null
    BY <1>b DEF KeyIsAfterNode
  <2> QED BY <1>b, <2>1, <2>2, CursorAt DEF OnLevel
<1>3. Placed(t)'
  BY SameLinks DEF Links, ThreadLinks, Placed, Shape, TypeOK
<1>4. Tight(t)'
  BY SameLinks DEF Links, ThreadLinks, Tight, Settled, Shape, TypeOK
<1>5. Prepared(t)'
  BY DEF Links, ThreadLinks, Prepared, Shape, TypeOK
<1>6. \A u \in Threads : u # t => SameCall(u)
  BY DEF SameCall, Shape, TypeOK
<1>7. /\ max_height_ <= max_height_' /\ max_height_' \in Nat
      /\ \A n \in Nodes : height[n] > 0 => height'[n] = height[n]
  BY DEF Shape, TypeOK
<1> QED BY <1>1, <1>2, <1>3, <1>4, <1>5, <1>6, <1>7, LinksKept DEF ThreadLinks

LEMMA LinkStaleLinks ==
  ASSUME Shape, Shape', Links, NEW t \in Threads, LinkStale(t)
  PROVE  Links'
<1> USE DEF LinkStale, list, splices, call, search, Inserting, Refind
<1>a. Inserting(t) /\ splice[t] \in Splices
  BY Inside
<1>1. SplicesOnLevel'
  BY SameLinks DEF Links, SplicesOnLevel
<1>2. CursorOnLevel(t)'
  <2>1. level[t] \in Levels /\ Prev(t) \in OnLevel(level[t])
    BY RefindFrom
  <2>2. level'[t] = level[t] /\ before'[t] = Prev(t)
    BY DEF Shape, TypeOK, Prev
  <2> QED BY <2>1, <2>2, CursorAt
<1>3. Placed(t)'
  BY SameLinks DEF Links, ThreadLinks, Placed, Shape, TypeOK
<1>4. Tight(t)'
  BY SameLinks DEF Links, ThreadLinks, Tight, Settled, Shape, TypeOK
<1>5. Prepared(t)'
  BY DEF Links, ThreadLinks, Prepared, Shape, TypeOK
<1>6. \A u \in Threads : u # t => SameCall(u)
  BY DEF SameCall, Shape, TypeOK
<1>7. /\ max_height_ <= max_height_' /\ max_height_' \in Nat
      /\ \A n \in Nodes : height[n] > 0 => height'[n] = height[n]
  BY DEF Shape, TypeOK
<1> QED BY <1>1, <1>2, <1>3, <1>4, <1>5, <1>6, <1>7, LinksKept DEF ThreadLinks

LEMMA LinkDuplicateLinks ==
  ASSUME Shape, Shape', Links, NEW t \in Threads, LinkDuplicate(t)
  PROVE  Links'
<1> USE DEF LinkDuplicate, list, splices, call, search, Inserting
<1>a. Inserting(t) /\ splice[t] \in Splices
  BY Inside
<1>1. SplicesOnLevel'
  BY SameLinks DEF Links, SplicesOnLevel
<1>2. CursorOnLevel(t)'
  BY SameLinks DEF Links, ThreadLinks, CursorOnLevel, Shape, TypeOK, Cursors
<1>3. Placed(t)'
  <2>1. level[t] = 0 /\ x[t] \notin Linked(0) /\ 0 \in Levels
    BY <1>a, HeightAssumption DEF IsDuplicate, Links, ThreadLinks, Placed, Levels
  <2>2. \A l \in Levels : x[t] \notin Linked(l)
    BY <1>a, <2>1 DEF Links, ThreadLinks, Placed, Levels
  <2>3. x'[t] = x[t] /\ pc'[t] = "ret" /\ ret'[t] = FALSE
    BY DEF Shape, TypeOK
  <2> QED BY <2>2, <2>3, SameLinks DEF Placed
<1>4. Tight(t)'
  BY SameLinks DEF Links, ThreadLinks, Tight, Settled, Shape, TypeOK
<1>5. Prepared(t)'
  BY DEF Links, ThreadLinks, Prepared, Shape, TypeOK
<1>6. \A u \in Threads : u # t => SameCall(u)
  BY DEF SameCall, Shape, TypeOK
<1>7. /\ max_height_ <= max_height_' /\ max_height_' \in Nat
      /\ \A n \in Nodes : height[n] > 0 => height'[n] = height[n]
  BY DEF Shape, TypeOK
<1> QED BY <1>1, <1>2, <1>3, <1>4, <1>5, <1>6, <1>7, LinksKept DEF ThreadLinks

LEMMA CASFailedLinks ==
  ASSUME Shape, Shape', Links, NEW t \in Threads, CASFailed(t)
  PROVE  Links'
<1> USE DEF CASFailed, list, splices, call, search, Inserting, Refind
<1>a. Inserting(t) /\ splice[t] \in Splices
  BY Inside
<1>1. SplicesOnLevel'
  BY SameLinks DEF Links, SplicesOnLevel
<1>2. CursorOnLevel(t)'
  <2>1. level[t] \in Levels /\ Prev(t) \in OnLevel(level[t])
    BY RefindFrom
  <2>2. level'[t] = level[t] /\ before'[t] = Prev(t)
    BY DEF Shape, TypeOK, Prev
  <2> QED BY <2>1, <2>2, CursorAt
<1>3. Placed(t)'
  BY SameLinks DEF Links, ThreadLinks, Placed, Shape, TypeOK
<1>4. Tight(t)'
  BY SameLinks DEF Links, ThreadLinks, Tight, Settled, Shape, TypeOK
<1>5. Prepared(t)'
  BY DEF Links, ThreadLinks, Prepared, Shape, TypeOK
<1>6. \A u \in Threads : u # t => SameCall(u)
  BY DEF SameCall, Shape, TypeOK
<1>7. /\ max_height_ <= max_height_' /\ max_height_' \in Nat
      /\ \A n \in Nodes : height[n] > 0 => height'[n] = height[n]
  BY DEF Shape, TypeOK
<1> QED BY <1>1, <1>2, <1>3, <1>4, <1>5, <1>6, <1>7, LinksKept DEF ThreadLinks

LEMMA OpenSpliceLinks ==
  ASSUME Shape, Shape', Links, NEW t \in Threads, OpenSplice(t)
  PROVE  Links'
<1> USE DEF OpenSplice, list, splices, call, search, Inserting
<1>a. Inserting(t) /\ splice[t] \in Splices
  BY Inside
<1>c. /\ SplicesOnLevel'
      /\ prev_'[splice[t]][max_height[t]] = Head /\ next_'[splice[t]][max_height[t]] = Null
      /\ \A l \in SpliceLevels : l # max_height[t] => /\ prev_'[splice[t]][l] = prev_[splice[t]][l]
                                          /\ next_'[splice[t]][l] = next_[splice[t]][l]
      /\ \A u \in Threads : u # t /\ Inserting(u) =>
             /\ prev_'[splice[u]] = prev_[splice[u]]
             /\ next_'[splice[u]] = next_[splice[u]]
  <2>1. max_height[t] \in SpliceLevels
    BY Inside, HeightAssumption DEF SpliceLevels
  <2> QED BY <1>a, <2>1, EntryStored DEF OnLevel
<1>1. SplicesOnLevel'
  BY <1>c
<1>2. CursorOnLevel(t)'
  <2>1. max_height[t] - 1 \in Levels
    BY Inside, HeightAssumption DEF Levels
  <2>2. level'[t] = max_height[t] - 1 /\ before'[t] = Head
    BY <2>1 DEF Shape, TypeOK
  <2> QED BY <2>1, <2>2, CursorAt DEF OnLevel
<1>3. Placed(t)'
  <2>1. x'[t] = x[t] /\ pc[t] \in {"raise", "open", "check", "find"} /\ UNCHANGED link
    BY DEF Shape, TypeOK
  <2>2. pc'[t] \in {"raise", "open", "check", "find"} \/ (pc'[t] = "link" /\ level'[t] = 0)
    BY DEF Shape, TypeOK
  <2> QED BY <2>1, <2>2, NotPlacedYet
<1>4. Tight(t)'
  <2>1. recompute'[t] = max_height[t] /\ pc'[t] = "find" /\ level'[t] = max_height[t] - 1
    BY DEF Shape, TypeOK
  <2>2. \A l \in Levels : ~Settled(t, l)'
    BY <2>1, Inside DEF Settled, Levels
  <2> QED BY <2>2 DEF Tight
<1>5. Prepared(t)'
  BY DEF Links, ThreadLinks, Prepared, Shape, TypeOK
<1>6. \A u \in Threads : u # t => SameCall(u)
  <2>1. \A u \in Threads : u # t =>
           /\ pc'[u] = pc[u] /\ level'[u] = level[u] /\ recompute'[u] = recompute[u]
           /\ before'[u] = before[u]
    BY DEF Shape, TypeOK
  <2> QED BY <1>c, <2>1 DEF SameCall
<1>7. /\ max_height_ <= max_height_' /\ max_height_' \in Nat
      /\ \A n \in Nodes : height[n] > 0 => height'[n] = height[n]
  BY DEF Shape, TypeOK
<1> QED BY <1>1, <1>2, <1>3, <1>4, <1>5, <1>6, <1>7, LinksKept DEF ThreadLinks

LEMMA FindDescendLinks ==
  ASSUME Shape, Shape', Links, NEW t \in Threads, FindDescend(t)
  PROVE  Links'
<1> USE DEF FindDescend, list, splices, call, search, Inserting, FoundSplice
<1>a. Inserting(t) /\ splice[t] \in Splices
  BY Inside
<1>b. /\ level[t] \in Levels /\ level[t] \in SpliceLevels /\ level[t] \in Nat
      /\ before[t] \in OnLevel(level[t])
      /\ link[before[t]][level[t]] \in Linked(level[t]) \cup {Null}
  BY StandsOn DEF Cursors
<1>c. /\ SplicesOnLevel'
      /\ prev_'[splice[t]][level[t]] = before[t] /\ next_'[splice[t]][level[t]] = link[before[t]][level[t]]
      /\ \A l \in SpliceLevels : l # level[t] => /\ prev_'[splice[t]][l] = prev_[splice[t]][l]
                                          /\ next_'[splice[t]][l] = next_[splice[t]][l]
      /\ \A u \in Threads : u # t /\ Inserting(u) =>
             /\ prev_'[splice[u]] = prev_[splice[u]]
             /\ next_'[splice[u]] = next_[splice[u]]
  BY <1>a, <1>b, EntryStored
<1>1. SplicesOnLevel'
  BY <1>c
<1>2. CursorOnLevel(t)'
  <2>1. CASE level[t] > 0
    <3>1. level[t] - 1 \in Levels /\ level[t] - 1 \in 0 .. level[t]
      BY <1>b, <2>1, HeightAssumption DEF Levels
    <3>2. before[t] \in OnLevel(level[t] - 1)
      BY <1>b, <3>1, OneLevelDown
    <3>3. level'[t] = level[t] - 1 /\ before'[t] = before[t]
      BY <2>1 DEF Shape, TypeOK
    <3> QED BY <3>1, <3>2, <3>3, CursorAt
  <2>2. CASE level[t] = 0
    <3>1. pc'[t] = "link"
      BY <2>2 DEF Shape, TypeOK
    <3> QED BY <3>1 DEF CursorOnLevel, Cursors
  <2> QED BY <1>b, <2>1, <2>2
<1>3. Placed(t)'
  <2>1. x'[t] = x[t] /\ pc[t] \in {"raise", "open", "check", "find"} /\ UNCHANGED link
    BY DEF Shape, TypeOK
  <2>2. pc'[t] \in {"raise", "open", "check", "find"} \/ (pc'[t] = "link" /\ level'[t] = 0)
    BY DEF Shape, TypeOK
  <2> QED BY <2>1, <2>2, NotPlacedYet
<1>4. Tight(t)'
  <2>1. SUFFICES ASSUME ~cas[t], NEW l \in Levels, Settled(t, l)',
                        prev_'[splice[t]][l] # UninitPrev
        PROVE  link[prev_'[splice[t]][l]][l] = next_'[splice[t]][l]
    BY DEF Tight, UninitPrev
  <2>2. l \in SpliceLevels /\ l \in Nat
    BY HeightAssumption DEF Levels, SpliceLevels
  <2>3. CASE l = level[t]
    BY <1>c, <2>3
  <2>4. CASE l # level[t]
    <3>1. Settled(t, l)
      <4>1. pc[t] = "find" /\ recompute'[t] = recompute[t]
        BY DEF Shape, TypeOK
      <4>2. \/ pc'[t] = "find" /\ level'[t] = level[t] - 1
            \/ pc'[t] = "link" /\ level'[t] = level[t] /\ level[t] = 0
        BY DEF Shape, TypeOK
      <4> QED BY <1>b, <2>1, <2>2, <2>4, <4>1, <4>2 DEF Settled
    <3>2. link[prev_[splice[t]][l]][l] = next_[splice[t]][l]
      BY <1>a, <1>c, <2>1, <2>2, <2>4, <3>1 DEF Links, ThreadLinks, Tight
    <3> QED BY <1>c, <2>2, <2>4, <3>2
  <2> QED BY <2>3, <2>4
<1>5. Prepared(t)'
  BY DEF Links, ThreadLinks, Prepared, Shape, TypeOK
<1>6. \A u \in Threads : u # t => SameCall(u)
  <2>1. \A u \in Threads : u # t =>
           /\ pc'[u] = pc[u] /\ level'[u] = level[u] /\ recompute'[u] = recompute[u]
           /\ before'[u] = before[u]
    BY DEF Shape, TypeOK
  <2> QED BY <1>c, <2>1 DEF SameCall
<1>7. /\ max_height_ <= max_height_' /\ max_height_' \in Nat
      /\ \A n \in Nodes : height[n] > 0 => height'[n] = height[n]
  BY DEF Shape, TypeOK
<1> QED BY <1>1, <1>2, <1>3, <1>4, <1>5, <1>6, <1>7, LinksKept DEF ThreadLinks

LEMMA RefoundLinks ==
  ASSUME Shape, Shape', Links, NEW t \in Threads, Refound(t)
  PROVE  Links'
<1> USE DEF Refound, list, splices, call, search, Inserting, FoundSplice
<1>a. Inserting(t) /\ splice[t] \in Splices
  BY Inside
<1>b. /\ level[t] \in Levels /\ level[t] \in SpliceLevels /\ level[t] \in Nat
      /\ before[t] \in OnLevel(level[t])
      /\ link[before[t]][level[t]] \in Linked(level[t]) \cup {Null}
  BY StandsOn DEF Cursors
<1>c. /\ SplicesOnLevel'
      /\ prev_'[splice[t]][level[t]] = before[t] /\ next_'[splice[t]][level[t]] = link[before[t]][level[t]]
      /\ \A l \in SpliceLevels : l # level[t] => /\ prev_'[splice[t]][l] = prev_[splice[t]][l]
                                          /\ next_'[splice[t]][l] = next_[splice[t]][l]
      /\ \A u \in Threads : u # t /\ Inserting(u) =>
             /\ prev_'[splice[u]] = prev_[splice[u]]
             /\ next_'[splice[u]] = next_[splice[u]]
  BY <1>a, <1>b, EntryStored
<1>1. SplicesOnLevel'
  BY <1>c
<1>2. CursorOnLevel(t)'
  BY SameLinks DEF Links, ThreadLinks, CursorOnLevel, Shape, TypeOK, Cursors
<1>3. Placed(t)'
  <2>1. pc'[t] = "link" /\ level'[t] = level[t] /\ x'[t] = x[t]
    BY DEF Shape, TypeOK
  <2> QED BY <1>a, <2>1, SameLinks DEF Links, ThreadLinks, Placed
<1>4. Tight(t)'
  <2>1. SUFFICES ASSUME ~cas[t], NEW l \in Levels, Settled(t, l)',
                        prev_'[splice[t]][l] # UninitPrev
        PROVE  link[prev_'[splice[t]][l]][l] = next_'[splice[t]][l]
    BY DEF Tight, UninitPrev
  <2>2. l \in SpliceLevels /\ l \in Nat
    BY HeightAssumption DEF Levels, SpliceLevels
  <2>3. CASE l = level[t]
    BY <1>c, <2>3
  <2>4. CASE l # level[t]
    <3>1. Settled(t, l)
      BY <1>b, <2>1, <2>2, <2>4 DEF Settled, Shape, TypeOK
    <3>2. link[prev_[splice[t]][l]][l] = next_[splice[t]][l]
      BY <1>a, <1>c, <2>1, <2>2, <2>4, <3>1 DEF Links, ThreadLinks, Tight
    <3> QED BY <1>c, <2>2, <2>4, <3>2
  <2> QED BY <2>3, <2>4
<1>5. Prepared(t)'
  BY DEF Links, ThreadLinks, Prepared, Shape, TypeOK
<1>6. \A u \in Threads : u # t => SameCall(u)
  BY <1>c DEF SameCall, Shape, TypeOK
<1>7. /\ max_height_ <= max_height_' /\ max_height_' \in Nat
      /\ \A n \in Nodes : height[n] > 0 => height'[n] = height[n]
  BY DEF Shape, TypeOK
<1> QED BY <1>1, <1>2, <1>3, <1>4, <1>5, <1>6, <1>7, LinksKept DEF ThreadLinks

LEMMA FinishInsertLinks ==
  ASSUME Shape, Shape', Links, NEW t \in Threads, FinishInsert(t)
  PROVE  Links'
<1> USE DEF FinishInsert, list, splices, call, search, Inserting
<1>a. Inserting(t) /\ splice[t] \in Splices
  BY Inside
<1>b. x[t] \in Nodes /\ \A l \in Levels : x[t] \in Linked(l) <=> l < height[x[t]]
  BY <1>a, Inside DEF Links, ThreadLinks, Placed
<1>c. /\ \A q \in Splices : q # splice[t] => prev_'[q] = prev_[q]
      /\ \A l \in SpliceLevels :
             \/ prev_'[splice[t]][l] = prev_[splice[t]][l]
             \/ l < height[x[t]] /\ prev_'[splice[t]][l] = x[t]
  BY <1>a DEF Shape, TypeOK
<1>1. SplicesOnLevel'
  <2>1. SUFFICES ASSUME NEW q \in Splices, NEW l \in Levels
        PROVE  prev_'[q][l] # UninitPrev => prev_'[q][l] \in OnLevel(l)
    BY SameLinks DEF SplicesOnLevel, UninitPrev, UninitNext, Links
  <2>2. l \in SpliceLevels
    BY HeightAssumption DEF Levels, SpliceLevels
  <2> QED BY <1>b, <1>c, <2>2 DEF Links, SplicesOnLevel, OnLevel
<1>2. CursorOnLevel(t)'
  BY SameLinks DEF Links, ThreadLinks, CursorOnLevel, Shape, TypeOK, Cursors
<1>3. Placed(t)'
  <2>1. x'[t] = x[t] /\ pc'[t] = "ret" /\ ret'[t] = TRUE
    BY DEF Shape, TypeOK
  <2> QED BY <1>b, <2>1, SameLinks DEF Placed
<1>4. Tight(t)'
  BY SameLinks DEF Links, ThreadLinks, Tight, Settled, Shape, TypeOK
<1>5. Prepared(t)'
  BY DEF Links, ThreadLinks, Prepared, Shape, TypeOK
<1>6. \A u \in Threads : u # t => SameCall(u)
  <2>1. \A u \in Threads : u # t /\ Inserting(u) =>
           splice[u] \in Splices /\ splice[u] # splice[t]
    BY <1>a DEF Shape, TypeOK, Exclusive
  <2> QED BY <1>c, <2>1 DEF SameCall, Shape, TypeOK
<1>7. /\ max_height_ <= max_height_' /\ max_height_' \in Nat
      /\ \A n \in Nodes : height[n] > 0 => height'[n] = height[n]
  BY DEF Shape, TypeOK
<1> QED BY <1>1, <1>2, <1>3, <1>4, <1>5, <1>6, <1>7, LinksKept DEF ThreadLinks

LEMMA ReturnLinks ==
  ASSUME Shape, Shape', Links, NEW t \in Threads, Return(t)
  PROVE  Links'
<1> USE DEF Return, list, splices, call, search, Inserting
<1>a. /\ t \in Splices
      /\ \A q \in Splices : q # t => prev_'[q] = prev_[q] /\ next_'[q] = next_[q]
      /\ \A l \in SpliceLevels : prev_'[t][l] = UninitPrev /\ next_'[t][l] = UninitNext
  BY DEF Shape, TypeOK, Splices
<1>1. SplicesOnLevel'
  <2>1. SUFFICES ASSUME NEW q \in Splices, NEW l \in Levels
        PROVE  /\ prev_'[q][l] # UninitPrev => prev_'[q][l] \in OnLevel(l)
               /\ next_'[q][l] # UninitNext => next_'[q][l] \in Linked(l) \cup {Null}
    BY SameLinks DEF SplicesOnLevel, UninitPrev, UninitNext
  <2>2. l \in SpliceLevels
    BY HeightAssumption DEF Levels, SpliceLevels
  <2> QED BY <1>a, <2>2 DEF Links, SplicesOnLevel
<1>2. CursorOnLevel(t)'
  BY SameLinks DEF Links, ThreadLinks, CursorOnLevel, Shape, TypeOK, Cursors
<1>3. Placed(t)'
  BY SameLinks DEF Links, ThreadLinks, Placed, Shape, TypeOK
<1>4. Tight(t)'
  BY SameLinks DEF Links, ThreadLinks, Tight, Settled, Shape, TypeOK
<1>5. Prepared(t)'
  BY DEF Links, ThreadLinks, Prepared, Shape, TypeOK
<1>6. \A u \in Threads : u # t => SameCall(u)
  <2>1. \A u \in Threads : u # t /\ Inserting(u) => splice[u] \in Splices /\ splice[u] # t
    BY DEF Shape, TypeOK, CallShape, CallOK
  <2> QED BY <1>a, <2>1 DEF SameCall, Shape, TypeOK
<1>7. /\ max_height_ <= max_height_' /\ max_height_' \in Nat
      /\ \A n \in Nodes : height[n] > 0 => height'[n] = height[n]
  BY DEF Shape, TypeOK
<1> QED BY <1>1, <1>2, <1>3, <1>4, <1>5, <1>6, <1>7, LinksKept DEF ThreadLinks

\* A step of t that sets a link: what the others rely on stays.
LEMMA OthersKeptBy ==
  ASSUME Shape, Links, NEW t \in Threads, NEW u \in Threads, u # t, Inserting(t), SameCall(u),
         \A l \in Levels : OnLevel(l) \subseteq OnLevel(l)',
         Inserting(u) => \A l \in Levels : x[u] \in Linked(l)' <=> x[u] \in Linked(l),
         pc[u] = "publish" => link'[x[u]][level[u]] = link[x[u]][level[u]]
  PROVE  ThreadLinks(u)'
<1> USE DEF SameCall, Inserting
<1>1. Placed(u)'
  BY DEF Links, ThreadLinks, Placed
<1>2. Tight(u)'
  BY DEF Tight, Shape, Exclusive
<1>3. Prepared(u)'
  <2>1. SUFFICES ASSUME NEW l \in Levels, pc'[u] = "publish", level'[u] = l
                 PROVE  link'[x'[u]][l] = next_'[splice'[u]][l]
    BY DEF Prepared
  <2>2. Inserting(u)
    BY <2>1, Inside
  <2>3. link[x[u]][l] = next_[splice[u]][l]
    BY <2>1, <2>2 DEF Links, ThreadLinks, Prepared
  <2>4. pc[u] = "publish" /\ level[u] = l /\ x'[u] = x[u] /\ splice'[u] = splice[u]
    BY <2>1, <2>2
  <2>5. next_'[splice[u]] = next_[splice[u]]
    BY <2>2
  <2> QED BY <2>3, <2>4, <2>5
<1>4. CursorOnLevel(u)'
  BY DEF Links, ThreadLinks, CursorOnLevel
<1> QED BY <1>1, <1>2, <1>3, <1>4 DEF ThreadLinks

\* Where an insert stands that is about to set a link.
LEMMA AboutToLink ==
  ASSUME Shape, Links, NEW t \in Threads, pc[t] \in {"link", "publish"}
  PROVE  /\ Inserting(t) /\ splice[t] \in Splices /\ x[t] \in Nodes /\ x[t] # Head
         /\ x[t] # Null /\ level[t] \in Levels /\ level[t] < height[x[t]]
         /\ height[x[t]] \in 1 .. kMaxHeight /\ height[x[t]] <= max_height_
         /\ Prev(t) \in Nodes \cup {Head} /\ Prev(t) \in OnLevel(level[t]) /\ Prev(t) # x[t]
         /\ Succ(t) \in Linked(level[t]) \cup {Null}
         /\ \A l \in Levels : x[t] \in Linked(l) <=> l < level[t]
<1>1. /\ Inserting(t) /\ splice[t] \in Splices /\ x[t] \in Nodes
      /\ height[x[t]] \in 1 .. kMaxHeight /\ max_height[t] \in 1 .. kMaxHeight
  BY Inside
<1>2. /\ level[t] \in Levels /\ Prev(t) \in Nodes \cup {Head} /\ Succ(t) \in Nodes \cup {Null}
  BY Linking
<1>3. Prev(t) \in OnLevel(level[t])
  BY RefindFrom
<1>4. Succ(t) # UninitNext
  BY <1>2, NodesAssumption DEF UninitNext
<1>5. Succ(t) \in Linked(level[t]) \cup {Null}
  BY <1>1, <1>2, <1>4 DEF Links, SplicesOnLevel, Succ
<1>6. \A l \in Levels : x[t] \in Linked(l) <=> l < level[t]
  BY <1>1 DEF Links, ThreadLinks, Placed
<1>7. x[t] # Head /\ x[t] # Null
  BY <1>1, NodesAssumption
<1>8. Prev(t) # x[t]
  BY <1>2, <1>3, <1>6, <1>7 DEF OnLevel, Levels
<1>9. level[t] < height[x[t]] /\ height[x[t]] <= max_height[t] /\ max_height[t] <= max_height_
  BY <1>1 DEF Shape, CallShape, CallOK
<1>10. max_height_ \in 1 .. kMaxHeight
  BY DEF Shape, TypeOK
<1> QED BY <1>1, <1>2, <1>3, <1>5, <1>6, <1>7, <1>8, <1>9, <1>10

\* The store of x[t]'s own link changes no level: x[t] is not on it yet.
LEMMA PrepareLinkStep ==
  ASSUME Shape, Links, NEW t \in Threads, PrepareLink(t)
  PROVE  /\ link'[x[t]][level[t]] = Succ(t)
         /\ \A n \in Nodes \cup {Head}, l \in Levels :
                n # x[t] \/ l # level[t] => link'[n][l] = link[n][l]
         /\ \A l \in Levels : Linked(l)' = Linked(l)
<1> USE DEF PrepareLink, splices, call, search, Inserting
<1> DEFINE lv == level[t]
<1>1. /\ x[t] \in Nodes /\ x[t] # Head /\ lv \in Levels
      /\ Succ(t) \in Linked(lv) \cup {Null}
      /\ \A l \in Levels : x[t] \in Linked(l) <=> l < lv
  BY AboutToLink
<1>2. x[t] \notin OnLevel(lv)
  BY <1>1 DEF OnLevel, Levels
<1>3. /\ link'[x[t]][lv] = Succ(t)
      /\ \A n \in Nodes \cup {Head}, l \in Levels :
             n # x[t] \/ l # lv => link'[n][l] = link[n][l]
  BY <1>1 DEF Shape, TypeOK
<1>4. \A l \in Levels : Linked(l)' = Linked(l)
  <2>1. SUFFICES ASSUME NEW l \in Levels PROVE Linked(l)' = Linked(l)
    OBVIOUS
  <2>2. CASE l # lv
    BY <1>3, <2>2 DEF Linked
  <2>3. CASE l = lv
    <3>1. Linked(l)' \subseteq Linked(l)
      BY <1>1, <1>3, <2>3 DEF Linked
    <3>2. ASSUME NEW m \in Linked(l) PROVE m \in Linked(l)'
      <4>1. PICK p \in OnLevel(l) : link[p][l] = m
        BY DEF Links, Pointed
      <4>2. p \in Nodes \cup {Head} /\ p # x[t] /\ m # Null
        BY <1>2, <2>3 DEF OnLevel, Linked, Shape, TypeOK
      <4> QED BY <1>3, <4>1, <4>2 DEF Linked
    <3> QED BY <3>1, <3>2
  <2> QED BY <2>2, <2>3
<1> QED BY <1>3, <1>4

LEMMA PrepareLinkLinks ==
  ASSUME Shape, Shape', Links, NEW t \in Threads, PrepareLink(t)
  PROVE  Links' /\ \A l \in Levels : Linked(l)' = Linked(l)
<1> USE DEF PrepareLink, splices, call, search, Inserting
<1> DEFINE lv == level[t]
<1>1. /\ Inserting(t) /\ splice[t] \in Splices /\ x[t] \in Nodes /\ x[t] # Head
      /\ lv \in Levels /\ Prev(t) # x[t]
      /\ Succ(t) \in Linked(lv) \cup {Null}
      /\ \A l \in Levels : x[t] \in Linked(l) <=> l < lv
  BY AboutToLink
<1>2. x[t] \notin OnLevel(lv)
  BY <1>1 DEF OnLevel, Levels
<1>3. /\ link'[x[t]][lv] = Succ(t)
      /\ \A n \in Nodes \cup {Head}, l \in Levels :
             n # x[t] \/ l # lv => link'[n][l] = link[n][l]
  BY PrepareLinkStep
<1>4. \A l \in Levels : Linked(l)' = Linked(l)
  BY PrepareLinkStep
<1>5. \A l \in Levels : OnLevel(l)' = OnLevel(l)
  BY <1>4 DEF OnLevel
<1>6. Nested'
  BY <1>4, HeightAssumption DEF Links, Nested, Levels
<1>7. Pointed'
  <2>1. SUFFICES ASSUME NEW l \in Levels, NEW m \in Linked(l)
        PROVE  \E p \in OnLevel(l) : link'[p][l] = m
    BY <1>4, <1>5 DEF Pointed
  <2>2. PICK p \in OnLevel(l) : link[p][l] = m
    BY DEF Links, Pointed
  <2>3. p \in Nodes \cup {Head}
    BY DEF OnLevel, Linked, Shape, TypeOK
  <2>4. p # x[t] \/ l # lv
    BY <1>2
  <2> QED BY <1>3, <2>2, <2>3, <2>4
<1>8. SplicesOnLevel'
  BY <1>4, <1>5 DEF Links, SplicesOnLevel
<1>9. ThreadLinks(t)'
  <2>1. /\ pc'[t] = "publish" /\ level'[t] = lv /\ x'[t] = x[t] /\ splice'[t] = splice[t]
        /\ cas'[t] = cas[t] /\ recompute'[t] = recompute[t]
    BY DEF Shape, TypeOK
  <2>2. CursorOnLevel(t)'
    BY <2>1 DEF CursorOnLevel, Cursors
  <2>3. Placed(t)'
    BY <1>1, <1>4, <2>1 DEF Placed
  <2>4. Prepared(t)'
    BY <1>3, <2>1 DEF Prepared, Succ
  <2>5. Tight(t)'
    <3>1. SUFFICES ASSUME ~cas[t], NEW l \in Levels, Settled(t, l)',
                          prev_[splice[t]][l] # UninitPrev
          PROVE  link'[prev_[splice[t]][l]][l] = next_[splice[t]][l]
      BY <2>1 DEF Tight, UninitPrev
    <3>2. lv \in Nat /\ l \in Nat /\ recompute[t] \in Nat
      BY <1>1 DEF Levels, Shape, TypeOK
    <3>3. link[prev_[splice[t]][l]][l] = next_[splice[t]][l]
      <4>1. CASE Settled(t, l)
        BY <1>1, <3>1, <4>1 DEF Links, ThreadLinks, Tight
      <4>2. CASE ~Settled(t, l)
        <5>1. l = lv /\ lv >= recompute[t]
          BY <2>1, <3>1, <3>2, <4>2 DEF Settled
        <5> QED BY <3>1, <5>1 DEF LinkIsStale, Prev, Succ
      <4> QED BY <4>1, <4>2
    <3>4. prev_[splice[t]][l] # x[t] \/ l # lv
      BY <1>1 DEF Prev
    <3>5. prev_[splice[t]][l] \in Nodes \cup {Head}
      <4>1. l \in SpliceLevels
        BY HeightAssumption DEF Levels, SpliceLevels
      <4> QED BY <1>1, <3>1, <4>1 DEF Shape, TypeOK, UninitPrev
    <3> QED BY <1>3, <3>3, <3>4, <3>5
  <2> QED BY <2>2, <2>3, <2>4, <2>5 DEF ThreadLinks
<1>10. ASSUME NEW u \in Threads, u # t PROVE ThreadLinks(u)'
  <2>1. SameCall(u)
    BY <1>10 DEF SameCall, Shape, TypeOK
  <2>2. pc[u] = "publish" => link'[x[u]][level[u]] = link[x[u]][level[u]]
    <3>1. pc[u] = "publish" => Inserting(u) /\ x[u] \in Nodes /\ level[u] \in Levels
      BY Inside DEF Shape, TypeOK
    <3>2. pc[u] = "publish" => x[u] # x[t]
      BY <1>1, <1>10, <3>1 DEF Shape, Exclusive
    <3> QED BY <1>3, <3>1, <3>2
  <2> QED BY <1>1, <1>4, <1>5, <1>10, <2>1, <2>2, OthersKeptBy
<1> QED BY <1>4, <1>6, <1>7, <1>8, <1>9, <1>10 DEF Links

\* The exchange, or the store of a sequential insert, puts x[t] between two
\* neighbours and leaves every node of the level pointed at.
LEMMA PublishLinkStep ==
  ASSUME Shape, Links, NEW t \in Threads, PublishLink(t),
         NEW lv \in Levels, lv = level[t]
  PROVE  /\ link'[Prev(t)][lv] = x[t]
         /\ \A n \in Nodes \cup {Head}, l \in Levels :
                n # Prev(t) \/ l # lv => link'[n][l] = link[n][l]
         /\ link[Prev(t)][lv] = Succ(t) /\ link[x[t]][lv] = Succ(t)
         /\ \A l \in Levels : l # lv => Linked(l)' = Linked(l)
         /\ \A m \in Linked(lv) : \E q \in OnLevel(lv) \cup {x[t]} : link'[q][lv] = m
         /\ Linked(lv)' = Linked(lv) \cup {x[t]}
<1> USE DEF PublishLink, splices, call, search, Inserting
<1> DEFINE p == Prev(t)
<1>0. lv = level[t]
  OBVIOUS
<1>1. /\ Inserting(t) /\ splice[t] \in Splices /\ x[t] \in Nodes /\ x[t] # Head /\ x[t] # Null
      /\ lv \in Levels /\ lv < height[x[t]] /\ height[x[t]] \in 1 .. kMaxHeight
      /\ height[x[t]] <= max_height_
      /\ p \in Nodes \cup {Head} /\ p \in OnLevel(lv) /\ p # x[t]
      /\ \A l \in Levels : x[t] \in Linked(l) <=> l < lv
  BY <1>0, AboutToLink
<1>2. /\ link'[p][lv] = x[t]
      /\ \A n \in Nodes \cup {Head}, l \in Levels :
             n # p \/ l # lv => link'[n][l] = link[n][l]
  BY <1>0, <1>1 DEF Shape, TypeOK
<1>3. link[p][lv] = Succ(t) /\ link[x[t]][lv] = Succ(t)
  <2>1. link[x[t]][lv] = Succ(t)
    BY <1>0, <1>1 DEF Links, ThreadLinks, Prepared, Succ
  <2>2. CASE cas[t]
    BY <1>0, <2>1, <2>2 DEF CanPublish
  <2>3. CASE ~cas[t]
    BY <1>0, <1>1, <2>1, <2>3, NodesAssumption
       DEF Links, ThreadLinks, Tight, Settled, Prev, Succ, UninitPrev
  <2> QED BY <2>2, <2>3 DEF Shape, TypeOK
<1>4. \A l \in Levels : l # lv => Linked(l)' = Linked(l)
  BY <1>2 DEF Linked
\* Every node of the level is still pointed at: by x[t] if it was by p.
<1>5. ASSUME NEW m \in Linked(lv)
      PROVE  \E q \in OnLevel(lv) \cup {x[t]} : link'[q][lv] = m
  <2>1. PICK q \in OnLevel(lv) : link[q][lv] = m
    BY <1>1 DEF Links, Pointed
  <2>2. q \in Nodes \cup {Head}
    BY <1>1 DEF OnLevel, Linked, Shape, TypeOK
  <2>3. CASE q # p
    BY <1>1, <1>2, <2>1, <2>2, <2>3
  <2>4. CASE q = p
    BY <1>1, <1>2, <1>3, <2>1, <2>4
  <2> QED BY <2>3, <2>4
<1>6. Linked(lv)' = Linked(lv) \cup {x[t]}
  <2>1. Linked(lv)' \subseteq Linked(lv) \cup {x[t]}
    BY <1>1, <1>2 DEF Linked
  <2>2. x[t] \in Linked(lv)'
    BY <1>1, <1>2 DEF Linked
  <2>3. ASSUME NEW m \in Linked(lv) PROVE m \in Linked(lv)'
    <3>1. PICK q \in OnLevel(lv) \cup {x[t]} : link'[q][lv] = m
      BY <1>5
    <3>2. q \in Nodes \cup {Head} /\ m # Null
      BY <1>1 DEF OnLevel, Linked, Shape, TypeOK
    <3> QED BY <3>1, <3>2 DEF Linked
  <2> QED BY <2>1, <2>2, <2>3
<1> QED BY <1>2, <1>3, <1>4, <1>5, <1>6

LEMMA PublishLinkLinks ==
  ASSUME Shape, Shape', Links, NEW t \in Threads, PublishLink(t)
  PROVE  Links' /\ \A l \in Levels : Linked(l) \subseteq Linked(l)'
<1> DEFINE p == Prev(t)
<1>0. PICK lv \in Levels : lv = level[t]
  BY DEF Shape, TypeOK
<1>2. /\ link'[p][lv] = x[t]
      /\ \A n \in Nodes \cup {Head}, l \in Levels :
             n # p \/ l # lv => link'[n][l] = link[n][l]
  BY <1>0, PublishLinkStep
<1>4. \A l \in Levels : l # lv => Linked(l)' = Linked(l)
  BY <1>0, PublishLinkStep
<1>5. \A m \in Linked(lv) : \E q \in OnLevel(lv) \cup {x[t]} : link'[q][lv] = m
  BY <1>0, PublishLinkStep
<1>6. Linked(lv)' = Linked(lv) \cup {x[t]}
  BY <1>0, PublishLinkStep
<1> USE DEF PublishLink, splices, call, search, Inserting
<1>1. /\ Inserting(t) /\ splice[t] \in Splices /\ x[t] \in Nodes /\ x[t] # Head /\ x[t] # Null
      /\ lv \in Levels /\ lv < height[x[t]] /\ height[x[t]] \in 1 .. kMaxHeight
      /\ height[x[t]] <= max_height_
      /\ p \in Nodes \cup {Head} /\ p \in OnLevel(lv) /\ p # x[t]
      /\ \A l \in Levels : x[t] \in Linked(l) <=> l < lv
  BY <1>0, AboutToLink
<1>7. \A l \in Levels : /\ Linked(l) \subseteq Linked(l)' /\ OnLevel(l) \subseteq OnLevel(l)'
                        /\ \A m : m \in Linked(l)' => m \in Linked(l) \/ m = x[t]
  BY <1>4, <1>6 DEF OnLevel
<1>8. Nested'
  <2>1. SUFFICES ASSUME NEW l \in Levels, NEW n \in Linked(l)'
        PROVE  height[n] > l /\ max_height_ > l /\ \A k \in 0 .. l : n \in Linked(k)'
    BY DEF Nested
  <2>2. \A k \in 0 .. l : k \in Levels
    BY HeightAssumption DEF Levels
  <2>3. CASE n \in Linked(l)
    BY <1>7, <2>2, <2>3 DEF Links, Nested
  <2>4. CASE n \notin Linked(l)
    <3>1. n = x[t] /\ l = lv
      BY <1>4, <1>6, <2>4
    <3>2. \A k \in 0 .. l : n \in Linked(k)'
      BY <1>1, <1>6, <1>7, <2>2, <3>1 DEF Levels
    <3>3. max_height_ \in 1 .. kMaxHeight
      BY DEF Shape, TypeOK
    <3> QED BY <1>1, <3>1, <3>2, <3>3 DEF Levels
  <2> QED BY <2>3, <2>4
<1>9. Pointed'
  <2>1. SUFFICES ASSUME NEW l \in Levels, NEW m \in Linked(l)'
        PROVE  \E q \in OnLevel(l)' : link'[q][l] = m
    BY DEF Pointed
  <2>2. CASE l = lv /\ m = x[t]
    BY <1>1, <1>2, <1>7, <2>2
  <2>3. CASE l = lv /\ m # x[t]
    <3>1. PICK q \in OnLevel(lv) \cup {x[t]} : link'[q][lv] = m
      BY <1>5, <1>6, <2>1, <2>3
    <3>2. q \in OnLevel(lv)'
      BY <1>1, <1>6 DEF OnLevel
    <3> QED BY <2>3, <3>1, <3>2
  <2>4. CASE l # lv
    <3>1. PICK q \in OnLevel(l) : link[q][l] = m
      BY <1>4, <2>4 DEF Links, Pointed
    <3>2. q \in Nodes \cup {Head}
      BY DEF OnLevel, Linked, Shape, TypeOK
    <3>3. q \in OnLevel(l)'
      BY <1>7
    <3> QED BY <1>2, <2>4, <3>1, <3>2, <3>3
  <2> QED BY <2>2, <2>3, <2>4
<1>10. SplicesOnLevel'
  BY <1>7 DEF Links, SplicesOnLevel, OnLevel
<1>11. ThreadLinks(t)'
  <2>1. /\ x'[t] = x[t] /\ splice'[t] = splice[t] /\ cas'[t] = cas[t]
        /\ recompute'[t] = recompute[t] /\ lv \in Nat /\ height[x[t]] \in Nat
    BY <1>1 DEF Levels, Shape, TypeOK
  <2>2. \/ pc'[t] = "link" /\ level'[t] = lv + 1
        \/ pc'[t] = "finish" /\ level'[t] = lv /\ height[x[t]] = lv + 1
    <3>1. CASE MoreLevels(t)
      BY <1>0, <1>1, <2>1, <3>1 DEF MoreLevels, Shape, TypeOK
    <3>2. CASE ~MoreLevels(t)
      BY <1>0, <1>1, <2>1, <3>2 DEF MoreLevels, Shape, TypeOK
    <3> QED BY <3>1, <3>2
  <2>3. CursorOnLevel(t)' /\ Prepared(t)'
    BY <2>2 DEF CursorOnLevel, Cursors, Prepared
  <2>4. \A l \in Levels : x[t] \in Linked(l)' <=> l < lv + 1
    BY <1>1, <1>4, <1>6 DEF Levels
  <2>5. Placed(t)'
    BY <2>1, <2>2, <2>4 DEF Placed
  <2>6. Tight(t)'
    <3>1. SUFFICES ASSUME ~cas[t], NEW l \in Levels, Settled(t, l)',
                          prev_[splice[t]][l] # UninitPrev
          PROVE  link'[prev_[splice[t]][l]][l] = next_[splice[t]][l]
      BY <2>1 DEF Tight, UninitPrev
    <3>2. pc'[t] = "link" /\ lv + 1 <= l /\ l < recompute[t] /\ l \in Nat
      BY <2>1, <2>2, <3>1 DEF Settled, Levels
    <3>3. link[prev_[splice[t]][l]][l] = next_[splice[t]][l]
      BY <1>0, <1>1, <2>1, <3>1, <3>2 DEF Links, ThreadLinks, Tight, Settled
    <3>4. link'[prev_[splice[t]][l]][l] = link[prev_[splice[t]][l]][l]
      <4>1. l \in SpliceLevels
        BY HeightAssumption DEF Levels, SpliceLevels
      <4>2. prev_[splice[t]][l] \in Nodes \cup {Head}
        BY <1>1, <3>1, <4>1 DEF Shape, TypeOK, UninitPrev
      <4> QED BY <1>2, <2>1, <3>2, <4>2
    <3> QED BY <3>3, <3>4
  <2> QED BY <2>3, <2>5, <2>6 DEF ThreadLinks
<1>12. ASSUME NEW u \in Threads, u # t PROVE ThreadLinks(u)'
  <2>1. SameCall(u)
    BY <1>12 DEF SameCall, Shape, TypeOK
  <2>2. Inserting(u) => x[u] # x[t]
    BY <1>1, <1>12 DEF Shape, Exclusive
  <2>3. Inserting(u) => \A l \in Levels : x[u] \in Linked(l)' <=> x[u] \in Linked(l)
    BY <1>7, <2>2
  <2>4. pc[u] = "publish" => link'[x[u]][level[u]] = link[x[u]][level[u]]
    <3>1. SUFFICES ASSUME pc[u] = "publish" PROVE link'[x[u]][level[u]] = link[x[u]][level[u]]
      OBVIOUS
    <3>2. /\ x[u] \in Nodes /\ x[u] # Head /\ level[u] \in Levels /\ level[u] \in Nat
          /\ x[u] \notin Linked(level[u])
      BY <3>1, AboutToLink DEF Levels
    <3>3. x[u] # p \/ level[u] # lv
      BY <1>1, <3>2 DEF OnLevel
    <3> QED BY <1>2, <3>2, <3>3
  <2> QED BY <1>1, <1>7, <1>12, <2>1, <2>3, <2>4, OthersKeptBy
<1> QED BY <1>7, <1>8, <1>9, <1>10, <1>11, <1>12 DEF Links

LEMMA InitLinks == Init => Links
<1> SUFFICES ASSUME Init PROVE Links
  OBVIOUS
<1>1. \A l \in Levels : Linked(l) = {}
  BY DEF Init, Linked
<1> QED BY <1>1, HeightAssumption
        DEF Init, Links, Nested, Pointed, SplicesOnLevel, ThreadLinks, CursorOnLevel,
            Placed, Tight, Prepared, Inserting, Cursors, Levels, SpliceLevels

\* Only two steps set a link, and neither takes a node off a level.
LEMMA NextLinks ==
  ASSUME Shape, Shape', Links, [Next]_vars
  PROVE  Links' /\ \A l \in Levels : Linked(l) \subseteq Linked(l)'
<1>1. CASE UNCHANGED vars
  <2> USE <1>1, SameLinks DEF vars, list, splices, call, search, Inserting
  <2>1. Nested'
    BY HeightAssumption DEF Links, Nested, Levels
  <2>2. Pointed' /\ SplicesOnLevel'
    BY DEF Links, Pointed, SplicesOnLevel
  <2>3. ASSUME NEW t \in Threads PROVE ThreadLinks(t)'
    BY OthersKept DEF SameCall
  <2> QED BY <2>1, <2>2, <2>3 DEF Links
<1>2. ASSUME NEW t \in Threads, Call(t)
      PROVE  Links' /\ UNCHANGED link
  <2>1. ASSUME NEW k \in Keys, ContainsCall(t, k) PROVE Links' /\ UNCHANGED link
    BY <2>1, ContainsCallLinks DEF ContainsCall, list
  <2>2. ASSUME NEW n \in Nodes, NEW h \in 1 .. kMaxHeight,
               Insert(t, n, h) \/ InsertConcurrently(t, n, h) \/ InsertWithHint(t, n, h)
        PROVE  Links' /\ UNCHANGED link
    <3>1. PICK s \in Splices, c \in BOOLEAN, f \in BOOLEAN : InsertCall(t, n, h, s, c, f)
      BY <2>2 DEF Insert, InsertConcurrently, InsertWithHint, Splices
    <3> QED BY <3>1, InsertCallLinks DEF InsertCall
  <2> QED BY <1>2, <2>1, <2>2 DEF Call
<1>3. ASSUME NEW t \in Threads, Step(t), ~PrepareLink(t), ~PublishLink(t)
      PROVE  Links'
  BY <1>3, SeekAdvanceLinks, SeekDescendLinks, SeekReturnLinks, CASMaxHeightLinks,
     ReloadMaxHeightLinks, OpenSpliceLinks, ReuseSpliceLinks, CheckSpliceLinks,
     FindAdvanceLinks, FindDescendLinks, RefoundLinks, LinkStaleLinks, LinkDuplicateLinks,
     CASFailedLinks, FinishInsertLinks, ReturnLinks DEF Step
<1>4. ASSUME NEW t \in Threads, Step(t), ~PrepareLink(t), ~PublishLink(t)
      PROVE  UNCHANGED link
  BY <1>4 DEF Step, list, SeekAdvance, SeekDescend, SeekReturn, CASMaxHeight, ReloadMaxHeight,
     OpenSplice, ReuseSplice, CheckSplice, FindAdvance, FindDescend, Refound, LinkStale,
     LinkDuplicate, CASFailed, FinishInsert, Return
<1>5. ASSUME NEW t \in Threads, PrepareLink(t) \/ PublishLink(t)
      PROVE  Links' /\ \A l \in Levels : Linked(l) \subseteq Linked(l)'
  BY <1>5, PrepareLinkLinks, PublishLinkLinks
<1>6. UNCHANGED link => \A l \in Levels : Linked(l) \subseteq Linked(l)'
  BY SameLinks
<1>7. UNCHANGED vars => UNCHANGED link
  BY DEF vars, list
<1> QED BY <1>1, <1>2, <1>3, <1>4, <1>5, <1>6, <1>7 DEF Next

-----------------------------------------------------------------------------
\* A node is linked from the bottom up, at levels it has room for, below
\* max_height_ only: no search misses a level, none starts too low.
THEOREM LevelsNested == Spec => []Nested
<1>1. Init => Shape /\ Links
  BY InitShape, InitLinks
<1>2. Shape /\ Links /\ [Next]_vars => Shape' /\ Links'
  BY NextShape, NextLinks
<1>3. Links => Nested
  BY DEF Links
<1> QED BY <1>1, <1>2, <1>3, PTL DEF Spec

\* Concurrent inserts never take a node off a level: the exchange that would
\* drop a node another thread linked in between fails, and the plain store of
\* a sequential insert never meets one.
THEOREM NothingUnlinked == Spec => NeverUnlinked
<1>1. Init => Shape /\ Links
  BY InitShape, InitLinks
<1>2. Shape /\ Links /\ [Next]_vars =>
          Shape' /\ Links' /\ [\A l \in Levels : Linked(l) \subseteq Linked(l)']_vars
  BY NextShape, NextLinks
<1> QED BY <1>1, <1>2, PTL DEF Spec, NeverUnlinked
=============================================================================
