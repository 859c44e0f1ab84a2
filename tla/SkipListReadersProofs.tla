------------------------ MODULE SkipListReadersProofs ------------------------
(***************************************************************************)
(* Theorems about SkipListReaders, for any number of readers beside any    *)
(* number of inserting threads, nodes, levels and hint splices.            *)
(***************************************************************************)
EXTENDS SkipListReaders, InlineSkipListOrderProofs

\* A search that has begun is one of the four, and all but FindLast have a key.
WalkOK(w) ==
    /\ w.x # Null => w.kind \in Walks
    /\ w.kind \in Walks \ {"FindLast"} => w.key \in Keys

WalkShape == \A r \in Readers : WalkOK(walk[r])

\* The inductive invariant: what is known of the list, and where readers stand.
ReadersInv == Shape /\ Links /\ ReadersTypeOK /\ WalkShape /\ CursorsLinked

-----------------------------------------------------------------------------
(* Lemmas                                                                  *)

WalkType ==
    [kind : Walks \cup {"none"}, key : Keys \cup {Null}, x : Nodes \cup {Head, Null},
     level : Levels, bigger : Nodes \cup {Null}, count : 0 .. CountSpan - 1,
     wrapped : BOOLEAN]

\* What the count becomes in its type; what fits stays as it is.
LEMMA Width ==
  ASSUME NEW n \in Nat
  PROVE  UInt64(n) \in 0 .. CountSpan - 1 /\ (n < CountSpan => UInt64(n) = n)
BY ReadersAssumption DEF UInt64

\* Scaling brings a count neither to 0 nor away from it.
LEMMA ScaledFacts ==
  ASSUME NEW w, w.count \in Nat
  PROVE  Scaled(w) \in Nat /\ (Scaled(w) = 0 <=> w.count = 0)
<1>1. \A c \in Nat : c * kBranching_ \in Nat /\ (c * kBranching_ = 0 <=> c = 0)
  BY ReadersAssumption
<1> QED BY <1>1 DEF Scaled

\* A node of some level is a node of the list.
LEMMA LinkedBelow ==
  ASSUME Shape, Links, NEW l \in Levels, NEW n \in Linked(l)
  PROVE  n \in Linked(0) /\ n \in Nodes /\ Key[n] \in Keys
<1>1. n \in Linked(0)
  BY HeightAssumption DEF Links, Nested, Levels
<1>2. n \in Nodes
  BY DEF Linked, Shape, TypeOK
<1> QED BY <1>1, <1>2, KeysAssumption

\* A search as it begins stands nowhere.
LEMMA NewWalk ==
  ASSUME NEW kind \in Walks, NEW k \in Keys \cup {Null},
         kind # "FindLast" => k \in Keys
  PROVE  /\ Walk(kind, k) \in WalkType /\ WalkOK(Walk(kind, k))
         /\ Walk(kind, k).x = Null
BY HeightAssumption, ReadersAssumption DEF Walk, WalkType, WalkOK, Levels

LEMMA NoWalkOK == NoWalk \in WalkType /\ WalkOK(NoWalk) /\ NoWalk.x = Null
BY HeightAssumption, ReadersAssumption DEF NoWalk, Walk, WalkType, WalkOK, Walks, Levels

\* What a reader of the invariant may assume of its search.
LEMMA WalkKnown ==
  ASSUME ReadersInv, NEW r \in Readers
  PROVE  /\ walk[r] \in WalkType /\ WalkOK(walk[r])
         /\ node_[r] \in Nodes \cup {Null} /\ method[r] \in Methods \cup {"none"}
         /\ target[r] \in Keys \cup {Null}
BY DEF ReadersInv, ReadersTypeOK, WalkShape, WalkType

\* A search reads a link of a node of its level.
LEMMA ReadOnLevel ==
  ASSUME ReadersInv, NEW r \in Readers, walk[r].x # Null
  PROVE  /\ walk[r].level \in Levels
         /\ walk[r].x \in OnLevel(walk[r].level)
         /\ Read(walk[r]) \in Linked(walk[r].level) \cup {Null}
         /\ walk[r].kind \in Walks
<1>1. walk[r].level \in Levels /\ walk[r].x \in Nodes \cup {Head} /\ walk[r].kind \in Walks
  BY WalkKnown DEF WalkType, WalkOK
<1>2. walk[r].x \in OnLevel(walk[r].level)
  BY DEF ReadersInv, CursorsLinked
<1>3. Read(walk[r]) \in Linked(walk[r].level) \cup {Null}
  BY <1>1, LinkOnLevel DEF ReadersInv, Read
<1> QED BY <1>1, <1>2, <1>3

\* The part of CursorsLinked that is about one search.
OnItsLevel(w) ==
    w.x # Null => /\ w.x \in OnLevel(w.level)
                  /\ w.kind # "FindLast" => IsBehind(w.x, w.key)

\* A step of reader r that leaves the list alone keeps the invariant if the new
\* values of r fit it.
LEMMA ReaderMoves ==
  ASSUME ReadersInv, UNCHANGED vars, NEW r \in Readers,
         NEW n, n \in Linked(0) \cup {Null}, node_' = [node_ EXCEPT ![r] = n],
         NEW m \in Methods \cup {"none"}, method' = [method EXCEPT ![r] = m],
         NEW k \in Keys \cup {Null}, target' = [target EXCEPT ![r] = k],
         NEW w \in WalkType, WalkOK(w), OnItsLevel(w),
         walk' = [walk EXCEPT ![r] = w]
  PROVE  ReadersInv'
<1>1. Shape' /\ Links'
  BY NextShape, NextLinks DEF ReadersInv
<1>2. /\ UNCHANGED <<link, height, max_height_>>
      /\ \A l \in Levels : Linked(l)' = Linked(l) /\ OnLevel(l)' = OnLevel(l)
  BY SameLinks DEF vars, list
<1>3. n \in Nodes \cup {Null}
  BY LinkedBelow, HeightAssumption DEF ReadersInv, Levels
<1>4. ReadersTypeOK'
  BY <1>3 DEF ReadersInv, ReadersTypeOK, WalkType
<1>5. WalkShape'
  BY DEF ReadersInv, ReadersTypeOK, WalkShape, WalkOK
<1>6. CursorsLinked'
  <2> SUFFICES ASSUME NEW q \in Readers
               PROVE  /\ node_'[q] \in Linked(0)' \cup {Null}
                      /\ OnItsLevel(walk[q])'
    BY DEF CursorsLinked, OnItsLevel
  <2>1. node_'[q] \in Linked(0) \cup {Null}
    BY DEF ReadersInv, ReadersTypeOK, CursorsLinked
  <2>2. walk'[q] \in WalkType /\ OnItsLevel(walk'[q])
    BY DEF ReadersInv, ReadersTypeOK, WalkType, CursorsLinked, OnItsLevel
  <2>3. OnItsLevel(walk'[q]) => OnItsLevel(walk[q])'
    BY <1>2, <2>2 DEF OnItsLevel, WalkType, IsBehind
  <2> QED BY <1>2, <2>1, <2>2, <2>3, HeightAssumption DEF Levels
<1> QED BY <1>1, <1>4, <1>5, <1>6 DEF ReadersInv

-----------------------------------------------------------------------------
(* One lemma per action                                                    *)

\* Inserts go on under a reader: no node it knows leaves its level.
LEMMA ListMoves ==
  ASSUME ReadersInv, [Next]_vars, UNCHANGED readers
  PROVE  ReadersInv'
<1>1. Shape' /\ Links' /\ \A l \in Levels : Linked(l) \subseteq Linked(l)'
  BY NextShape, NextLinks DEF ReadersInv
<1>2. ReadersTypeOK' /\ WalkShape'
  BY DEF ReadersInv, ReadersTypeOK, WalkShape, WalkOK, readers
<1>3. \A l \in Levels : OnLevel(l) \subseteq OnLevel(l)'
  BY <1>1 DEF OnLevel
<1>4. CursorsLinked'
  <2> SUFFICES ASSUME NEW r \in Readers
               PROVE  /\ node_[r] \in Linked(0)' \cup {Null}
                      /\ walk[r].x # Null => walk[r].x \in OnLevel(walk[r].level)'
    BY DEF readers, ReadersInv, CursorsLinked, IsBehind
  <2>1. node_[r] \in Linked(0)' \cup {Null}
    BY <1>1, HeightAssumption DEF ReadersInv, CursorsLinked, Levels
  <2>2. ASSUME walk[r].x # Null PROVE walk[r].x \in OnLevel(walk[r].level)'
    <3>1. walk'[r] = walk[r]
      BY DEF readers
    <3>2. walk[r].x \in OnLevel(walk[r].level) /\ walk[r].level \in Levels
      BY <2>2, ReadOnLevel
    <3> QED BY <1>3, <3>1, <3>2
  <2> QED BY <2>1, <2>2
<1> QED BY <1>1, <1>2, <1>4 DEF ReadersInv

\* A call that begins a search.
LEMMA BeginMoves ==
  ASSUME ReadersInv, UNCHANGED vars, NEW r \in Readers, NEW m \in Methods,
         NEW k \in Keys \cup {Null}, NEW kind \in Walks, NEW j \in Keys \cup {Null},
         kind # "FindLast" => j \in Keys, Begin(r, m, k, Walk(kind, j))
  PROVE  ReadersInv'
<1>1. node_[r] \in Linked(0) \cup {Null} /\ node_' = [node_ EXCEPT ![r] = node_[r]]
  BY DEF ReadersInv, CursorsLinked, ReadersTypeOK, Begin
<1> QED BY <1>1, NewWalk, ReaderMoves DEF Begin, OnItsLevel

LEMMA CallMoves ==
  ASSUME ReadersInv, UNCHANGED vars, NEW r \in Readers, ReaderCall(r)
  PROVE  ReadersInv'
<1>1. ASSUME NEW k \in Keys, Seek(r, k) \/ SeekForPrev(r, k) \/ EstimateCount(r, k)
      PROVE  ReadersInv'
  BY <1>1, BeginMoves DEF Seek, SeekForPrev, EstimateCount, Methods, Walks
<1>2. CASE SeekToLast(r)
  BY <1>2, BeginMoves DEF SeekToLast, Methods, Walks
<1>3. CASE Prev_(r)
  <2>1. Key[node_[r]] \in Keys
    BY <1>3, WalkKnown, KeysAssumption DEF Prev_
  <2> QED BY <1>3, <2>1, BeginMoves DEF Prev_, Methods, Walks
<1>4. ASSUME NEW p \in OnLevel(0), node_' = [node_ EXCEPT ![r] = link[p][0]],
             UNCHANGED <<method, target, walk>>
      PROVE  ReadersInv'
  <2>1. p \in Nodes \cup {Head}
    BY LinkedBelow, HeightAssumption DEF ReadersInv, OnLevel, Levels
  <2>2. link[p][0] \in Linked(0) \cup {Null}
    BY <2>1, LinkOnLevel, HeightAssumption DEF ReadersInv, Levels
  <2>3. /\ method' = [method EXCEPT ![r] = method[r]]
        /\ target' = [target EXCEPT ![r] = target[r]]
        /\ walk' = [walk EXCEPT ![r] = walk[r]]
    BY <1>4 DEF ReadersInv, ReadersTypeOK
  <2>4. OnItsLevel(walk[r])
    BY DEF ReadersInv, CursorsLinked, OnItsLevel
  <2> QED BY <1>4, <2>2, <2>3, <2>4, WalkKnown, ReaderMoves
<1>5. CASE SeekToFirst(r)
  BY <1>4, <1>5 DEF SeekToFirst, OnLevel
<1>6. CASE Next_(r)
  <2>1. node_[r] \in OnLevel(0)
    BY <1>6 DEF Next_, OnLevel, ReadersInv, CursorsLinked
  <2> QED BY <1>4, <1>6, <2>1 DEF Next_
<1> QED BY <1>1, <1>2, <1>3, <1>5, <1>6 DEF ReaderCall

\* The end of a step that only moves the search of r on.
LEMMA WalkMoves ==
  ASSUME ReadersInv, UNCHANGED vars, NEW r \in Readers, UNCHANGED <<node_, method, target>>,
         NEW w \in WalkType, WalkOK(w), OnItsLevel(w), walk' = [walk EXCEPT ![r] = w]
  PROVE  ReadersInv'
<1>1. /\ node_' = [node_ EXCEPT ![r] = node_[r]]
      /\ method' = [method EXCEPT ![r] = method[r]]
      /\ target' = [target EXCEPT ![r] = target[r]]
  BY DEF ReadersInv, ReadersTypeOK
<1>2. node_[r] \in Linked(0) \cup {Null}
  BY DEF ReadersInv, CursorsLinked
<1> QED BY <1>1, <1>2, WalkKnown, ReaderMoves

LEMMA StartMoves ==
  ASSUME ReadersInv, UNCHANGED vars, NEW r \in Readers, StartWalk(r)
  PROVE  ReadersInv'
<1> DEFINE w == [walk[r] EXCEPT !.x = Head, !.level = TopLevel]
<1>1. walk[r] \in WalkType /\ WalkOK(walk[r]) /\ walk[r].kind \in Walks
  BY WalkKnown DEF StartWalk, WalkType
<1>2. TopLevel \in Levels
  BY HeightAssumption DEF TopLevel, Levels, ReadersInv, Shape, TypeOK
<1>3. w \in WalkType /\ WalkOK(w) /\ OnItsLevel(w)
  BY <1>1, <1>2 DEF WalkType, WalkOK, OnItsLevel, OnLevel, IsBehind
<1>4. walk' = [walk EXCEPT ![r] = w] /\ UNCHANGED <<node_, method, target>>
  BY DEF StartWalk, ReadersInv, ReadersTypeOK
<1> QED BY <1>3, <1>4, WalkMoves

\* The node a search goes on to is a node, and lies before its key.
LEMMA NotReached ==
  ASSUME ReadersInv, NEW r \in Readers, walk[r].x # Null,
         ~Reaches(walk[r], Read(walk[r]))
  PROVE  /\ Read(walk[r]) \in Linked(walk[r].level)
         /\ walk[r].kind # "FindLast" => IsBehind(Read(walk[r]), walk[r].key)
<1> DEFINE n == Read(walk[r])
<1>1. n \in Linked(walk[r].level) \cup {Null} /\ walk[r].level \in Levels
      /\ walk[r].kind \in Walks
  BY ReadOnLevel
<1>2. walk[r].kind # "FindLast" => walk[r].key \in Int
  BY <1>1, WalkKnown, KeysAssumption DEF WalkOK
<1>3. n # Null
  BY <1>1 DEF Reaches, KeyIsAfterNode, Walks
<1>4. Key[n] \in Int
  BY <1>1, <1>3, LinkedBelow, KeysAssumption DEF ReadersInv
<1>5. CASE walk[r].kind = "FindGreaterOrEqual"
  BY <1>1, <1>2, <1>3, <1>4, <1>5 DEF Reaches, IsBehind
<1>6. CASE walk[r].kind = "FindLessThan"
  BY <1>1, <1>2, <1>3, <1>6 DEF Reaches, KeyIsAfterNode, IsBehind
<1>7. CASE walk[r].kind = "FindLast"
  BY <1>1, <1>3, <1>7
<1>8. CASE walk[r].kind = "EstimateCount"
  BY <1>1, <1>2, <1>3, <1>8 DEF Reaches, KeyIsAfterNode, IsBehind
<1> QED BY <1>1, <1>5, <1>6, <1>7, <1>8 DEF Walks

LEMMA ForwardMoves ==
  ASSUME ReadersInv, UNCHANGED vars, NEW r \in Readers, Forward(r)
  PROVE  ReadersInv'
<1> DEFINE n == Read(walk[r])
           c == Counted(walk[r])
           w == [walk[r] EXCEPT !.x = n, !.count = UInt64(c), !.wrapped = Wraps(walk[r], c)]
<1>1. walk[r] \in WalkType /\ WalkOK(walk[r]) /\ walk[r].kind \in Walks /\ walk[r].level \in Levels
  BY WalkKnown, ReadOnLevel DEF Forward
<1>2. n \in Linked(walk[r].level) /\ (walk[r].kind # "FindLast" => IsBehind(n, walk[r].key))
  BY NotReached DEF Forward
<1>3. n \in Nodes /\ UInt64(c) \in 0 .. CountSpan - 1 /\ Wraps(walk[r], c) \in BOOLEAN
  <2>1. walk[r].count \in Nat /\ walk[r].wrapped \in BOOLEAN
    BY <1>1, ReadersAssumption DEF WalkType
  <2>2. c \in Nat
    BY <2>1 DEF Counted
  <2>3. n \in Nodes
    BY <1>1, <1>2, LinkedBelow DEF ReadersInv
  <2> QED BY <2>1, <2>2, <2>3, Width DEF Wraps
<1>4. w \in WalkType /\ WalkOK(w) /\ OnItsLevel(w)
  BY <1>1, <1>2, <1>3 DEF WalkType, WalkOK, OnItsLevel, OnLevel
<1>5. walk' = [walk EXCEPT ![r] = w] /\ UNCHANGED <<node_, method, target>>
  BY DEF Forward, ReadersInv, ReadersTypeOK
<1> QED BY <1>4, <1>5, WalkMoves

LEMMA DownMoves ==
  ASSUME ReadersInv, UNCHANGED vars, NEW r \in Readers, Down(r)
  PROVE  ReadersInv'
<1> DEFINE n == Read(walk[r])
           w == [walk[r] EXCEPT !.level = NextLevel(walk[r]), !.bigger = n,
                                !.count = UInt64(Scaled(walk[r])),
                                !.wrapped = Wraps(walk[r], Scaled(walk[r]))]
<1>1. /\ walk[r] \in WalkType /\ WalkOK(walk[r]) /\ walk[r].kind \in Walks
      /\ walk[r].level \in Levels /\ walk[r].x \in OnLevel(walk[r].level)
      /\ n \in Linked(walk[r].level) \cup {Null}
  BY WalkKnown, ReadOnLevel DEF Down
<1>2. n \in Nodes \cup {Null}
  BY <1>1, LinkedBelow DEF ReadersInv
<1>3. /\ UInt64(Scaled(walk[r])) \in 0 .. CountSpan - 1
      /\ Wraps(walk[r], Scaled(walk[r])) \in BOOLEAN
  <2>1. walk[r].count \in Nat /\ walk[r].wrapped \in BOOLEAN
    BY <1>1, ReadersAssumption DEF WalkType
  <2>2. Scaled(walk[r]) \in Nat
    BY <2>1, ScaledFacts
  <2> QED BY <2>1, <2>2, Width DEF Wraps
<1>4. /\ NextLevel(walk[r]) \in Levels /\ NextLevel(walk[r]) \in 0 .. walk[r].level
  BY <1>1, HeightAssumption DEF Down, NextLevel, Levels
<1>5. walk[r].x \in OnLevel(NextLevel(walk[r]))
  BY <1>1, <1>4, OneLevelDown DEF ReadersInv
<1>6. OnItsLevel(walk[r]) /\ walk[r].x # Null
  BY DEF ReadersInv, CursorsLinked, OnItsLevel, Down
<1>7. w \in WalkType /\ WalkOK(w) /\ OnItsLevel(w)
  BY <1>1, <1>2, <1>3, <1>4, <1>5, <1>6 DEF WalkType, WalkOK, OnItsLevel
<1>8. walk' = [walk EXCEPT ![r] = w] /\ UNCHANGED <<node_, method, target>>
  BY DEF Down, ReadersInv, ReadersTypeOK
<1> QED BY <1>7, <1>8, WalkMoves

\* A search answers with a node of the list.
LEMMA AnswerLinked ==
  ASSUME ReadersInv, NEW r \in Readers, walk[r].x # Null
  PROVE  Answer(walk[r]) \in Linked(0) \cup {Null}
<1>1. /\ walk[r].level \in Levels /\ walk[r].x \in OnLevel(walk[r].level)
      /\ Read(walk[r]) \in Linked(walk[r].level) \cup {Null}
  BY ReadOnLevel
<1> QED BY <1>1, LinkedBelow DEF Answer, OnLevel, ReadersInv

LEMMA ArriveMoves ==
  ASSUME ReadersInv, UNCHANGED vars, NEW r \in Readers, Arrive(r)
  PROVE  ReadersInv'
<1> DEFINE n == Answer(walk[r])
<1>1. n \in Linked(0) \cup {Null} /\ node_' = [node_ EXCEPT ![r] = n]
  BY AnswerLinked DEF Arrive, Arrived
<1>2. /\ n # Null => Key[n] \in Keys
      /\ method[r] \in Methods \cup {"none"} /\ target[r] \in Keys \cup {Null}
  BY <1>1, LinkedBelow, WalkKnown, HeightAssumption DEF ReadersInv, Levels
<1>3. ASSUME UNCHANGED <<method, target>>
      PROVE  /\ method' = [method EXCEPT ![r] = method[r]]
             /\ target' = [target EXCEPT ![r] = target[r]]
  BY <1>3 DEF ReadersInv, ReadersTypeOK
<1>4. CASE /\ walk' = [walk EXCEPT ![r] = Walk("FindLast", Null)]
           /\ UNCHANGED <<method, target>>
  BY <1>1, <1>2, <1>3, <1>4, NewWalk, ReaderMoves DEF Walks, OnItsLevel
<1>5. CASE /\ walk' = [walk EXCEPT ![r] = Walk("FindLessThan", Key[n])] /\ n # Null
           /\ UNCHANGED <<method, target>>
  BY <1>1, <1>2, <1>3, <1>5, NewWalk, ReaderMoves DEF Walks, OnItsLevel
<1>6. CASE /\ walk' = [walk EXCEPT ![r] = NoWalk]
           /\ method' = [method EXCEPT ![r] = "none"]
           /\ target' = [target EXCEPT ![r] = Null]
  BY <1>1, <1>6, NoWalkOK, ReaderMoves DEF OnItsLevel
<1> QED BY <1>4, <1>5, <1>6 DEF Arrive, StepsBack

LEMMA EstimateMoves ==
  ASSUME ReadersInv, UNCHANGED vars, NEW r \in Readers, EstimateReturns(r)
  PROVE  ReadersInv'
<1>1. node_[r] \in Linked(0) \cup {Null} /\ node_' = [node_ EXCEPT ![r] = node_[r]]
  BY DEF ReadersInv, CursorsLinked, ReadersTypeOK, EstimateReturns
<1> QED BY <1>1, NoWalkOK, ReaderMoves DEF EstimateReturns, OnItsLevel

LEMMA InitReaders == ReadersInit => ReadersInv
<1> SUFFICES ASSUME ReadersInit PROVE ReadersInv
  OBVIOUS
<1>1. Shape /\ Links
  BY InitShape, InitLinks DEF ReadersInit
<1>2. ReadersTypeOK /\ WalkShape /\ CursorsLinked
  BY NoWalkOK DEF ReadersInit, ReadersTypeOK, WalkShape, CursorsLinked, WalkType
<1> QED BY <1>1, <1>2 DEF ReadersInv

LEMMA NextReaders == ReadersInv /\ [ReadersNext]_<<vars, readers>> => ReadersInv'
<1> SUFFICES ASSUME ReadersInv, [ReadersNext]_<<vars, readers>> PROVE ReadersInv'
  OBVIOUS
<1>1. CASE UNCHANGED <<vars, readers>>
  BY <1>1, ListMoves
<1>2. CASE Next /\ UNCHANGED readers
  BY <1>2, ListMoves
<1>3. ASSUME NEW r \in Readers, ReaderCall(r) \/ ReaderStep(r), UNCHANGED vars
      PROVE  ReadersInv'
  BY <1>3, CallMoves, StartMoves, ForwardMoves, DownMoves, ArriveMoves, EstimateMoves
     DEF ReaderStep
<1> QED BY <1>1, <1>2, <1>3 DEF ReadersNext

-----------------------------------------------------------------------------
\* Every variable of a reader always has its type: no search reads a link of
\* nullptr or of a node at a level it has no room for.
THEOREM ReadersTypeCorrect == ReadersSpec => []ReadersTypeOK
<1>1. ReadersInv => ReadersTypeOK
  BY DEF ReadersInv
<1> QED BY <1>1, InitReaders, NextReaders, PTL DEF ReadersSpec

\* Whatever inserts run between two calls of an Iterator or two steps of a
\* search, the Iterator holds a node of the list, and a search stands on a node
\* of its level that lies before its key.
THEOREM CursorsStayLinked == ReadersSpec => []CursorsLinked
<1>1. ReadersInv => CursorsLinked
  BY DEF ReadersInv
<1> QED BY <1>1, InitReaders, NextReaders, PTL DEF ReadersSpec

-----------------------------------------------------------------------------
(* What the readers answer, from the order of the list                    *)

\* The search that each call has under way, and its key.
CallFits(m, k, w) ==
    /\ m = "none" => w.kind = "none" /\ k = Null
    /\ m = "Seek" => w.kind = "FindGreaterOrEqual" /\ w.key = k
    /\ m = "SeekForPrev" =>
        /\ k \in Keys
        /\ \/ w.kind = "FindGreaterOrEqual" /\ w.key = k
           \/ w.kind = "FindLast"
           \/ w.kind = "FindLessThan" /\ k < w.key
    /\ m = "Prev" => w.kind = "FindLessThan" /\ w.key = k
    /\ m = "SeekToLast" => w.kind = "FindLast" /\ k = Null
    /\ m = "EstimateCount" => w.kind = "EstimateCount" /\ w.key = k

\* A search knows of its last_bigger that it is bigger, of its last_not_after
\* that it is not before the key, and of its count whether it has moved.
SearchFits(w) ==
    /\ w.kind = "FindGreaterOrEqual" => IsBeyond(w.bigger, w.key)
    /\ w.kind = "FindLessThan" => ~KeyIsAfterNode(w.key, w.bigger)
    /\ w.kind = "EstimateCount" =>
        /\ w.x \in {Null, Head} => w.count = 0 /\ ~w.wrapped
        /\ w.count = 0 => w.x \in {Null, Head} \/ w.wrapped

ReadersFit ==
    \A r \in Readers : /\ CallFits(method[r], target[r], walk[r])
                       /\ SearchFits(walk[r])

\* The inductive invariant.
ReadersOrder == ReadersInv /\ Order /\ ReadersFit

-----------------------------------------------------------------------------
(* Every step preserves ReadersFit                                         *)

LEMMA NoWalkFits == CallFits("none", Null, NoWalk) /\ SearchFits(NoWalk)
BY DEF CallFits, SearchFits, NoWalk, Walk

\* A search as it begins has nothing bigger to avoid and has counted nothing.
LEMMA NewWalkFits ==
  ASSUME NEW kind \in Walks, NEW k \in Keys \cup {Null}
  PROVE  /\ SearchFits(Walk(kind, k))
         /\ Walk(kind, k).kind = kind /\ Walk(kind, k).key = k
BY DEF SearchFits, Walk, IsBeyond, KeyIsAfterNode

LEMMA FitKept ==
  ASSUME ReadersInv, ReadersFit, NEW r \in Readers, NEW m, NEW k, NEW w,
         method' = [method EXCEPT ![r] = m], target' = [target EXCEPT ![r] = k],
         walk' = [walk EXCEPT ![r] = w], CallFits(m, k, w), SearchFits(w)
  PROVE  ReadersFit'
<1> SUFFICES ASSUME NEW q \in Readers
             PROVE  /\ CallFits(method'[q], target'[q], walk'[q])
                    /\ SearchFits(walk'[q])
  BY DEF ReadersFit, CallFits, SearchFits
<1>1. CASE q = r
  BY <1>1 DEF ReadersInv, ReadersTypeOK
<1>2. CASE q # r
  BY <1>2 DEF ReadersInv, ReadersTypeOK, ReadersFit
<1> QED BY <1>1, <1>2

\* The search of r goes on within its call.
LEMMA SearchKept ==
  ASSUME ReadersInv, ReadersFit, NEW r \in Readers, UNCHANGED <<method, target>>, NEW w,
         walk' = [walk EXCEPT ![r] = w], SearchFits(w),
         w.kind = walk[r].kind, w.key = walk[r].key
  PROVE  ReadersFit'
<1>1. /\ method' = [method EXCEPT ![r] = method[r]]
      /\ target' = [target EXCEPT ![r] = target[r]]
  BY DEF ReadersInv, ReadersTypeOK
<1>2. CallFits(method[r], target[r], w)
  BY DEF ReadersFit, CallFits
<1> QED BY <1>1, <1>2, FitKept

LEMMA BeginFits ==
  ASSUME ReadersInv, ReadersFit, NEW r \in Readers, NEW m, NEW k, NEW kind \in Walks,
         NEW j \in Keys \cup {Null}, Begin(r, m, k, Walk(kind, j)),
         CallFits(m, k, Walk(kind, j))
  PROVE  ReadersFit'
BY NewWalkFits, FitKept DEF Begin

LEMMA CallFitsKept ==
  ASSUME ReadersInv, ReadersFit, NEW r \in Readers, ReaderCall(r)
  PROVE  ReadersFit'
<1>1. ASSUME NEW k \in Keys, Seek(r, k) PROVE ReadersFit'
  <2>1. CallFits("Seek", k, Walk("FindGreaterOrEqual", k))
    BY NewWalkFits DEF CallFits, Walks
  <2> QED BY <1>1, <2>1, BeginFits DEF Seek, Walks
<1>2. ASSUME NEW k \in Keys, SeekForPrev(r, k) PROVE ReadersFit'
  <2>1. CallFits("SeekForPrev", k, Walk("FindGreaterOrEqual", k))
    BY NewWalkFits DEF CallFits, Walks
  <2> QED BY <1>2, <2>1, BeginFits DEF SeekForPrev, Walks
<1>3. ASSUME NEW k \in Keys, EstimateCount(r, k) PROVE ReadersFit'
  <2>1. CallFits("EstimateCount", k, Walk("EstimateCount", k))
    BY NewWalkFits DEF CallFits, Walks
  <2> QED BY <1>3, <2>1, BeginFits DEF EstimateCount, Walks
<1>4. CASE SeekToLast(r)
  <2>1. CallFits("SeekToLast", Null, Walk("FindLast", Null))
    BY NewWalkFits DEF CallFits, Walks
  <2> QED BY <1>4, <2>1, BeginFits DEF SeekToLast, Walks
<1>5. CASE Prev_(r)
  <2>1. Key[node_[r]] \in Keys
    BY <1>5, WalkKnown, KeysAssumption DEF Prev_
  <2>2. CallFits("Prev", Key[node_[r]], Walk("FindLessThan", Key[node_[r]]))
    BY <2>1, NewWalkFits DEF CallFits, Walks
  <2> QED BY <1>5, <2>1, <2>2, BeginFits DEF Prev_, Walks
<1>6. CASE SeekToFirst(r) \/ Next_(r)
  <2>1. UNCHANGED <<method, target, walk>>
    BY <1>6 DEF SeekToFirst, Next_
  <2> QED BY <2>1 DEF ReadersFit, CallFits, SearchFits
<1> QED BY <1>1, <1>2, <1>3, <1>4, <1>5, <1>6 DEF ReaderCall

LEMMA StartFits ==
  ASSUME ReadersInv, ReadersFit, NEW r \in Readers, StartWalk(r)
  PROVE  ReadersFit'
<1> DEFINE w == [walk[r] EXCEPT !.x = Head, !.level = TopLevel]
<1>1. walk' = [walk EXCEPT ![r] = w] /\ UNCHANGED <<method, target>>
  BY DEF StartWalk, ReadersInv, ReadersTypeOK
<1>2. /\ w.kind = walk[r].kind /\ w.key = walk[r].key /\ w.bigger = walk[r].bigger
      /\ w.count = walk[r].count /\ w.wrapped = walk[r].wrapped /\ w.x = Head
  BY WalkKnown DEF WalkType
<1>3. SearchFits(w)
  BY <1>2 DEF StartWalk, ReadersFit, SearchFits
<1> QED BY <1>1, <1>2, <1>3, SearchKept

LEMMA ForwardFits ==
  ASSUME ReadersInv, ReadersFit, NEW r \in Readers, Forward(r)
  PROVE  ReadersFit'
<1> DEFINE n == Read(walk[r])
           c == Counted(walk[r])
           w == [walk[r] EXCEPT !.x = n, !.count = UInt64(c), !.wrapped = Wraps(walk[r], c)]
<1>1. walk' = [walk EXCEPT ![r] = w] /\ UNCHANGED <<method, target>>
  BY DEF Forward, ReadersInv, ReadersTypeOK
<1>2. /\ w.kind = walk[r].kind /\ w.key = walk[r].key /\ w.bigger = walk[r].bigger
      /\ w.count = UInt64(c) /\ w.wrapped = Wraps(walk[r], c) /\ w.x = n
      /\ walk[r].count \in Nat
  BY WalkKnown, ReadersAssumption DEF WalkType
<1>3. n \notin {Null, Head}
  <2>1. walk[r].level \in Levels /\ n \in Linked(walk[r].level)
    BY NotReached, ReadOnLevel DEF Forward
  <2> QED BY <2>1, LinkedBelow, NodesAssumption DEF ReadersInv
<1>4. walk[r].kind = "EstimateCount" /\ w.count = 0 => w.wrapped
  <2>1. walk[r].kind = "EstimateCount" => c = walk[r].count + 1
    BY DEF Counted
  <2>2. ASSUME walk[r].kind = "EstimateCount", ~w.wrapped PROVE UInt64(c) = c
    <3>1. c \in Nat
      BY <1>2, <2>1, <2>2
    <3>2. ~(c >= CountSpan)
      <4>1. w.wrapped <=> Wraps(walk[r], c)
        BY <1>2
      <4> HIDE DEF w, c
      <4> QED BY <2>2, <4>1 DEF Wraps
    <3> HIDE DEF c
    <3>3. c < CountSpan
      BY <3>1, <3>2, ReadersAssumption
    <3> QED BY <3>1, <3>3, Width
  <2> QED BY <1>2, <2>1, <2>2
<1>5. SearchFits(w)
  BY <1>2, <1>3, <1>4 DEF ReadersFit, SearchFits
<1> QED BY <1>1, <1>2, <1>5, SearchKept

\* The node a search goes down at does not lie before its key.
LEMMA Reached ==
  ASSUME ReadersInv, ReadersFit, NEW r \in Readers, walk[r].x # Null,
         Reaches(walk[r], Read(walk[r]))
  PROVE  LET n == Read(walk[r])
             k == walk[r].key
         IN  /\ walk[r].kind = "FindGreaterOrEqual" =>
                    IF Equals(walk[r], n) THEN n # Null /\ Key[n] = k ELSE IsBeyond(n, k)
             /\ walk[r].kind \in {"FindLessThan", "EstimateCount"} => ~KeyIsAfterNode(k, n)
             /\ walk[r].kind = "FindLast" => n = Null
<1> DEFINE n == Read(walk[r])
           k == walk[r].key
<1>1. SearchFits(walk[r])
  BY DEF ReadersFit
<1>2. n \in Nodes \cup {Null} /\ (n # Null => Key[n] \in Int)
  <2>1. n \in Linked(walk[r].level) \cup {Null} /\ walk[r].level \in Levels
    BY ReadOnLevel
  <2> QED BY <2>1, LinkedBelow, KeysAssumption DEF ReadersInv
<1>3. walk[r].kind \in Walks \ {"FindLast"} => k \in Int
  BY WalkKnown, KeysAssumption DEF WalkOK
<1>4. CASE walk[r].kind = "FindGreaterOrEqual"
  <2>1. n \notin {Null, walk[r].bigger} => k <= Key[n]
    BY <1>4 DEF Reaches
  <2>2. CASE Equals(walk[r], n)
    BY <1>4, <2>2 DEF Equals
  <2>3. CASE ~Equals(walk[r], n)
    <3>1. n \notin {Null, walk[r].bigger} => Key[n] # k
      BY <1>4, <2>3 DEF Equals
    <3>2. IsBeyond(walk[r].bigger, k)
      BY <1>1, <1>4 DEF SearchFits
    <3> QED BY <1>2, <1>3, <1>4, <2>1, <2>3, <3>1, <3>2 DEF IsBeyond, Walks
  <2> QED BY <1>4, <2>2, <2>3
<1>5. CASE walk[r].kind = "FindLessThan"
  <2>1. n = walk[r].bigger \/ ~KeyIsAfterNode(k, n)
    BY <1>5 DEF Reaches
  <2> QED BY <1>1, <1>5, <2>1 DEF SearchFits
<1>6. CASE walk[r].kind = "FindLast"
  BY <1>6 DEF Reaches
<1>7. CASE walk[r].kind = "EstimateCount"
  BY <1>7 DEF Reaches
<1> QED BY <1>4, <1>5, <1>6, <1>7

LEMMA DownFits ==
  ASSUME ReadersInv, ReadersFit, NEW r \in Readers, Down(r)
  PROVE  ReadersFit'
<1> DEFINE n == Read(walk[r])
           w == [walk[r] EXCEPT !.level = NextLevel(walk[r]), !.bigger = n,
                                !.count = UInt64(Scaled(walk[r])),
                                !.wrapped = Wraps(walk[r], Scaled(walk[r]))]
<1>1. walk' = [walk EXCEPT ![r] = w] /\ UNCHANGED <<method, target>>
  BY DEF Down, ReadersInv, ReadersTypeOK
<1>2. /\ w.kind = walk[r].kind /\ w.key = walk[r].key /\ w.bigger = n
      /\ w.count = UInt64(Scaled(walk[r])) /\ w.x = walk[r].x
      /\ w.wrapped = Wraps(walk[r], Scaled(walk[r]))
      /\ walk[r].count \in Nat /\ walk[r].wrapped \in BOOLEAN
  BY WalkKnown, ReadersAssumption DEF WalkType
<1>3. /\ walk[r].count = 0 => w.count = 0 /\ (~walk[r].wrapped => ~w.wrapped)
      /\ w.count = 0 => walk[r].count = 0 \/ w.wrapped
      /\ walk[r].wrapped => w.wrapped
  <2>1. Scaled(walk[r]) \in Nat /\ (Scaled(walk[r]) = 0 <=> walk[r].count = 0)
    BY <1>2, ScaledFacts
  <2> DEFINE s == Scaled(walk[r])
             large == s >= CountSpan
  <2>2. ~large => UInt64(s) = s
    BY <2>1, Width, ReadersAssumption
  <2>3. s = 0 => ~large
    BY ReadersAssumption
  <2>4. w.wrapped <=> walk[r].wrapped \/ large
    BY <1>2 DEF Wraps
  <2>5. w.count = UInt64(s) /\ (s = 0 <=> walk[r].count = 0)
    BY <1>2, <2>1
  <2> HIDE DEF s, large, w
  <2> QED BY <2>2, <2>3, <2>4, <2>5
<1>4. /\ walk[r].kind = "FindGreaterOrEqual" => IsBeyond(n, walk[r].key)
      /\ walk[r].kind = "FindLessThan" => ~KeyIsAfterNode(walk[r].key, n)
  BY Reached DEF Down
<1>5. SearchFits(w)
  BY <1>2, <1>3, <1>4 DEF ReadersFit, SearchFits
<1> QED BY <1>1, <1>2, <1>5, SearchKept

LEMMA ArriveFits ==
  ASSUME ReadersInv, ReadersFit, NEW r \in Readers, Arrive(r)
  PROVE  ReadersFit'
<1> DEFINE n == Answer(walk[r])
<1>1. /\ n # Null => Key[n] \in Keys
      /\ method[r] = "SeekForPrev" => target[r] \in Keys
  <2>1. n \in Linked(0) \cup {Null}
    BY AnswerLinked DEF Arrive, Arrived
  <2>2. method[r] = "SeekForPrev" => target[r] \in Keys
    BY DEF ReadersFit, CallFits
  <2> QED BY <2>1, <2>2, LinkedBelow, HeightAssumption DEF ReadersInv, Levels
<1>2. ASSUME UNCHANGED <<method, target>>
      PROVE  /\ method' = [method EXCEPT ![r] = method[r]]
             /\ target' = [target EXCEPT ![r] = target[r]]
  BY <1>2 DEF ReadersInv, ReadersTypeOK
<1>3. CASE /\ method[r] = "SeekForPrev" /\ UNCHANGED <<method, target>>
           /\ walk' = [walk EXCEPT ![r] = Walk("FindLast", Null)]
  <2>1. CallFits("SeekForPrev", target[r], Walk("FindLast", Null))
    BY <1>1, <1>3, NewWalkFits DEF CallFits, Walks
  <2>2. SearchFits(Walk("FindLast", Null))
    BY NewWalkFits DEF Walks
  <2> QED BY <1>2, <1>3, <2>1, <2>2, FitKept
<1>4. CASE /\ method[r] = "SeekForPrev" /\ StepsBack(r, n) /\ UNCHANGED <<method, target>>
           /\ walk' = [walk EXCEPT ![r] = Walk("FindLessThan", Key[n])]
  <2>1. CallFits("SeekForPrev", target[r], Walk("FindLessThan", Key[n]))
    BY <1>1, <1>4, NewWalkFits DEF CallFits, Walks, StepsBack
  <2>2. SearchFits(Walk("FindLessThan", Key[n]))
    BY <1>1, <1>4, NewWalkFits DEF StepsBack, Walks
  <2> QED BY <1>2, <1>4, <2>1, <2>2, FitKept
<1>5. CASE /\ walk' = [walk EXCEPT ![r] = NoWalk]
           /\ method' = [method EXCEPT ![r] = "none"]
           /\ target' = [target EXCEPT ![r] = Null]
  BY <1>5, NoWalkFits, FitKept
<1> QED BY <1>3, <1>4, <1>5 DEF Arrive

LEMMA NextFits ==
  ASSUME ReadersInv, ReadersFit, [ReadersNext]_<<vars, readers>>
  PROVE  ReadersFit'
<1>1. CASE UNCHANGED readers
  BY <1>1 DEF readers, ReadersFit, CallFits, SearchFits
<1>2. ASSUME NEW r \in Readers, EstimateReturns(r) PROVE ReadersFit'
  BY <1>2, NoWalkFits, FitKept DEF EstimateReturns
<1>3. ASSUME NEW r \in Readers, ReaderCall(r) \/ ReaderStep(r) PROVE ReadersFit'
  BY <1>2, <1>3, CallFitsKept, StartFits, ForwardFits, DownFits, ArriveFits DEF ReaderStep
<1> QED BY <1>1, <1>3 DEF ReadersNext

LEMMA NextReadersOrder ==
  ASSUME ReadersOrder, [ReadersNext]_<<vars, readers>>
  PROVE  ReadersOrder'
<1>1. ReadersInv' /\ ReadersFit'
  BY NextReaders, NextFits DEF ReadersOrder
<1>2. Order'
  BY <1>1, NextOrder DEF ReadersOrder, ReadersInv, ReadersNext
<1> QED BY <1>1, <1>2 DEF ReadersOrder

LEMMA InitReadersOrder == ReadersInit => ReadersOrder
<1> SUFFICES ASSUME ReadersInit PROVE ReadersOrder
  OBVIOUS
<1>1. ReadersInv /\ Order
  BY InitReaders, InitOrder DEF ReadersInit
<1>2. ReadersFit
  BY NoWalkFits DEF ReadersInit, ReadersFit
<1> QED BY <1>1, <1>2 DEF ReadersOrder

-----------------------------------------------------------------------------
(* Where searches end                                                      *)

LEMMA ListKnown ==
  ASSUME ReadersOrder
  PROVE  /\ 0 \in Levels /\ NothingSkipped(0)
         /\ Linked(0) \subseteq Nodes /\ Null \notin Linked(0) /\ Head \notin Nodes
         /\ Null \notin Nodes
         /\ \A n \in Nodes : Key[n] \in Keys /\ Key[n] \in Int
<1>1. 0 \in Levels
  BY HeightAssumption DEF Levels
<1>2. Linked(0) \subseteq Nodes /\ Null \notin Linked(0)
  BY <1>1 DEF ReadersOrder, ReadersInv, Shape, TypeOK, Linked
<1>3. NothingSkipped(0)
  BY <1>1 DEF ReadersOrder, Order, Ordered
<1> QED BY <1>1, <1>2, <1>3, NodesAssumption, KeysAssumption

\* A search that has come to the end of level 0 stands between two neighbours.
LEMMA Between ==
  ASSUME ReadersOrder, NEW p \in OnLevel(0), NEW m \in Linked(0)
  PROVE  LET n == link[p][0]
         IN  /\ n \in Linked(0) \cup {Null}
             /\ n # Null => n \in Nodes
             /\ \/ p # Head /\ Key[m] <= Key[p]
                \/ n # Null /\ Key[n] <= Key[m]
<1> DEFINE n == link[p][0]
<1>1. n \in Linked(0) \cup {Null} /\ (p # Head => p \in Nodes)
  BY ListKnown, LinkOnLevel DEF OnLevel, ReadersOrder, ReadersInv
<1>2. CASE IsBehind(p, Key[m])
  <2>1. ~IsBeyond(n, Key[m])
    BY <1>2, ListKnown DEF NothingSkipped
  <2> QED BY <1>1, <2>1, ListKnown DEF IsBeyond
<1>3. CASE ~IsBehind(p, Key[m])
  BY <1>1, <1>3, ListKnown DEF IsBehind
<1> QED BY <1>1, <1>2, <1>3, ListKnown

\* A search has arrived early, at a node with its key, or on level 0.
LEMMA ArrivedAt ==
  ASSUME ReadersOrder, NEW r \in Readers, Arrived(walk[r])
  PROVE  LET w == walk[r]
             n == Read(w)
         IN  /\ w.x # Null /\ w.kind \in Walks
             /\ n \in Linked(0) \cup {Null}
             /\ w.x \in OnLevel(0)
             /\ w.kind # "FindLast" => IsBehind(w.x, w.key) /\ w.key \in Int
             /\ ~Equals(w, n) => w.level = 0 /\ n = link[w.x][0]
             /\ w.kind = "FindGreaterOrEqual" =>
                    IF Equals(w, n) THEN n # Null /\ Key[n] = w.key ELSE IsBeyond(n, w.key)
             /\ w.kind \in {"FindLessThan", "EstimateCount"} => ~KeyIsAfterNode(w.key, n)
             /\ w.kind = "FindLast" => n = Null
<1> DEFINE w == walk[r]
           n == Read(w)
<1> USE DEF ReadersOrder
<1>1. w.x # Null
  BY DEF Arrived
<1>2. /\ w.level \in Levels /\ w.x \in OnLevel(w.level)
      /\ n \in Linked(w.level) \cup {Null} /\ w.kind \in Walks
  BY <1>1, ReadOnLevel
<1>3. n \in Linked(0) \cup {Null}
  BY <1>2, LinkedBelow DEF ReadersInv
<1>4. w.x \in OnLevel(0)
  BY <1>2, LinkedBelow DEF ReadersInv, OnLevel
<1>5. w.kind # "FindLast" => IsBehind(w.x, w.key) /\ w.key \in Int
  <2>1. w.kind # "FindLast" => w.key \in Int
    BY <1>2, WalkKnown, KeysAssumption DEF WalkOK
  <2> QED BY <1>1, <2>1 DEF ReadersInv, CursorsLinked
<1>6. ~Equals(w, n) => w.level = 0 /\ n = link[w.x][0] /\ Reaches(w, n)
  BY DEF Arrived, Read
<1>7. CASE Equals(w, n)
  BY <1>1, <1>2, <1>3, <1>4, <1>5, <1>7 DEF Equals
<1>8. CASE ~Equals(w, n)
  <2>1. /\ w.kind = "FindGreaterOrEqual" => IsBeyond(n, w.key)
        /\ w.kind \in {"FindLessThan", "EstimateCount"} => ~KeyIsAfterNode(w.key, n)
        /\ w.kind = "FindLast" => n = Null
    BY <1>1, <1>6, <1>8, Reached
  <2> QED BY <1>1, <1>2, <1>3, <1>4, <1>5, <1>6, <1>8, <2>1
<1> QED BY <1>7, <1>8

LEMMA EstimateEnds ==
  ASSUME ReadersOrder, NEW r \in Readers, EstimateReturns(r)
  PROVE  /\ NothingBefore(r) => walk[r].count = 0
         /\ walk[r].count = 0 => NothingBefore(r) \/ walk[r].wrapped
<1> DEFINE w == walk[r]
           n == Read(w)
<1>1. w.kind = "EstimateCount" /\ w.key = target[r]
      /\ (w.x \in {Null, Head} => w.count = 0)
      /\ (w.count = 0 => w.x \in {Null, Head} \/ w.wrapped)
  BY DEF EstimateReturns, ReadersOrder, ReadersFit, CallFits, SearchFits
<1>2. /\ w.x # Null /\ w.x \in OnLevel(0) /\ n = link[w.x][0] /\ n \in Linked(0) \cup {Null}
      /\ IsBehind(w.x, w.key) /\ w.key \in Int /\ ~KeyIsAfterNode(w.key, n)
  <2>1. ~Equals(w, n)
    BY <1>1 DEF Equals
  <2> QED BY <1>1, <2>1, ArrivedAt DEF EstimateReturns
<1>3. CASE w.x = Head
  <2>1. ASSUME NEW m \in Linked(0) PROVE w.key <= Key[m]
    <3>1. n # Null /\ Key[n] <= Key[m]
      BY <1>2, <1>3, Between
    <3> QED BY <1>2, <3>1, ListKnown DEF KeyIsAfterNode
  <2> QED BY <1>1, <1>2, <1>3, <2>1 DEF NothingBefore
<1>4. CASE w.x # Head
  <2>1. w.x \in Linked(0) /\ Key[w.x] < w.key
    BY <1>2, <1>4 DEF OnLevel, IsBehind
  <2>2. ~(w.key <= Key[w.x])
    BY <1>2, <2>1, ListKnown
  <2> QED BY <1>1, <1>2, <1>4, <2>1, <2>2 DEF NothingBefore
<1> QED BY <1>3, <1>4

\* What the search of an Iterator finds, in terms of the keys of the list.
KeysOf == {Key[n] : n \in Linked(0)}

IsLeast(n, S) ==
    IF n = Null THEN S = {} ELSE Key[n] \in S /\ \A j \in S : Key[n] <= j
IsGreatest(n, S) ==
    IF n = Null THEN S = {} ELSE Key[n] \in S /\ \A j \in S : j <= Key[n]

LEMMA SeekEnds ==
  ASSUME ReadersOrder, NEW r \in Readers, Arrived(walk[r]),
         walk[r].kind = "FindGreaterOrEqual"
  PROVE  IsLeast(Answer(walk[r]), {k \in KeysOf : walk[r].key <= k})
<1> DEFINE w == walk[r]
           n == Read(w)
<1>1. /\ Answer(w) = n /\ n \in Linked(0) \cup {Null} /\ w.x \in OnLevel(0)
      /\ IsBehind(w.x, w.key) /\ w.key \in Int
      /\ ~Equals(w, n) => n = link[w.x][0]
      /\ IF Equals(w, n) THEN n # Null /\ Key[n] = w.key ELSE IsBeyond(n, w.key)
  BY ArrivedAt DEF Answer
<1>2. n # Null => Key[n] \in KeysOf /\ Key[n] \in Int /\ w.key <= Key[n]
  BY <1>1, ListKnown DEF KeysOf, IsBeyond
<1>3. ASSUME NEW m \in Linked(0), w.key <= Key[m] PROVE n # Null /\ Key[n] <= Key[m]
  <2>1. CASE Equals(w, n)
    BY <1>1, <1>3, <2>1
  <2>2. CASE ~Equals(w, n)
    <3>1. w.x # Head => ~(Key[m] <= Key[w.x])
      BY <1>1, <1>3, ListKnown DEF IsBehind, OnLevel
    <3> QED BY <1>1, <2>2, <3>1, Between
  <2> QED BY <2>1, <2>2
<1> QED BY <1>1, <1>2, <1>3 DEF IsLeast, KeysOf

LEMMA BackEnds ==
  ASSUME ReadersOrder, NEW r \in Readers, Arrived(walk[r]),
         walk[r].kind = "FindLessThan"
  PROVE  IsGreatest(Answer(walk[r]), {k \in KeysOf : k < walk[r].key})
<1> DEFINE w == walk[r]
           n == Read(w)
<1>1. /\ Answer(w) = (IF w.x = Head THEN Null ELSE w.x) /\ w.x # Null
      /\ n \in Linked(0) \cup {Null} /\ w.x \in OnLevel(0) /\ n = link[w.x][0]
      /\ IsBehind(w.x, w.key) /\ w.key \in Int /\ ~KeyIsAfterNode(w.key, n)
  <2>1. ~Equals(w, n)
    BY DEF Equals
  <2> QED BY <2>1, ArrivedAt DEF Answer
<1>2. w.x # Head => Key[w.x] \in KeysOf /\ Key[w.x] \in Int /\ Key[w.x] < w.key
  BY <1>1, ListKnown DEF KeysOf, IsBehind, OnLevel
<1>3. ASSUME NEW m \in Linked(0), Key[m] < w.key PROVE w.x # Head /\ Key[m] <= Key[w.x]
  <2>1. ~(n # Null /\ Key[n] <= Key[m])
    BY <1>1, <1>3, ListKnown DEF KeyIsAfterNode
  <2> QED BY <1>1, <2>1, Between
<1> QED BY <1>1, <1>2, <1>3 DEF IsGreatest, KeysOf

LEMMA LastEnds ==
  ASSUME ReadersOrder, NEW r \in Readers, Arrived(walk[r]), walk[r].kind = "FindLast"
  PROVE  IsGreatest(Answer(walk[r]), KeysOf)
<1> DEFINE w == walk[r]
           n == Read(w)
<1>1. /\ Answer(w) = (IF w.x = Head THEN Null ELSE w.x) /\ w.x # Null
      /\ w.x \in OnLevel(0) /\ n = link[w.x][0] /\ n = Null
  <2>1. ~Equals(w, n)
    BY DEF Equals
  <2> QED BY <2>1, ArrivedAt DEF Answer
<1>2. w.x # Head => Key[w.x] \in KeysOf
  BY <1>1 DEF KeysOf, OnLevel
<1>3. ASSUME NEW m \in Linked(0) PROVE w.x # Head /\ Key[m] <= Key[w.x]
  BY <1>1, Between
<1> QED BY <1>1, <1>2, <1>3 DEF IsGreatest, KeysOf

-----------------------------------------------------------------------------
(* The mapping to LinearizableCursor                                       *)

KeyOf(n) == IF n = Null THEN Null ELSE Key[n]

Position(r) ==
    IF node_[r] = Null \/ method[r] \notin {"none", "EstimateCount"}
    THEN Null ELSE Key[node_[r]]
Calling(r) == IF method[r] = "EstimateCount" THEN "none" ELSE method[r]
Argument(r) == IF method[r] = "EstimateCount" THEN Null ELSE target[r]

\* The functions that the cursors see.
Positions == [r \in Readers |-> Position(r)]
Callings == [r \in Readers |-> Calling(r)]
Arguments == [r \in Readers |-> Argument(r)]

LEMMA LeastIs ==
  ASSUME NEW S, S \subseteq Int, NEW n, IsLeast(n, S)
  PROVE  Cursor!Least(S) = KeyOf(n)
<1>1. CASE n = Null
  BY <1>1 DEF Cursor!Least, IsLeast, KeyOf
<1>2. CASE n # Null
  <2>1. Key[n] \in S /\ \A j \in S : Key[n] <= j
    BY <1>2 DEF IsLeast
  <2>2. ASSUME NEW k \in S, \A j \in S : k <= j PROVE k = Key[n]
    <3>1. k <= Key[n] /\ Key[n] <= k /\ k \in Int /\ Key[n] \in Int
      BY <2>1, <2>2
    <3> QED BY <3>1
  <2>3. \E k \in S : \A j \in S : k <= j
    BY <2>1
  <2>4. LET c == CHOOSE k \in S : \A j \in S : k <= j
        IN  c \in S /\ \A j \in S : c <= j
    BY <2>3
  <2>5. (CHOOSE k \in S : \A j \in S : k <= j) = Key[n]
    BY <2>2, <2>4
  <2> QED BY <1>2, <2>1, <2>5 DEF Cursor!Least, KeyOf
<1> QED BY <1>1, <1>2

LEMMA GreatestIs ==
  ASSUME NEW S, S \subseteq Int, NEW n, IsGreatest(n, S)
  PROVE  Cursor!Greatest(S) = KeyOf(n)
<1>1. CASE n = Null
  BY <1>1 DEF Cursor!Greatest, IsGreatest, KeyOf
<1>2. CASE n # Null
  <2>1. Key[n] \in S /\ \A j \in S : j <= Key[n]
    BY <1>2 DEF IsGreatest
  <2>2. ASSUME NEW k \in S, \A j \in S : j <= k PROVE k = Key[n]
    <3>1. Key[n] <= k /\ k <= Key[n] /\ k \in Int /\ Key[n] \in Int
      BY <2>1, <2>2
    <3> QED BY <3>1
  <2>3. \E k \in S : \A j \in S : j <= k
    BY <2>1
  <2>4. LET c == CHOOSE k \in S : \A j \in S : j <= k
        IN  c \in S /\ \A j \in S : j <= c
    BY <2>3
  <2>5. (CHOOSE k \in S : \A j \in S : j <= k) = Key[n]
    BY <2>2, <2>4
  <2> QED BY <1>2, <2>1, <2>5 DEF Cursor!Greatest, KeyOf
<1> QED BY <1>1, <1>2

LEMMA KeysOfInt ==
  ASSUME ReadersOrder
  PROVE  KeysOf \subseteq Int
BY ListKnown DEF KeysOf

\* The steps of the cursors, in terms of the mapping.
LEMMA CursorStutters ==
  ASSUME KeysOf' = KeysOf, Positions' = Positions, Callings' = Callings,
         Arguments' = Arguments
  PROVE  UNCHANGED Cursor!vars
BY DEF Cursor!vars, KeysOf, Positions, Position, Callings, Calling, Arguments, Argument

LEMMA CursorInvokes ==
  ASSUME NEW r \in Readers, NEW o, NEW k, Callings[r] = "none",
         o = "Prev" => k = Positions[r],
         Callings' = [Callings EXCEPT ![r] = o], Arguments' = [Arguments EXCEPT ![r] = k],
         Positions' = [Positions EXCEPT ![r] = Null], KeysOf' = KeysOf
  PROVE  Cursor!Invoke(r, o, k)
BY DEF Cursor!Invoke, KeysOf, Positions, Position, Callings, Calling, Arguments, Argument

LEMMA CursorMoves ==
  ASSUME NEW r \in Readers, Callings[r] # "none",
         Positions' = [Positions EXCEPT ![r] = Cursor!Target(Callings[r], Arguments[r])],
         Callings' = [Callings EXCEPT ![r] = "none"],
         Arguments' = [Arguments EXCEPT ![r] = Null], KeysOf' = KeysOf
  PROVE  Cursor!Move(r)
BY DEF Cursor!Move, KeysOf, Positions, Position, Callings, Calling, Arguments, Argument

LEMMA CursorSeeksFirst ==
  ASSUME NEW r \in Readers, Callings[r] = "none",
         Positions' = [Positions EXCEPT ![r] = Cursor!Least(KeysOf)],
         Callings' = Callings, Arguments' = Arguments, KeysOf' = KeysOf
  PROVE  Cursor!SeekToFirst(r)
BY DEF Cursor!SeekToFirst, KeysOf, Positions, Position, Callings, Calling, Arguments, Argument

LEMMA CursorAdvances ==
  ASSUME NEW r \in Readers, Callings[r] = "none", Positions[r] # Null,
         Positions' = [Positions EXCEPT ![r] =
                           Cursor!Least({k \in KeysOf : Positions[r] < k})],
         Callings' = Callings, Arguments' = Arguments, KeysOf' = KeysOf
  PROVE  Cursor!Advance(r)
BY DEF Cursor!Advance, KeysOf, Positions, Position, Callings, Calling, Arguments, Argument

\* What the target of a call is.
LEMMA Targets ==
  ASSUME NEW a
  PROVE  /\ Cursor!Target("Seek", a) = Cursor!Least({k \in KeysOf : a <= k})
         /\ Cursor!Target("SeekForPrev", a) = Cursor!Greatest({k \in KeysOf : k <= a})
         /\ Cursor!Target("Prev", a) = Cursor!Greatest({k \in KeysOf : k < a})
         /\ Cursor!Target("SeekToLast", a) = Cursor!Greatest(KeysOf)
BY DEF Cursor!Target, KeysOf

\* A step of reader r looks to the cursors like a step of cursor r alone.
LEMMA CursorMapped ==
  ASSUME UNCHANGED vars, NEW r \in Readers,
         \A q \in Readers : q # r => /\ node_'[q] = node_[q] /\ method'[q] = method[q]
                                     /\ target'[q] = target[q]
  PROVE  /\ KeysOf' = KeysOf
         /\ Positions' = [Positions EXCEPT ![r] = Position(r)']
         /\ Callings' = [Callings EXCEPT ![r] = Calling(r)']
         /\ Arguments' = [Arguments EXCEPT ![r] = Argument(r)']
<1>1. KeysOf' = KeysOf
  BY DEF vars, list, KeysOf, Linked
<1>2. \A q \in Readers : q # r => /\ Position(q)' = Position(q) /\ Calling(q)' = Calling(q)
                                  /\ Argument(q)' = Argument(q)
  BY DEF Position, Calling, Argument
<1>3. /\ Positions' = [q \in Readers |-> Position(q)']
      /\ Callings' = [q \in Readers |-> Calling(q)']
      /\ Arguments' = [q \in Readers |-> Argument(q)']
  BY DEF Positions, Callings, Arguments
<1>4. Positions' = [Positions EXCEPT ![r] = Position(r)']
  BY <1>2, <1>3 DEF Positions
<1>5. Callings' = [Callings EXCEPT ![r] = Calling(r)']
  BY <1>2, <1>3 DEF Callings
<1>6. Arguments' = [Arguments EXCEPT ![r] = Argument(r)']
  BY <1>2, <1>3 DEF Arguments
<1> QED BY <1>1, <1>4, <1>5, <1>6

\* A step of r that the cursors do not see.
LEMMA CursorQuiet ==
  ASSUME UNCHANGED vars, NEW r \in Readers,
         \A q \in Readers : q # r => /\ node_'[q] = node_[q] /\ method'[q] = method[q]
                                     /\ target'[q] = target[q],
         Position(r)' = Position(r), Calling(r)' = Calling(r), Argument(r)' = Argument(r)
  PROVE  UNCHANGED Cursor!vars
<1>1. /\ KeysOf' = KeysOf
      /\ Positions' = [Positions EXCEPT ![r] = Position(r)]
      /\ Callings' = [Callings EXCEPT ![r] = Calling(r)]
      /\ Arguments' = [Arguments EXCEPT ![r] = Argument(r)]
  BY CursorMapped
<1>2. Positions' = Positions /\ Callings' = Callings /\ Arguments' = Arguments
  BY <1>1 DEF Positions, Callings, Arguments
<1> QED BY <1>1, <1>2, CursorStutters

-----------------------------------------------------------------------------
(* Every step is a step of the cursors                                     *)

LEMMA ListGrows ==
  ASSUME Shape, Links, [Next]_vars
  PROVE  Linked(0)' = Linked(0) \/ \E n \in Nodes : Linked(0)' = Linked(0) \cup {n}
<1>0. 0 \in Levels
  BY HeightAssumption DEF Levels
<1>1. CASE UNCHANGED link
  BY <1>0, <1>1, SameLinks
<1>2. ASSUME NEW t \in Threads, PrepareLink(t) PROVE Linked(0)' = Linked(0)
  BY <1>0, <1>2, PrepareLinkStep
<1>3. ASSUME NEW t \in Threads, PublishLink(t)
      PROVE  Linked(0)' = Linked(0) \/ \E n \in Nodes : Linked(0)' = Linked(0) \cup {n}
  <2>1. PICK lv \in Levels : lv = level[t]
    BY DEF Shape, TypeOK
  <2>2. /\ \A l \in Levels : l # lv => Linked(l)' = Linked(l)
        /\ Linked(lv)' = Linked(lv) \cup {x[t]}
    BY <1>3, <2>1, PublishLinkStep
  <2>3. x[t] \in Nodes
    BY <1>3, AboutToLink DEF PublishLink
  <2> QED BY <1>0, <2>2, <2>3
<1>4. ASSUME NEW t \in Threads, Call(t) PROVE UNCHANGED link
  <2>1. ASSUME NEW n, NEW h, NEW s, NEW c, NEW f, InsertCall(t, n, h, s, c, f)
        PROVE  UNCHANGED link
    BY <2>1 DEF InsertCall
  <2>2. ASSUME NEW k, ContainsCall(t, k) PROVE UNCHANGED link
    BY <2>2 DEF ContainsCall, list
  <2> QED BY <1>4, <2>1, <2>2 DEF Call, Insert, InsertConcurrently, InsertWithHint
<1>5. ASSUME NEW t \in Threads, Step(t), ~PrepareLink(t), ~PublishLink(t) PROVE UNCHANGED link
  BY <1>5 DEF Step, list, SeekAdvance, SeekDescend, SeekReturn, CASMaxHeight, ReloadMaxHeight,
     OpenSplice, ReuseSplice, CheckSplice, FindAdvance, FindDescend, Refound, LinkStale,
     LinkDuplicate, CASFailed, FinishInsert, Return
<1>6. UNCHANGED vars => UNCHANGED link
  BY DEF vars, list
<1> QED BY <1>1, <1>2, <1>3, <1>4, <1>5, <1>6 DEF Next

\* An insert adds at most one key to what the cursors read.
LEMMA ListStepGrows ==
  ASSUME ReadersOrder, [Next]_vars, UNCHANGED readers
  PROVE  Cursor!Grow \/ UNCHANGED Cursor!vars
<1>1. Positions' = Positions /\ Callings' = Callings /\ Arguments' = Arguments
  BY DEF readers, Positions, Position, Callings, Calling, Arguments, Argument
<1>2. CASE Linked(0)' = Linked(0)
  <2>1. KeysOf' = KeysOf
    BY <1>2 DEF KeysOf
  <2> QED BY <1>1, <2>1, CursorStutters
<1>3. ASSUME NEW n \in Nodes, Linked(0)' = Linked(0) \cup {n} PROVE Cursor!Grow
  <2>1. KeysOf' = KeysOf \cup {Key[n]} /\ Key[n] \in Keys
    BY <1>3, KeysAssumption DEF KeysOf
  <2> QED BY <1>1, <2>1
          DEF Cursor!Grow, KeysOf, Positions, Position, Callings, Calling, Arguments, Argument
<1> QED BY <1>2, <1>3, ListGrows DEF ReadersOrder, ReadersInv

LEMMA BeginInvokes ==
  ASSUME ReadersOrder, UNCHANGED vars, NEW r \in Readers,
         NEW m \in Methods \ {"EstimateCount"}, NEW k, NEW w, Begin(r, m, k, w),
         m = "Prev" => node_[r] # Null /\ k = Key[node_[r]]
  PROVE  Cursor!Invoke(r, m, k)
<1>1. /\ method[r] = "none" /\ method'[r] = m /\ target'[r] = k /\ UNCHANGED node_
      /\ \A q \in Readers : q # r => /\ node_'[q] = node_[q] /\ method'[q] = method[q]
                                     /\ target'[q] = target[q]
  BY DEF Begin, ReadersOrder, ReadersInv, ReadersTypeOK
<1>2. /\ Calling(r) = "none" /\ Calling(r)' = m /\ Argument(r)' = k /\ Position(r)' = Null
      /\ m = "Prev" => k = Position(r)
  BY <1>1 DEF Calling, Argument, Position, Methods
<1>3. Callings[r] = "none" /\ Positions[r] = Position(r)
  BY <1>2 DEF Callings, Positions
<1> QED BY <1>1, <1>2, <1>3, CursorMapped, CursorInvokes

\* Where SeekToFirst and Next go.
LEMMA NextIsLeast ==
  ASSUME ReadersOrder, NEW p \in OnLevel(0)
  PROVE  IsLeast(link[p][0], {k \in KeysOf : p = Head \/ Key[p] < k})
<1> DEFINE n == link[p][0]
<1>1. n \in Linked(0) \cup {Null} /\ p \in Nodes \cup {Head}
  BY ListKnown, LinkOnLevel DEF OnLevel, ReadersOrder, ReadersInv
<1>2. n # Null => Key[n] \in KeysOf /\ (p = Head \/ Key[p] < Key[n])
  BY <1>1, ListKnown DEF KeysOf, NothingSkipped, IsBehind
<1>3. ASSUME NEW m \in Linked(0), p = Head \/ Key[p] < Key[m]
      PROVE  n # Null /\ Key[n] <= Key[m]
  <2>1. ~(p # Head /\ Key[m] <= Key[p])
    BY <1>1, <1>3, ListKnown
  <2> QED BY <2>1, Between
<1> QED BY <1>2, <1>3 DEF IsLeast, KeysOf

LEMMA FirstMoves ==
  ASSUME ReadersOrder, UNCHANGED vars, NEW r \in Readers, SeekToFirst(r)
  PROVE  Cursor!SeekToFirst(r)
<1>1. /\ method[r] = "none" /\ node_'[r] = link[Head][0] /\ UNCHANGED <<method, target>>
      /\ \A q \in Readers : q # r => /\ node_'[q] = node_[q] /\ method'[q] = method[q]
                                     /\ target'[q] = target[q]
  BY DEF SeekToFirst, ReadersOrder, ReadersInv, ReadersTypeOK
<1>2. {k \in KeysOf : Head = Head \/ Key[Head] < k} = KeysOf
  OBVIOUS
<1>3. Cursor!Least(KeysOf) = KeyOf(link[Head][0])
  <2>1. IsLeast(link[Head][0], KeysOf)
    BY <1>2, NextIsLeast DEF OnLevel
  <2> QED BY <2>1, KeysOfInt, LeastIs
<1>4. /\ Calling(r) = "none" /\ Calling(r)' = Calling(r) /\ Argument(r)' = Argument(r)
      /\ Position(r)' = KeyOf(link[Head][0])
  <2>1. UNCHANGED link
    BY DEF vars, list
  <2> QED BY <1>1, <2>1 DEF Calling, Argument, Position, KeyOf
<1>5. Callings[r] = "none" /\ Callings' = Callings /\ Arguments' = Arguments
  BY <1>1, <1>4, CursorMapped DEF Callings, Arguments
<1> QED BY <1>1, <1>3, <1>4, <1>5, CursorMapped, CursorSeeksFirst

LEMMA NextAdvances ==
  ASSUME ReadersOrder, UNCHANGED vars, NEW r \in Readers, Next_(r)
  PROVE  Cursor!Advance(r)
<1> DEFINE p == node_[r]
<1>1. /\ method[r] = "none" /\ p # Null /\ node_'[r] = link[p][0]
      /\ UNCHANGED <<method, target>>
      /\ \A q \in Readers : q # r => /\ node_'[q] = node_[q] /\ method'[q] = method[q]
                                     /\ target'[q] = target[q]
  BY DEF Next_, ReadersOrder, ReadersInv, ReadersTypeOK
<1>2. p \in Linked(0) /\ p # Head /\ p \in OnLevel(0)
  BY <1>1, ListKnown DEF ReadersOrder, ReadersInv, CursorsLinked, OnLevel
<1>3. Cursor!Least({k \in KeysOf : Key[p] < k}) = KeyOf(link[p][0])
  <2>1. {k \in KeysOf : p = Head \/ Key[p] < k} = {k \in KeysOf : Key[p] < k}
    BY <1>2
  <2>2. IsLeast(link[p][0], {k \in KeysOf : Key[p] < k})
    BY <1>2, <2>1, NextIsLeast
  <2> QED BY <2>2, KeysOfInt, LeastIs
<1>4. /\ Calling(r) = "none" /\ Calling(r)' = Calling(r) /\ Argument(r)' = Argument(r)
      /\ Position(r) = Key[p] /\ Position(r)' = KeyOf(link[p][0])
  <2>1. UNCHANGED link
    BY DEF vars, list
  <2> QED BY <1>1, <2>1 DEF Calling, Argument, Position, KeyOf
<1>5. Key[p] # Null
  BY <1>2, ListKnown, ReadersAssumption
<1>6. Callings[r] = "none" /\ Callings' = Callings /\ Arguments' = Arguments
  BY <1>1, <1>4, CursorMapped DEF Callings, Arguments
<1>7. Positions[r] = Key[p]
  BY <1>4 DEF Positions
<1> QED BY <1>1, <1>3, <1>4, <1>5, <1>6, <1>7, CursorMapped, CursorAdvances

\* A call that is over has found the node the abstract cursor moves to.
LEMMA ArrivesAtTarget ==
  ASSUME ReadersOrder, NEW r \in Readers, Arrived(walk[r]),
         method[r] \in Methods \ {"EstimateCount"},
         method[r] = "SeekForPrev" =>
             LET n == Answer(walk[r]) IN ~FallsBack(r, n) /\ ~StepsBack(r, n)
  PROVE  KeyOf(Answer(walk[r])) = Cursor!Target(method[r], target[r])
<1> DEFINE w == walk[r]
           n == Answer(w)
           a == target[r]
<1>1. CallFits(method[r], a, w)
  BY DEF ReadersOrder, ReadersFit
<1>2. KeysOf \subseteq Int
  BY KeysOfInt
<1>3. CASE method[r] = "Seek"
  <2>1. IsLeast(n, {k \in KeysOf : a <= k})
    BY <1>1, <1>3, SeekEnds DEF CallFits
  <2> QED BY <1>2, <1>3, <2>1, LeastIs, Targets
<1>4. CASE method[r] = "Prev"
  <2>1. IsGreatest(n, {k \in KeysOf : k < a})
    BY <1>1, <1>4, BackEnds DEF CallFits
  <2> QED BY <1>2, <1>4, <2>1, GreatestIs, Targets
<1>5. CASE method[r] = "SeekToLast"
  <2>1. IsGreatest(n, KeysOf)
    BY <1>1, <1>5, LastEnds DEF CallFits
  <2> QED BY <1>2, <1>5, <2>1, GreatestIs, Targets
<1>6. CASE method[r] = "SeekForPrev"
  <2>1. a \in Int /\ \A k \in KeysOf : k \in Int
    BY <1>1, <1>2, <1>6, KeysAssumption DEF CallFits
  <2>a. w.kind = "FindGreaterOrEqual" => n # Null
    BY <1>6 DEF FallsBack
  <2>b. n # Null => ~(a < Key[n])
    BY <1>6 DEF StepsBack
  <2> HIDE DEF n, a, w
  <2>2. IsGreatest(n, {k \in KeysOf : k <= a})
    <3>1. CASE w.kind = "FindGreaterOrEqual" /\ w.key = a
      <4>1. n # Null /\ IsLeast(n, {k \in KeysOf : a <= k})
        BY <2>a, <3>1, SeekEnds DEF w, n
      <4>2. Key[n] \in KeysOf /\ a <= Key[n]
        BY <4>1 DEF IsLeast
      <4>3. Key[n] = a
        BY <2>1, <2>b, <4>1, <4>2
      <4> QED BY <4>1, <4>2, <4>3 DEF IsGreatest
    <3>2. CASE w.kind = "FindLast"
      <4>1. IsGreatest(n, KeysOf)
        BY <3>2, LastEnds DEF w, n
      <4> QED BY <2>1, <2>b, <4>1 DEF IsGreatest
    <3>3. CASE w.kind = "FindLessThan" /\ a < w.key
      <4>1. IsGreatest(n, {k \in KeysOf : k < w.key})
        BY <3>3, BackEnds DEF w, n
      <4>2. w.key \in Int
        BY <3>3, ArrivedAt DEF w
      <4>3. \A k \in KeysOf : k <= a => k < w.key
        BY <2>1, <3>3, <4>2
      <4> QED BY <2>1, <2>b, <4>1, <4>3 DEF IsGreatest
    <3> QED BY <1>1, <1>6, <3>1, <3>2, <3>3 DEF CallFits
  <2>3. {k \in KeysOf : k <= a} \subseteq Int
    BY <2>1
  <2> QED BY <1>6, <2>2, <2>3, GreatestIs, Targets DEF a, n, w
<1> QED BY <1>3, <1>4, <1>5, <1>6 DEF Methods

LEMMA ArriveMovesCursor ==
  ASSUME ReadersOrder, UNCHANGED vars, NEW r \in Readers, Arrive(r)
  PROVE  Cursor!Move(r) \/ UNCHANGED Cursor!vars
<1> DEFINE n == Answer(walk[r])
           again == method[r] = "SeekForPrev"
<1>1. /\ node_'[r] = n /\ Arrived(walk[r])
      /\ \A q \in Readers : q # r => node_'[q] = node_[q]
  BY DEF Arrive, ReadersOrder, ReadersInv, ReadersTypeOK
<1>2. method[r] \in Methods \ {"EstimateCount"}
  <2>1. walk[r].kind \in Walks
    BY <1>1, ArrivedAt
  <2>2. method[r] # "none"
    BY <2>1 DEF ReadersOrder, ReadersFit, CallFits, Walks
  <2> QED BY <2>2, WalkKnown DEF Arrive, ReadersOrder
<1>3. CASE again /\ UNCHANGED <<method, target>>
  <2>1. Position(r)' = Position(r) /\ Calling(r)' = Calling(r) /\ Argument(r)' = Argument(r)
    BY <1>2, <1>3 DEF Position, Calling, Argument
  <2> QED BY <1>1, <1>3, <2>1, CursorQuiet
<1>4. CASE /\ ~(again /\ (FallsBack(r, n) \/ StepsBack(r, n)))
           /\ method' = [method EXCEPT ![r] = "none"]
           /\ target' = [target EXCEPT ![r] = Null]
  <2>1. /\ method'[r] = "none" /\ target'[r] = Null
        /\ \A q \in Readers : q # r => /\ node_'[q] = node_[q] /\ method'[q] = method[q]
                                       /\ target'[q] = target[q]
    BY <1>1, <1>4 DEF ReadersOrder, ReadersInv, ReadersTypeOK
  <2>2. /\ Calling(r) = method[r] /\ Argument(r) = target[r]
        /\ Calling(r)' = "none" /\ Argument(r)' = Null /\ Position(r)' = KeyOf(n)
    BY <1>1, <1>2, <2>1 DEF Calling, Argument, Position, KeyOf
  <2>3. KeyOf(n) = Cursor!Target(method[r], target[r])
    BY <1>1, <1>2, <1>4, ArrivesAtTarget
  <2>4. Callings[r] = method[r] /\ Arguments[r] = target[r] /\ Callings[r] # "none"
    BY <1>2, <2>2 DEF Callings, Arguments, Methods
  <2> QED BY <2>1, <2>2, <2>3, <2>4, CursorMapped, CursorMoves
<1> QED BY <1>3, <1>4 DEF Arrive

LEMMA InitCursor == ReadersInit => Cursor!Init
<1> SUFFICES ASSUME ReadersInit PROVE Cursor!Init
  OBVIOUS
<1>1. Linked(0) = {}
  <2>1. 0 \in Levels
    BY HeightAssumption DEF Levels
  <2> QED BY <2>1 DEF ReadersInit, Init, Linked
<1>2. KeysOf = {}
  BY <1>1 DEF KeysOf
<1>3. \A r \in Readers : Position(r) = Null /\ Calling(r) = "none" /\ Argument(r) = Null
  BY DEF ReadersInit, Position, Calling, Argument
<1>4. /\ Positions = [r \in Readers |-> Null]
      /\ Callings = [r \in Readers |-> "none"]
      /\ Arguments = [r \in Readers |-> Null]
  BY <1>3 DEF Positions, Callings, Arguments
<1> QED BY <1>2, <1>4
        DEF Cursor!Init, KeysOf, Positions, Position, Callings, Calling, Arguments, Argument

LEMMA CallMovesCursor ==
  ASSUME ReadersOrder, UNCHANGED vars, NEW r \in Readers, ReaderCall(r)
  PROVE  Cursor!Next \/ UNCHANGED Cursor!vars
<1>1. ASSUME NEW k \in Keys, Seek(r, k) PROVE Cursor!Next
  <2>1. Cursor!Invoke(r, "Seek", k)
    BY <1>1, BeginInvokes DEF Seek, Methods
  <2> QED BY <2>1 DEF Cursor!Next
<1>2. ASSUME NEW k \in Keys, SeekForPrev(r, k) PROVE Cursor!Next
  <2>1. Cursor!Invoke(r, "SeekForPrev", k)
    BY <1>2, BeginInvokes DEF SeekForPrev, Methods
  <2> QED BY <2>1 DEF Cursor!Next
<1>3. CASE SeekToLast(r)
  <2>1. Cursor!Invoke(r, "SeekToLast", Null)
    BY <1>3, BeginInvokes DEF SeekToLast, Methods
  <2> QED BY <2>1 DEF Cursor!Next
<1>4. CASE Prev_(r)
  <2>1. Key[node_[r]] \in Keys
    BY <1>4, WalkKnown, KeysAssumption DEF Prev_, ReadersOrder
  <2>2. PICK k \in Keys : k = Key[node_[r]]
    BY <2>1
  <2>3. node_[r] # Null /\ Begin(r, "Prev", k, Walk("FindLessThan", k))
    BY <1>4, <2>2 DEF Prev_
  <2>4. Cursor!Invoke(r, "Prev", k)
    BY <2>2, <2>3, BeginInvokes DEF Methods
  <2> QED BY <2>4 DEF Cursor!Next
<1>5. CASE SeekToFirst(r)
  BY <1>5, FirstMoves DEF Cursor!Next
<1>6. CASE Next_(r)
  BY <1>6, NextAdvances DEF Cursor!Next
<1>7. ASSUME NEW k \in Keys, EstimateCount(r, k) PROVE UNCHANGED Cursor!vars
  <2>1. /\ method[r] = "none" /\ method'[r] = "EstimateCount" /\ UNCHANGED node_
        /\ \A q \in Readers : q # r => /\ node_'[q] = node_[q] /\ method'[q] = method[q]
                                       /\ target'[q] = target[q]
    BY <1>7 DEF EstimateCount, Begin, ReadersOrder, ReadersInv, ReadersTypeOK
  <2>2. target[r] = Null
    BY <2>1 DEF ReadersOrder, ReadersFit, CallFits
  <2>3. Position(r)' = Position(r) /\ Calling(r)' = Calling(r) /\ Argument(r)' = Argument(r)
    BY <2>1, <2>2 DEF Position, Calling, Argument
  <2> QED BY <2>1, <2>3, CursorQuiet
<1> QED BY <1>1, <1>2, <1>3, <1>4, <1>5, <1>6, <1>7 DEF ReaderCall

LEMMA StepMovesCursor ==
  ASSUME ReadersOrder, UNCHANGED vars, NEW r \in Readers, ReaderStep(r)
  PROVE  Cursor!Next \/ UNCHANGED Cursor!vars
<1>1. CASE StartWalk(r) \/ Forward(r) \/ Down(r)
  <2>1. UNCHANGED <<node_, method, target>>
    BY <1>1 DEF StartWalk, Forward, Down
  <2>2. Position(r)' = Position(r) /\ Calling(r)' = Calling(r) /\ Argument(r)' = Argument(r)
    BY <2>1 DEF Position, Calling, Argument
  <2> QED BY <2>1, <2>2, CursorQuiet
<1>2. CASE Arrive(r)
  BY <1>2, ArriveMovesCursor DEF Cursor!Next
<1>3. CASE EstimateReturns(r)
  <2>1. /\ method[r] = "EstimateCount" /\ method'[r] = "none" /\ target'[r] = Null
        /\ UNCHANGED node_
        /\ \A q \in Readers : q # r => /\ node_'[q] = node_[q] /\ method'[q] = method[q]
                                       /\ target'[q] = target[q]
    BY <1>3 DEF EstimateReturns, ReadersOrder, ReadersInv, ReadersTypeOK
  <2>2. Position(r)' = Position(r) /\ Calling(r)' = Calling(r) /\ Argument(r)' = Argument(r)
    BY <2>1 DEF Position, Calling, Argument
  <2> QED BY <2>1, <2>2, CursorQuiet
<1> QED BY <1>1, <1>2, <1>3 DEF ReaderStep

LEMMA NextCursor ==
  ASSUME ReadersOrder, [ReadersNext]_<<vars, readers>>
  PROVE  [Cursor!Next]_(Cursor!vars)
<1>1. CASE UNCHANGED <<vars, readers>>
  BY <1>1, ListStepGrows DEF Cursor!Next
<1>2. CASE Next /\ UNCHANGED readers
  BY <1>2, ListStepGrows DEF Cursor!Next
<1>3. ASSUME NEW r \in Readers, ReaderCall(r) \/ ReaderStep(r), UNCHANGED vars
      PROVE  [Cursor!Next]_(Cursor!vars)
  BY <1>3, CallMovesCursor, StepMovesCursor
<1> QED BY <1>1, <1>2, <1>3 DEF ReadersNext

-----------------------------------------------------------------------------
(* The theorems                                                            *)

LEMMA ReadersOrderInvariant == ReadersSpec => []ReadersOrder
<1>1. ReadersOrder /\ [ReadersNext]_<<vars, readers>> => ReadersOrder'
  BY NextReadersOrder
<1> QED BY <1>1, InitReadersOrder, PTL DEF ReadersSpec

\* EstimateCount answers 0 if no node lies before the key when it returns, and
\* otherwise only if its uint64_t has overflowed, however many inserts ran since
\* its search began and for every width of the count.
THEOREM EstimateCountsNone == ReadersSpec => EstimatesNone
<1>1. ReadersOrder /\ [ReadersNext]_<<vars, readers>> =>
          [\A r \in Readers : EstimateReturns(r) =>
               /\ NothingBefore(r) => walk[r].count = 0
               /\ walk[r].count = 0 => NothingBefore(r) \/ walk[r].wrapped]_<<vars, readers>>
  BY EstimateEnds
<1> QED BY <1>1, ReadersOrderInvariant, PTL DEF ReadersSpec, EstimatesNone

\* Each call of an Iterator moves it at one instant to the key the list has for
\* it at that instant: a scan is in order and misses nothing, Prev passes over
\* no key, and SeekForPrev ends on the last key not after its target, whatever
\* was inserted between its searches.
THEOREM CursorRefined == ReadersSpec => LinearizableReads
<1>1. ReadersOrder /\ [ReadersNext]_<<vars, readers>> => [Cursor!Next]_(Cursor!vars)
  BY NextCursor
<1>2. ReadersInit => Cursor!Init
  BY InitCursor
<1> QED BY <1>1, <1>2, ReadersOrderInvariant, PTL DEF ReadersSpec, LinearizableReads, Cursor!Spec

-----------------------------------------------------------------------------
(* The list's own self-test                                                *)

\* f(c) is whether the test passes at c and at all that its steps lead to.
IsTest(f, S, stops, step, pass) ==
    f = [c \in S |-> IF c \in stops THEN pass[c] ELSE pass[c] /\ f[step[c]]]

\* There is such a function, whether the test ends or not.
LEMMA TestExists ==
  ASSUME NEW S, NEW stops \in SUBSET S, NEW step, \A c \in S \ stops : step[c] \in S,
         NEW pass \in [S -> BOOLEAN]
  PROVE  \E f : IsTest(f, S, stops, step, pass)
<1> DEFINE Closed(T) == \A d \in T \ stops : step[d] \in T
           Clean(T) == Closed(T) /\ \A d \in T : pass[d]
           Passes(c) == \E T \in SUBSET S : c \in T /\ Clean(T)
           f == [c \in S |-> Passes(c)]
<1>1. ASSUME NEW c \in stops PROVE Passes(c) <=> pass[c]
  <2>1. ASSUME pass[c] PROVE Passes(c)
    <3>1. c \in {c} /\ {c} \in SUBSET S /\ Clean({c})
      BY <2>1, <1>1
    <3> QED BY <3>1
  <2> QED BY <2>1
<1>2. ASSUME NEW c \in S \ stops PROVE Passes(c) <=> pass[c] /\ Passes(step[c])
  <2>1. ASSUME pass[c], Passes(step[c]) PROVE Passes(c)
    <3>1. PICK T \in SUBSET S : step[c] \in T /\ Clean(T)
      BY <2>1
    <3>2. c \in T \cup {c} /\ T \cup {c} \in SUBSET S /\ Clean(T \cup {c})
      BY <2>1, <3>1
    <3> QED BY <3>2
  <2>2. ASSUME Passes(c) PROVE pass[c] /\ Passes(step[c])
    BY <1>2, <2>2
  <2> QED BY <2>1, <2>2
<1> HIDE DEF Passes
<1>3. \A c \in S : Passes(c) \in BOOLEAN /\ f[c] = Passes(c)
  BY DEF Passes
<1>4. ASSUME NEW c \in S
      PROVE  Passes(c) = IF c \in stops THEN pass[c] ELSE pass[c] /\ f[step[c]]
  <2>1. CASE c \in stops
    BY <1>1, <1>3, <2>1
  <2>2. CASE c \notin stops
    <3>1. f[step[c]] = Passes(step[c])
      BY <1>3, <2>2
    <3> QED BY <1>2, <1>3, <2>2, <3>1
  <2> QED BY <2>1, <2>2
<1>5. f = [c \in S |-> IF c \in stops THEN pass[c] ELSE pass[c] /\ f[step[c]]]
  BY <1>4
<1> QED BY <1>5 DEF IsTest

\* A test that passes on all of T passes, if its steps stay in T and leave every
\* part of T, or end in it.
LEMMA TestPasses ==
  ASSUME NEW S, NEW stops, NEW step, NEW pass, NEW f, IsTest(f, S, stops, step, pass),
         NEW T \in SUBSET S, \A c \in T : pass[c], \A c \in T \ stops : step[c] \in T,
         \A B \in SUBSET T : B # {} => \E c \in B : c \in stops \/ step[c] \notin B
  PROVE  \A c \in T : f[c]
<1> DEFINE B == {c \in T : ~f[c]}
<1> SUFFICES ASSUME B # {} PROVE FALSE
  OBVIOUS
<1>1. B \in SUBSET T
  OBVIOUS
<1>2. PICK c \in B : c \in stops \/ step[c] \notin B
  <2> HIDE DEF B
  <2> QED BY <1>1
<1>3. f[c] = IF c \in stops THEN pass[c] ELSE pass[c] /\ f[step[c]]
  BY DEF IsTest
<1> QED BY <1>2, <1>3

\* p is the last node of level l that does not lie behind q.
LastUpTo(p, l, q) ==
    /\ p \in OnLevel(l)
    /\ p = Head \/ (q # Head /\ Key[p] <= Key[q])
    /\ link[p][l] # Null => IsBehind(q, Key[link[p][l]])

Heights == 0 .. max_height_ - 1

\* Where TEST_Validate stands between two rounds.
InStep(nodes) ==
    /\ nodes \in [Heights -> Nodes \cup {Head}] /\ nodes[0] \in OnLevel(0)
    /\ \A l \in Heights : LastUpTo(nodes[l], l, nodes[0])

\* Of any nodes of the list, one is the last.
Ends == \A S \in SUBSET Linked(0) : S # {} => \E n \in S : \A m \in S : Key[m] <= Key[n]

LEMMA TestKnown ==
  ASSUME ReadersOrder
  PROVE  /\ max_height_ \in 1 .. kMaxHeight /\ 0 \in Heights /\ Heights \subseteq Levels
         /\ link \in [Nodes \cup {Head} -> [Levels -> Nodes \cup {Null}]]
         /\ \A l \in Heights : /\ NothingSkipped(l) /\ Linked(l) \subseteq Linked(0)
                               /\ OnLevel(l) \subseteq Nodes \cup {Head}
                               /\ \A k \in 0 .. l : Linked(l) \subseteq Linked(k)
         /\ \A m, n \in Linked(0) : Key[m] = Key[n] => m = n
<1>1. /\ max_height_ \in 1 .. kMaxHeight
      /\ link \in [Nodes \cup {Head} -> [Levels -> Nodes \cup {Null}]]
  BY DEF ReadersOrder, ReadersInv, Shape, TypeOK
<1>2. 0 \in Heights /\ Heights \subseteq Levels
  BY <1>1, HeightAssumption DEF Heights, Levels
<1>3. \A l \in Levels : NothingSkipped(l)
  BY DEF ReadersOrder, Order, Ordered
<1>4. \A l \in Levels : Linked(l) \subseteq Linked(0) /\ Linked(l) \subseteq Nodes
  BY LinkedBelow DEF ReadersOrder, ReadersInv
<1>5. \A l \in Levels : \A k \in 0 .. l : Linked(l) \subseteq Linked(k)
  BY DEF ReadersOrder, ReadersInv, Links, Nested
<1>6. \A l \in Levels : \A k \in 0 .. l : k \in Levels
  BY HeightAssumption DEF Levels
<1>7. \A m, n \in Linked(0) : Key[m] = Key[n] => m = n
  BY DEF ReadersOrder, Order, DistinctKeys
<1> QED BY <1>1, <1>2, <1>3, <1>4, <1>5, <1>6, <1>7 DEF OnLevel

\* One round: what the node n after nodes[0] means on each level.
LEMMA RoundFacts ==
  ASSUME ReadersOrder, NEW nodes, InStep(nodes), link[nodes[0]][0] # Null,
         NEW l \in Heights
  PROVE  LET n == link[nodes[0]][0]
             m == link[nodes[l]][l]
         IN  /\ n \in Linked(0) /\ IsBehind(nodes[0], Key[n])
             /\ m # Null => m \in Linked(l) /\ Key[n] <= Key[m] /\ (Key[n] = Key[m] => m = n)
             /\ n \in Linked(l) <=> m = n
<1> DEFINE q == nodes[0]
           n == link[q][0]
           p == nodes[l]
           m == link[p][l]
<1>1. /\ 0 \in Heights /\ Heights \subseteq Levels
      /\ NothingSkipped(0) /\ NothingSkipped(l)
      /\ Linked(l) \subseteq Linked(0) /\ Linked(0) \subseteq Nodes
      /\ \A g \in Nodes : Key[g] \in Int
      /\ \A g, h \in Linked(0) : Key[g] = Key[h] => g = h
      /\ Head \notin Nodes /\ Null \notin Linked(0)
  BY TestKnown, ListKnown
<1>2. /\ q \in OnLevel(0) /\ p \in OnLevel(l) /\ p \in Nodes \cup {Head}
      /\ q \in Nodes \cup {Head}
      /\ p = Head \/ (q # Head /\ Key[p] <= Key[q])
      /\ m # Null => IsBehind(q, Key[m])
  BY <1>1 DEF InStep, LastUpTo
<1> HIDE DEF q, p
<1>3. n \in Linked(0) /\ m \in Linked(l) \cup {Null}
  BY <1>1, <1>2, LinkOnLevel DEF q, ReadersOrder, ReadersInv
<1> HIDE DEF m
<1>4. IsBehind(q, Key[n])
  BY <1>1, <1>2, <1>3 DEF NothingSkipped, q
<1>5. m # Null => Key[n] <= Key[m] /\ (Key[n] = Key[m] => m = n)
  <2> SUFFICES ASSUME m # Null PROVE Key[n] <= Key[m] /\ (Key[n] = Key[m] => m = n)
    OBVIOUS
  <2>1. m \in Linked(0) /\ IsBehind(q, Key[m])
    BY <1>1, <1>2, <1>3
  <2>2. ~IsBeyond(n, Key[m])
    BY <1>1, <1>2, <2>1 DEF NothingSkipped
  <2> HIDE DEF n
  <2> QED BY <1>1, <1>3, <2>1, <2>2 DEF IsBeyond
<1>6. n \in Linked(l) => m = n
  <2> SUFFICES ASSUME n \in Linked(l) PROVE m = n
    OBVIOUS
  <2> HIDE DEF n
  <2>1. IsBehind(p, Key[n])
    BY <1>1, <1>2, <1>3, <1>4 DEF IsBehind, OnLevel
  <2>2. ~IsBeyond(m, Key[n])
    BY <1>1, <1>2, <2>1 DEF NothingSkipped, m
  <2> QED BY <1>1, <1>3, <1>5, <2>2 DEF IsBeyond
<1>7. m = n => n \in Linked(l)
  BY <1>1, <1>3
<1> QED BY <1>3, <1>4, <1>5, <1>6, <1>7 DEF q, p, m

LEMMA RoundInStep ==
  ASSUME ReadersOrder, NEW nodes, InStep(nodes), link[nodes[0]][0] # Null
  PROVE  LET n == link[nodes[0]][0] IN
         /\ RoundPasses(nodes, n)
         /\ InStep(Follow(nodes, n)) /\ Follow(nodes, n)[0] = n
<1> DEFINE q == nodes[0]
           n == link[q][0]
           next == Follow(nodes, n)
           At(l) == link[nodes[l]][l]
<1>1. /\ 0 \in Heights /\ Heights \subseteq Levels /\ max_height_ \in Nat
      /\ \A l \in Heights : NothingSkipped(l)
      /\ \A l \in Heights : \A k \in 0 .. l : Linked(l) \subseteq Linked(k)
      /\ Linked(0) \subseteq Nodes
      /\ \A g \in Nodes : Key[g] \in Int
      /\ Head \notin Nodes /\ Null \notin Linked(0)
  BY TestKnown, ListKnown
<1>2. /\ nodes \in [Heights -> Nodes \cup {Head}] /\ q \in OnLevel(0) /\ DOMAIN nodes = Heights
      /\ \A l \in Heights : LastUpTo(nodes[l], l, q)
  BY DEF InStep
<1>3. \A l \in Heights :
          /\ n \in Linked(0) /\ IsBehind(q, Key[n])
          /\ At(l) # Null => At(l) \in Linked(l) /\ Key[n] <= Key[At(l)]
                             /\ (Key[n] = Key[At(l)] => At(l) = n)
          /\ n \in Linked(l) <=> At(l) = n
  BY RoundFacts
<1>4. RoundPasses(nodes, n)
  BY <1>1, <1>2, <1>3 DEF RoundPasses, IsBehind
<1>5. \A l \in Heights \ {0} : (\A k \in 1 .. l : At(k) = n) <=> At(l) = n
  <2>1. ASSUME NEW l \in Heights \ {0}, At(l) = n, NEW k \in 1 .. l PROVE At(k) = n
    <3>1. k \in Heights /\ k \in 0 .. l
      BY <1>1 DEF Heights
    <3> HIDE DEF n, At
    <3> QED BY <1>1, <1>3, <2>1, <3>1
  <2>2. \A l \in Heights \ {0} : l \in 1 .. l
    BY <1>1 DEF Heights
  <2> HIDE DEF n, At
  <2> QED BY <2>1, <2>2
<1>6. next = [l \in Heights |-> IF l = 0 THEN n
                                ELSE IF \A k \in 1 .. l : At(k) = n THEN n ELSE nodes[l]]
  BY <1>2 DEF Follow
<1> HIDE DEF next
<1>7. \A l \in Heights : next[l] = IF l = 0 \/ At(l) = n THEN n ELSE nodes[l]
  <2> HIDE DEF n, At
  <2> QED BY <1>5, <1>6
<1>8. next \in [Heights -> Nodes \cup {Head}] /\ next[0] = n /\ n \in OnLevel(0)
  <2> HIDE DEF n, At
  <2> QED BY <1>1, <1>2, <1>3, <1>6 DEF OnLevel
<1>9. ASSUME NEW l \in Heights PROVE LastUpTo(next[l], l, n)
  <2>1. l = 0 => At(l) = n
    OBVIOUS
  <2>2. n # Head /\ n \in Nodes /\ Key[n] \in Int
    <3> HIDE DEF n
    <3> QED BY <1>1, <1>3
  <2>3. CASE At(l) = n
    <3>1. next[l] = n /\ n \in Linked(l)
      BY <1>3, <1>7, <2>3
    <3> HIDE DEF n, At
    <3>2. link[n][l] # Null => IsBehind(n, Key[link[n][l]])
      BY <1>1, <3>1 DEF NothingSkipped, OnLevel
    <3> QED BY <2>2, <3>1, <3>2 DEF LastUpTo, OnLevel
  <2>4. CASE At(l) # n
    <3>1. next[l] = nodes[l]
      BY <1>7, <2>1, <2>4
    <3>2. /\ nodes[l] \in OnLevel(l) /\ nodes[l] \in Nodes \cup {Head} /\ q \in Nodes \cup {Head}
          /\ nodes[l] = Head \/ (q # Head /\ Key[nodes[l]] <= Key[q])
      BY <1>1, <1>2 DEF LastUpTo, OnLevel
    <3>3. nodes[l] = Head \/ Key[nodes[l]] <= Key[n]
      <4> HIDE DEF n, q
      <4> QED BY <1>1, <1>3, <2>2, <3>2 DEF IsBehind
    <3>4. At(l) # Null => IsBehind(n, Key[At(l)])
      <4>1. At(l) # Null => At(l) \in Nodes /\ Key[At(l)] \in Int
        <5> HIDE DEF At, n
        <5>1. 0 \in 0 .. l
          BY <1>1 DEF Heights
        <5> QED BY <1>1, <1>3, <5>1
      <4> HIDE DEF n, At
      <4> QED BY <1>3, <2>2, <2>4, <4>1 DEF IsBehind
    <3> HIDE DEF n
    <3> QED BY <2>2, <3>1, <3>2, <3>3, <3>4 DEF LastUpTo
  <2> QED BY <2>3, <2>4
<1> QED BY <1>4, <1>8, <1>9 DEF InStep, next

\* The rounds end: they leave every set of places that TEST_Validate may be at.
LEMMA RoundsEnd ==
  ASSUME ReadersOrder, Ends, NEW B, B # {}, \A c \in B : InStep(c)
  PROVE  \E c \in B : LET n == link[c[0]][0] IN n # Null => Follow(c, n) \notin B
<1> DEFINE After(c) == link[c[0]][0]
           S == {c[0] : c \in B} \ {Head}
<1>1. /\ Linked(0) \subseteq Nodes /\ Head \notin Nodes
      /\ \A g \in Nodes : Key[g] \in Int
      /\ 0 \in Heights
  BY ListKnown, TestKnown
<1>2. \A c \in B : c[0] \in Linked(0) \cup {Head}
  BY DEF InStep, OnLevel
<1>3. ASSUME NEW c \in B, After(c) # Null
      PROVE  /\ After(c) \in Linked(0) /\ IsBehind(c[0], Key[After(c)])
             /\ Follow(c, After(c))[0] = After(c)
  BY <1>1, <1>3, RoundFacts, RoundInStep
<1>4. CASE S = {}
  <2>1. PICK c \in B : c[0] = Head
    BY <1>4
  <2>2. ASSUME After(c) # Null, Follow(c, After(c)) \in B PROVE FALSE
    <3>1. After(c) \in Nodes /\ Follow(c, After(c))[0] = After(c)
      BY <1>1, <1>3, <2>2
    <3>2. Follow(c, After(c))[0] = Head
      BY <1>4, <2>2
    <3> QED BY <1>1, <3>1, <3>2
  <2> QED BY <2>2
<1>5. CASE S # {}
  <2>1. S \in SUBSET Linked(0)
    BY <1>2
  <2>2. PICK q \in S : \A m \in S : Key[m] <= Key[q]
    <3> HIDE DEF S
    <3> QED BY <1>5, <2>1 DEF Ends
  <2>3. PICK c \in B : c[0] = q
    BY <2>2
  <2>4. ASSUME After(c) # Null, Follow(c, After(c)) \in B PROVE FALSE
    <3> DEFINE n == After(c)
               d == Follow(c, n)
    <3>1. n \in Linked(0) /\ IsBehind(q, Key[n]) /\ d[0] = n
      BY <1>3, <2>3, <2>4
    <3>2. d \in B
      BY <2>4
    <3> HIDE DEF n, d
    <3>3. n \in S
      BY <1>1, <3>1, <3>2
    <3>4. Key[n] <= Key[q]
      BY <2>2, <3>3
    <3>5. Key[q] < Key[n]
      BY <3>1 DEF IsBehind
    <3>6. Key[q] \in Int /\ Key[n] \in Int
      BY <1>1, <2>1, <2>2, <3>1
    <3> QED BY <3>4, <3>5, <3>6
  <2> QED BY <2>4
<1> QED BY <1>4, <1>5

LEMMA ValidateHolds ==
  ASSUME ReadersOrder, Ends
  PROVE  TEST_Validate
<1> DEFINE S == [0 .. max_height_ - 1 -> Nodes \cup {Head}]
           Validate[nodes \in [0 .. max_height_ - 1 -> Nodes \cup {Head}]] ==
               LET n == link[nodes[0]][0] IN
               IF n = Null
               THEN \A l \in DOMAIN nodes \ {0} : link[nodes[l]][l] = Null
               ELSE RoundPasses(nodes, n) /\ Validate[Follow(nodes, n)]
           AllEnd(nodes) == \A l \in DOMAIN nodes \ {0} : link[nodes[l]][l] = Null
           After(nodes) == link[nodes[0]][0]
           stops == {nodes \in S : After(nodes) = Null}
           step == [nodes \in S |-> Follow(nodes, After(nodes))]
           pass == [nodes \in S |-> IF After(nodes) = Null THEN AllEnd(nodes)
                                    ELSE RoundPasses(nodes, After(nodes))]
           T == {nodes \in S : InStep(nodes)}
           start == [l \in 0 .. max_height_ - 1 |-> Head]
<1>1. TEST_Validate = Validate[start]
  BY DEF TEST_Validate
<1>2. /\ max_height_ \in 1 .. kMaxHeight /\ 0 \in Heights /\ Heights \subseteq Levels
      /\ link \in [Nodes \cup {Head} -> [Levels -> Nodes \cup {Null}]]
      /\ S = [Heights -> Nodes \cup {Head}]
  BY TestKnown DEF Heights
<1>3. stops \in SUBSET S /\ \A c \in S \ stops : step[c] \in S
  <2>1. ASSUME NEW c \in S \ stops PROVE step[c] \in S
    <3>1. After(c) \in Nodes
      BY <1>2
    <3>2. DOMAIN c = Heights /\ \A l \in Heights : c[l] \in Nodes \cup {Head}
      BY <1>2
    <3> HIDE DEF After
    <3>3. Follow(c, After(c)) \in [Heights -> Nodes \cup {Head}]
      BY <3>1, <3>2 DEF Follow
    <3> QED BY <1>2, <3>3
  <2> QED BY <2>1
<1>4. pass \in [S -> BOOLEAN]
  BY DEF RoundPasses
<1>5. IsTest(Validate, S, stops, step, pass)
  <2>1. \E f : IsTest(f, S, stops, step, pass)
    <3> HIDE DEF S, stops, step, pass
    <3> QED BY <1>3, <1>4, TestExists
  <2>2. PICK f : IsTest(f, S, stops, step, pass)
    BY <2>1
  <2> DEFINE Body(g, nodes) ==
                 IF After(nodes) = Null THEN AllEnd(nodes)
                 ELSE RoundPasses(nodes, After(nodes)) /\ g[Follow(nodes, After(nodes))]
  <2>3. \A g : \A c \in S :
            (IF c \in stops THEN pass[c] ELSE pass[c] /\ g[step[c]]) = Body(g, c)
    <3> SUFFICES ASSUME NEW g, NEW c \in S
                 PROVE  (IF c \in stops THEN pass[c] ELSE pass[c] /\ g[step[c]]) = Body(g, c)
      OBVIOUS
    <3> HIDE DEF After, AllEnd, S
    <3>1. CASE After(c) = Null
      BY <3>1
    <3>2. CASE After(c) # Null
      BY <3>2
    <3> QED BY <3>1, <3>2
  <2>4. f = [c \in S |-> Body(f, c)]
    <3>1. f = [c \in S |-> IF c \in stops THEN pass[c] ELSE pass[c] /\ f[step[c]]]
      BY <2>2 DEF IsTest
    <3> HIDE DEF stops, step, pass, S, Body
    <3> QED BY <2>3, <3>1
  <2>5. Validate = [c \in S |-> Body(Validate, c)]
    BY <2>4
  <2> HIDE DEF Validate
  <2>6. Validate = [c \in S |-> IF c \in stops THEN pass[c] ELSE pass[c] /\ Validate[step[c]]]
    <3> HIDE DEF stops, step, pass, S, Body
    <3> QED BY <2>3, <2>5
  <2> QED BY <2>6 DEF IsTest
<1> HIDE DEF Validate
<1>6. ASSUME NEW c \in T PROVE pass[c]
  <2>1. c \in S /\ InStep(c) /\ DOMAIN c = Heights
    BY <1>2
  <2>3. CASE After(c) # Null
    <3>1. RoundPasses(c, After(c))
      BY <2>1, <2>3, RoundInStep
    <3> QED BY <2>1, <2>3, <3>1
  <2>4. CASE After(c) = Null
    <3>1. ASSUME NEW l \in Heights, link[c[l]][l] # Null PROVE FALSE
      <4>1. link[c[l]][l] \in Linked(0) /\ IsBehind(c[0], Key[link[c[l]][l]])
        <5>1. c[l] \in Nodes \cup {Head} /\ l \in Levels
          BY <1>2, <2>1 DEF InStep
        <5>2. link[c[l]][l] \in Linked(l)
          BY <3>1, <5>1, LinkOnLevel DEF ReadersOrder, ReadersInv
        <5>3. Linked(l) \subseteq Linked(0)
          BY TestKnown
        <5> QED BY <2>1, <3>1, <5>2, <5>3 DEF InStep, LastUpTo
      <4>2. c[0] \in OnLevel(0) /\ NothingSkipped(0)
        BY <1>2, <2>1, TestKnown DEF InStep
      <4>3. ~IsBeyond(After(c), Key[link[c[l]][l]])
        BY <4>1, <4>2 DEF NothingSkipped
      <4> QED BY <2>4, <4>3 DEF IsBeyond
    <3>2. AllEnd(c)
      BY <2>1, <3>1
    <3> HIDE DEF AllEnd, After
    <3> QED BY <2>1, <2>4, <3>2
  <2> QED BY <2>3, <2>4
<1>7. ASSUME NEW c \in T \ stops PROVE step[c] \in T
  <2>1. c \in S /\ InStep(c) /\ After(c) # Null
    OBVIOUS
  <2>2. InStep(step[c])
    BY <2>1, RoundInStep
  <2>3. step[c] \in S
    BY <1>3
  <2> HIDE DEF step, After, S
  <2> QED BY <2>2, <2>3
<1>8. start \in T
  <2>1. start \in S /\ start[0] = Head /\ \A l \in Heights : start[l] = Head
    BY <1>2 DEF Heights
  <2>2. \A l \in Heights : LastUpTo(Head, l, Head) /\ Head \in OnLevel(0)
    BY DEF LastUpTo, OnLevel, IsBehind
  <2> HIDE DEF start
  <2>3. InStep(start)
    BY <1>2, <2>1, <2>2 DEF InStep
  <2> QED BY <2>1, <2>3
<1>9. ASSUME NEW B \in SUBSET T, B # {} PROVE \E c \in B : c \in stops \/ step[c] \notin B
  <2>1. \A c \in B : InStep(c) /\ c \in S
    OBVIOUS
  <2>2. PICK c \in B : After(c) # Null => Follow(c, After(c)) \notin B
    <3>1. \E c \in B : LET n == link[c[0]][0] IN n # Null => Follow(c, n) \notin B
      BY <1>9, <2>1, RoundsEnd
    <3> QED BY <3>1
  <2> HIDE DEF After, S, T
  <2>3. c \in S /\ step[c] = Follow(c, After(c)) /\ (After(c) = Null => c \in stops)
    BY <2>1
  <2> QED BY <2>2, <2>3
<1>10. Validate[start]
  <2>1. T \in SUBSET S
    OBVIOUS
  <2>2. \A c \in T : pass[c]
    BY <1>6
  <2>3. \A c \in T \ stops : step[c] \in T
    BY <1>7
  <2>4. \A B \in SUBSET T : B # {} => \E c \in B : c \in stops \/ step[c] \notin B
    BY <1>9
  <2> HIDE DEF S, stops, step, pass, T, start
  <2>5. \A c \in T : Validate[c]
    BY <1>5, <2>1, <2>2, <2>3, <2>4, TestPasses
  <2> QED BY <1>8, <2>5
<1> QED BY <1>1, <1>10

\* No insert makes the list endless.
LEMMA ListEnds == ReadersSpec => []Ends
<1>1. ReadersInit => Ends
  <2> SUFFICES ASSUME ReadersInit PROVE Ends
    OBVIOUS
  <2>1. link = [n \in Nodes \cup {Head} |-> [l \in Levels |-> Null]] /\ 0 \in Levels
    BY HeightAssumption DEF ReadersInit, Init, Levels
  <2>2. Linked(0) = {}
    BY <2>1 DEF Linked
  <2> QED BY <2>2 DEF Ends
<1>2. ReadersOrder /\ Ends /\ [ReadersNext]_<<vars, readers>> => Ends'
  <2> SUFFICES ASSUME ReadersOrder, Ends, [ReadersNext]_<<vars, readers>> PROVE Ends'
    OBVIOUS
  <2>1. Linked(0)' = Linked(0) \/ \E n \in Nodes : Linked(0)' = Linked(0) \cup {n}
    BY ListGrows DEF ReadersNext, ReadersOrder, ReadersInv, vars
  <2>2. ASSUME NEW n \in Nodes, Linked(0)' = Linked(0) \cup {n},
               NEW S \in SUBSET (Linked(0)'), S # {}
        PROVE  \E g \in S : \A m \in S : Key[m] <= Key[g]
    <3>1. /\ Linked(0) \subseteq Nodes /\ \A g \in Nodes : Key[g] \in Int
          /\ S \subseteq Nodes /\ S \ {n} \in SUBSET Linked(0)
      BY <2>2, ListKnown
    <3>2. CASE S \ {n} = {}
      <4>1. n \in S /\ \A m \in S : m = n
        BY <2>2, <3>2
      <4>2. Key[n] <= Key[n]
        BY <3>1
      <4> QED BY <4>1, <4>2
    <3>3. CASE S \ {n} # {}
      <4>1. PICK g \in S \ {n} : \A m \in S \ {n} : Key[m] <= Key[g]
        BY <3>1, <3>3 DEF Ends
      <4>2. Key[n] \in Int /\ Key[g] \in Int /\ \A m \in S : Key[m] \in Int
        BY <3>1
      <4>3. CASE n \in S /\ Key[g] < Key[n]
        BY <4>1, <4>2, <4>3
      <4>4. CASE ~(n \in S /\ Key[g] < Key[n])
        BY <4>1, <4>2, <4>4
      <4> QED BY <4>3, <4>4
    <3> QED BY <3>2, <3>3
  <2> QED BY <2>1, <2>2 DEF Ends
<1> QED BY <1>1, <1>2, ReadersOrderInvariant, PTL DEF ReadersSpec

\* TEST_Validate passes after any history of overlapping inserts: each round
\* finds every level at the last node up to nodes[0], and the rounds end.
THEOREM SelfTestPasses == ReadersSpec => []SelfTest
<1>1. ReadersOrder /\ Ends => SelfTest
  BY ValidateHolds DEF SelfTest
<1> QED BY <1>1, ListEnds, ReadersOrderInvariant, PTL
=============================================================================
