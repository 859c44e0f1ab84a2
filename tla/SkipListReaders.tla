---------------------------- MODULE SkipListReaders ----------------------------
(***************************************************************************)
(* The readers of nvm_engine/InlineSkiplist.hpp other than Contains: its   *)
(* Iterator, which keeps a node while inserts go on, FindLessThan and      *)
(* FindLast behind it, EstimateCount, and TEST_Validate.  They run beside  *)
(* every step of InlineSkipList; a step reads one link or max_height_.     *)
(***************************************************************************)
EXTENDS InlineSkipList

CONSTANTS
    Readers,      \* threads that read, each through an Iterator of its own
    kBranching_,  \* how much EstimateCount scales a level
    CountSpan     \* values of a uint64_t: 2^64

ASSUME ReadersAssumption ==
    kBranching_ \in Nat \ {0, 1} /\ CountSpan \in Nat \ {0, 1} /\ Null \notin Keys

VARIABLES
    node_,    \* node_[r]: where r's Iterator stands, Null if it is not Valid
    method,   \* method[r]: the call r is in, or "none"
    target,   \* target[r]: the key it was called with, or Null
    walk      \* walk[r]: the search under way

readers == <<node_, method, target, walk>>

\* A search before its first step: kind names the function, x is where it
\* stands, bigger its last_bigger or last_not_after.  wrapped is history:
\* count has exceeded its type.
Walk(kind, k) ==
    [kind |-> kind, key |-> k, x |-> Null, level |-> 0, bigger |-> Null,
     count |-> 0, wrapped |-> FALSE]

NoWalk == Walk("none", Null)

ReadersInit ==
    /\ Init
    /\ node_ = [r \in Readers |-> Null]
    /\ method = [r \in Readers |-> "none"]
    /\ target = [r \in Readers |-> Null]
    /\ walk = [r \in Readers |-> NoWalk]

-----------------------------------------------------------------------------
(* The calls                                                               *)

Begin(r, m, k, search_) ==
    /\ method[r] = "none"
    /\ method' = [method EXCEPT ![r] = m]
    /\ target' = [target EXCEPT ![r] = k]
    /\ walk' = [walk EXCEPT ![r] = search_]
    /\ UNCHANGED node_

Seek(r, k) == Begin(r, "Seek", k, Walk("FindGreaterOrEqual", k))

SeekForPrev(r, k) == Begin(r, "SeekForPrev", k, Walk("FindGreaterOrEqual", k))

SeekToLast(r) == Begin(r, "SeekToLast", Null, Walk("FindLast", Null))

EstimateCount(r, k) == Begin(r, "EstimateCount", k, Walk("EstimateCount", k))

Prev_(r) ==
    /\ node_[r] # Null
    /\ Begin(r, "Prev", Key[node_[r]], Walk("FindLessThan", Key[node_[r]]))

SeekToFirst(r) ==
    /\ method[r] = "none"
    /\ node_' = [node_ EXCEPT ![r] = link[Head][0]]
    /\ UNCHANGED <<method, target, walk>>

Next_(r) ==
    /\ method[r] = "none" /\ node_[r] # Null
    /\ node_' = [node_ EXCEPT ![r] = link[node_[r]][0]]
    /\ UNCHANGED <<method, target, walk>>

-----------------------------------------------------------------------------
(* The searches, which share their shape                                   *)

\* Mutant: the lowest level is not searched.
TopLevelPlusOne == max_height_

TopLevel == max_height_ - 1

StartWalk(r) ==
    /\ walk[r].kind # "none" /\ walk[r].x = Null
    /\ walk' = [walk EXCEPT ![r].x = Head, ![r].level = TopLevel]
    /\ UNCHANGED <<node_, method, target>>

\* The link search w reads next.
Read(w) == link[w.x][w.level]

\* FindGreaterOrEqual ends early at an equal key.
Equals(w, n) ==
    /\ w.kind = "FindGreaterOrEqual"
    /\ n \notin {Null, w.bigger} /\ Key[n] = w.key

\* Mutant: FindLessThan passes a node with the key.
ReachesLate(w, n) ==
    CASE w.kind = "FindGreaterOrEqual" -> n \notin {Null, w.bigger} => w.key <= Key[n]
      [] w.kind = "FindLessThan" -> n = w.bigger \/ ~(n # Null /\ Key[n] <= w.key)
      [] w.kind = "FindLast" -> n = Null
      [] w.kind = "EstimateCount" -> ~KeyIsAfterNode(w.key, n)

\* The search does not go on to n at its level.
Reaches(w, n) ==
    CASE w.kind = "FindGreaterOrEqual" -> n \notin {Null, w.bigger} => w.key <= Key[n]
      [] w.kind = "FindLessThan" -> n = w.bigger \/ ~KeyIsAfterNode(w.key, n)
      [] w.kind = "FindLast" -> n = Null
      [] w.kind = "EstimateCount" -> ~KeyIsAfterNode(w.key, n)

Counted(w) == IF w.kind = "EstimateCount" THEN w.count + 1 ELSE w.count

\* count is a uint64_t: what becomes of n in it, and whether n is too large.
UInt64(n) == n % CountSpan
Wraps(w, n) == w.wrapped \/ n >= CountSpan

Forward(r) ==
    LET w == walk[r]  n == Read(w) IN
    /\ w.x # Null
    /\ ~Reaches(w, n)
    /\ walk' = [walk EXCEPT ![r].x = n, ![r].count = UInt64(Counted(w)),
                            ![r].wrapped = Wraps(w, Counted(w))]
    /\ UNCHANGED <<node_, method, target>>

\* Mutant: the count starts again.
Restarted(w) == kBranching_

Scaled(w) == w.count * kBranching_

\* Mutant: the level stays.
SameLevel(w) == w.level

NextLevel(w) == w.level - 1

Down(r) ==
    LET w == walk[r]  n == Read(w) IN
    /\ w.x # Null
    /\ Reaches(w, n) /\ ~Equals(w, n) /\ w.level > 0
    /\ walk' = [walk EXCEPT ![r].level = NextLevel(w), ![r].bigger = n,
                            ![r].count = UInt64(Scaled(w)),
                            ![r].wrapped = Wraps(w, Scaled(w))]
    /\ UNCHANGED <<node_, method, target>>

Arrived(w) ==
    /\ w.x # Null
    /\ Equals(w, Read(w)) \/ (Reaches(w, Read(w)) /\ w.level = 0)

\* The node the Iterator takes from its search; head_ is no node.
Answer(w) ==
    IF w.kind = "FindGreaterOrEqual" THEN Read(w)
    ELSE IF w.x = Head THEN Null ELSE w.x

EstimateReturns(r) ==
    /\ method[r] = "EstimateCount" /\ Arrived(walk[r])
    /\ method' = [method EXCEPT ![r] = "none"]
    /\ target' = [target EXCEPT ![r] = Null]
    /\ walk' = [walk EXCEPT ![r] = NoWalk]
    /\ UNCHANGED node_

\* Mutant: SeekForPrev gives up where Seek finds nothing.
NeverFallsBack(r, n) == FALSE

\* SeekForPrev goes to the last node when Seek has found none.
FallsBack(r, n) == walk[r].kind = "FindGreaterOrEqual" /\ n = Null

\* Mutant: SeekForPrev steps back once at most.
StepsBackOnce(r, n) ==
    n # Null /\ target[r] < Key[n] /\ walk[r].kind # "FindLessThan"

StepsBack(r, n) == n # Null /\ target[r] < Key[n]

\* A search of the Iterator ends: node_ moves, and SeekForPrev may go on.
Arrive(r) ==
    LET n == Answer(walk[r])
        again == method[r] = "SeekForPrev"
    IN  /\ method[r] # "EstimateCount" /\ Arrived(walk[r])
        /\ node_' = [node_ EXCEPT ![r] = n]
        /\ \/ /\ again /\ FallsBack(r, n)
              /\ walk' = [walk EXCEPT ![r] = Walk("FindLast", Null)]
              /\ UNCHANGED <<method, target>>
           \/ /\ again /\ StepsBack(r, n)
              /\ walk' = [walk EXCEPT ![r] = Walk("FindLessThan", Key[n])]
              /\ UNCHANGED <<method, target>>
           \/ /\ ~(again /\ (FallsBack(r, n) \/ StepsBack(r, n)))
              /\ walk' = [walk EXCEPT ![r] = NoWalk]
              /\ method' = [method EXCEPT ![r] = "none"]
              /\ target' = [target EXCEPT ![r] = Null]

-----------------------------------------------------------------------------
ReaderCall(r) ==
    \/ \E k \in Keys : Seek(r, k) \/ SeekForPrev(r, k) \/ EstimateCount(r, k)
    \/ SeekToLast(r)
    \/ Prev_(r)
    \/ SeekToFirst(r)
    \/ Next_(r)

ReaderStep(r) ==
    \/ StartWalk(r)
    \/ Forward(r)
    \/ Down(r)
    \/ Arrive(r)
    \/ EstimateReturns(r)

ReadersNext ==
    \/ Next /\ UNCHANGED readers
    \/ \E r \in Readers : (ReaderCall(r) \/ ReaderStep(r)) /\ UNCHANGED vars

ReadersSpec == ReadersInit /\ [][ReadersNext]_<<vars, readers>>

\* A thread inside a call keeps running, whether it inserts or reads.
FairReadersSpec ==
    ReadersSpec /\ Fairness /\ \A r \in Readers : WF_readers(ReaderStep(r))

-----------------------------------------------------------------------------
(* TEST_Validate                                                           *)

\* A round moves nodes[0] to its next node n, and the levels above it as far
\* as each of them leads to n as well.
Follow(nodes, n) ==
    [l \in DOMAIN nodes |->
        IF l = 0 THEN n
        ELSE IF \A k \in 1 .. l : link[nodes[k]][k] = n THEN n ELSE nodes[l]]

\* The assertions of one round: level 0 leads forward, no level has a node
\* that level 0 has passed, or one with the key of another node.
RoundPasses(nodes, n) ==
    /\ nodes[0] = Head \/ Key[nodes[0]] < Key[n]
    /\ \A l \in DOMAIN nodes \ {0} :
           (\A k \in 1 .. l - 1 : link[nodes[k]][k] = n) =>
               LET m == link[nodes[l]][l] IN
               m # Null => Key[n] <= Key[m] /\ (Key[n] = Key[m] => m = n)

TEST_Validate ==
    LET Validate[nodes \in [0 .. max_height_ - 1 -> Nodes \cup {Head}]] ==
            LET n == link[nodes[0]][0] IN
            IF n = Null
            THEN \A l \in DOMAIN nodes \ {0} : link[nodes[l]][l] = Null
            ELSE RoundPasses(nodes, n) /\ Validate[Follow(nodes, n)]
    IN  Validate[[l \in 0 .. max_height_ - 1 |-> Head]]

-----------------------------------------------------------------------------
(* Properties                                                              *)

Walks == {"FindGreaterOrEqual", "FindLessThan", "FindLast", "EstimateCount"}
Methods == {"Seek", "SeekForPrev", "Prev", "SeekToLast", "EstimateCount"}

\* Every variable of a reader has its type.
ReadersTypeOK ==
    /\ node_ \in [Readers -> Nodes \cup {Null}]
    /\ method \in [Readers -> Methods \cup {"none"}]
    /\ target \in [Readers -> Keys \cup {Null}]
    /\ walk \in [Readers ->
                    [kind : Walks \cup {"none"}, key : Keys \cup {Null},
                     x : Nodes \cup {Head, Null}, level : Levels,
                     bigger : Nodes \cup {Null}, count : 0 .. CountSpan - 1,
                     wrapped : BOOLEAN]]

\* However many inserts run between two calls or two steps of a search, the
\* Iterator holds a node of the list, and a search stands on a node of its
\* level, before its key (asserts 259-261 and 296-297).
CursorsLinked ==
    \A r \in Readers :
        LET w == walk[r] IN
        /\ node_[r] \in Linked(0) \cup {Null}
        /\ w.x # Null => /\ w.x \in OnLevel(w.level)
                         /\ w.kind # "FindLast" => IsBehind(w.x, w.key)

\* Each call of an Iterator answers for one instant of the list: a scan is in
\* order and misses nothing, Prev passes over no key, SeekForPrev ends on the
\* last key not after its target, whatever was inserted meanwhile.
Cursor == INSTANCE LinearizableCursor WITH
    NoKey <- Null,
    set <- {Key[n] : n \in Linked(0)},
    pos <- [r \in Readers |->
               IF node_[r] = Null \/ method[r] \notin {"none", "EstimateCount"}
               THEN Null ELSE Key[node_[r]]],
    op <- [r \in Readers |->
              IF method[r] = "EstimateCount" THEN "none" ELSE method[r]],
    arg <- [r \in Readers |->
               IF method[r] = "EstimateCount" THEN Null ELSE target[r]]

LinearizableReads == Cursor!Spec

\* No node lies before the key of r's call.
NothingBefore(r) == \A n \in Linked(0) : target[r] <= Key[n]

\* EstimateCount answers 0 if no node lies before the key when it returns, and
\* a full prefix of the list is estimated as empty only by a uint64_t that has
\* overflowed on the way (line 360: with a factor of 4 on each of 32 levels,
\* by 4 nodes counted on the highest).
EstimatesNone ==
    [][\A r \in Readers : EstimateReturns(r) =>
           /\ NothingBefore(r) => walk[r].count = 0
           /\ walk[r].count = 0 => NothingBefore(r) \/ walk[r].wrapped]_<<vars, readers>>

\* The list's own self-test passes whenever no insert is under way, after any
\* history of overlapping inserts: what they leave on the levels above 0 is
\* what level 0 has, in its order.
SelfTest == (\A t \in Threads : ~Inserting(t)) => TEST_Validate

\* Every call of a reader returns, SeekForPrev included, whose loop ends only
\* when inserts between two of its searches do.
ReadsReturn == \A r \in Readers : method[r] # "none" ~> method[r] = "none"
=============================================================================
