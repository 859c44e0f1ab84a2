--------------------------- MODULE InlineSkipList ---------------------------
(***************************************************************************)
(* The concurrent skip list of nvm_engine/InlineSkiplist.hpp: lock-free    *)
(* inserts that publish a node level by level from the bottom, sequential  *)
(* inserts that reuse a remembered splice, and readers that run beside     *)
(* both.  A step is one access to memory other threads can write (a link,  *)
(* max_height_) and the thread-local work up to the next one.  Atomics are *)
(* sequentially consistent here.                                           *)
(***************************************************************************)
EXTENDS Integers

CONSTANTS
    Threads,      \* callers of the list
    Nodes,        \* memory that AllocateNode hands out, one per Insert
    Keys,         \* the keys, ordered as the Comparator orders them
    Key,          \* Key[n]: the key bytes stored behind node n
    kMaxHeight,   \* kMaxHeight_: levels of the list
    Head,         \* head_
    Null,         \* nullptr
    SeqSplice,    \* seq_splice_
    Hints,        \* splices callers obtained from AllocateSplice
    NoSplice      \* splice[t] of a thread that is not inserting

ASSUME KeysAssumption == Keys \subseteq Int /\ Key \in [Nodes -> Keys]
ASSUME HeightAssumption == kMaxHeight \in Nat \ {0}
ASSUME NodesAssumption == Head # Null /\ Head \notin Nodes /\ Null \notin Nodes
ASSUME SplicesAssumption ==
    /\ SeqSplice \notin Threads /\ SeqSplice \notin Hints
    /\ NoSplice \notin Threads /\ NoSplice \notin Hints /\ NoSplice # SeqSplice
    /\ Threads \cap Hints = {}

Levels == 0 .. kMaxHeight - 1

\* AllocateSplice gives prev_ and next_ one entry more than there are levels.
SpliceLevels == 0 .. kMaxHeight

\* A thread's own name stands for the Splice on the stack of its
\* InsertConcurrently call.
Splices == {SeqSplice} \cup Hints \cup Threads

\* What an entry of prev_ or next_ holds before it is written: a value that
\* no written entry has.
UninitPrev == Null
UninitNext == Head

VARIABLES
    link,         \* link[n][l]: Node::next_ of n at level l
    height,       \* the height stashed in node n; 0: not allocated
    max_height_,  \* the height of the tallest node
    prev_,        \* prev_[s][l], next_[s][l]: the nodes around the key at
    next_,        \*     level l when splice s was last used
    height_,      \* levels of splice s that hold something
    pc,           \* where thread t stands
    key,          \* key_decoded of t's call
    x,            \* the node t inserts, Null if none
    splice,       \* the splice t inserts with
    cas,          \* UseCAS of t's insert
    fix,          \* allow_partial_splice_fix of t's insert
    max_height,   \* t's local copy of max_height_
    recompute,    \* recompute_height
    level,        \* the level t works on
    before,       \* the node t's search stands on
    after,        \* the node t's search must not pass
    valid,        \* splice_is_valid
    ret           \* the answer of a call that has one

list == <<link, height, max_height_>>
splices == <<prev_, next_, height_>>
call == <<key, x, splice, cas, fix, max_height>>
search == <<recompute, level, before, after, valid>>
vars == <<list, splices, pc, call, search, ret>>

-----------------------------------------------------------------------------
(* The list as a reader sees it.                                           *)

\* The nodes that some link of level l points to.
Linked(l) == {link[n][l] : n \in Nodes \cup {Head}} \ {Null}

\* Mutant: a key is after a node with the same key.
KeyIsAtOrAfterNode(k, n) == n # Null /\ Key[n] <= k

KeyIsAfterNode(k, n) == n # Null /\ Key[n] < k

Inserting(t) == splice[t] # NoSplice

-----------------------------------------------------------------------------
Init ==
    /\ link = [n \in Nodes \cup {Head} |-> [l \in Levels |-> Null]]
    /\ height = [n \in Nodes |-> 0]
    /\ max_height_ = 1
    /\ prev_ = [s \in Splices |-> [l \in SpliceLevels |-> UninitPrev]]
    /\ next_ = [s \in Splices |-> [l \in SpliceLevels |-> UninitNext]]
    /\ height_ = [s \in Splices |-> 0]
    /\ pc = [t \in Threads |-> "idle"]
    /\ key \in [Threads -> Keys]
    /\ x = [t \in Threads |-> Null]
    /\ splice = [t \in Threads |-> NoSplice]
    /\ cas = [t \in Threads |-> FALSE]
    /\ fix = [t \in Threads |-> FALSE]
    /\ max_height = [t \in Threads |-> 0]
    /\ recompute = [t \in Threads |-> 0]
    /\ level = [t \in Threads |-> 0]
    /\ before = [t \in Threads |-> Head]
    /\ after = [t \in Threads |-> Null]
    /\ valid = [t \in Threads |-> TRUE]
    /\ ret = [t \in Threads |-> FALSE]

-----------------------------------------------------------------------------
(* Contains, through FindGreaterOrEqual                                    *)

ContainsCall(t, k) ==
    /\ pc[t] = "idle"
    /\ pc' = [pc EXCEPT ![t] = "seek"]
    /\ key' = [key EXCEPT ![t] = k]
    /\ level' = [level EXCEPT ![t] = max_height_ - 1]
    /\ UNCHANGED <<list, splices, x, splice, cas, fix, max_height,
                   recompute, before, after, valid, ret>>

\* cmp > 0: nothing to compare with, a node known to be bigger, or a bigger one.
SeekIsBigger(t, n) == n \notin {Null, after[t]} => key[t] < Key[n]

SeekAdvance(t) ==
    LET n == link[before[t]][level[t]] IN
    /\ pc[t] = "seek"
    /\ ~SeekIsBigger(t, n) /\ Key[n] < key[t]
    /\ before' = [before EXCEPT ![t] = n]
    /\ UNCHANGED <<list, splices, pc, call, recompute, level, after, valid, ret>>

SeekDescend(t) ==
    LET n == link[before[t]][level[t]] IN
    /\ pc[t] = "seek"
    /\ SeekIsBigger(t, n) /\ level[t] > 0
    /\ after' = [after EXCEPT ![t] = n]
    /\ level' = [level EXCEPT ![t] = @ - 1]
    /\ UNCHANGED <<list, splices, pc, call, recompute, before, valid, ret>>

\* FindGreaterOrEqual has its node; Contains compares the keys once more.
SeekReturn(t) ==
    LET n == link[before[t]][level[t]] IN
    /\ pc[t] = "seek"
    /\ \/ ~SeekIsBigger(t, n) /\ Key[n] = key[t]
       \/ SeekIsBigger(t, n) /\ level[t] = 0
    /\ ret' = [ret EXCEPT ![t] = n # Null /\ Key[n] = key[t]]
    /\ pc' = [pc EXCEPT ![t] = "ret"]
    /\ UNCHANGED <<list, splices, call, search>>

-----------------------------------------------------------------------------
(* Insert: the call, and raising max_height_                               *)

\* Mutant: max_height_ is raised one level late.
TooTallByTwo(h, m) == h > m + 1

TooTall(h, m) == h > m

\* AllocateNode and the call.  The caller keeps a sequential insert apart from
\* every other insert, and one splice to one insert at a time; readers run at
\* any time.
InsertCall(t, n, h, s, c, f) ==
    /\ pc[t] = "idle"
    /\ height[n] = 0
    /\ \A u \in Threads : Inserting(u) => c /\ cas[u] /\ splice[u] # s
    /\ height' = [height EXCEPT ![n] = h]
    /\ x' = [x EXCEPT ![t] = n]
    /\ key' = [key EXCEPT ![t] = Key[n]]
    /\ splice' = [splice EXCEPT ![t] = s]
    /\ cas' = [cas EXCEPT ![t] = c]
    /\ fix' = [fix EXCEPT ![t] = f]
    /\ max_height' = [max_height EXCEPT ![t] = max_height_]
    /\ pc' = [pc EXCEPT ![t] = IF TooTall(h, max_height_) THEN "raise" ELSE "open"]
    /\ UNCHANGED <<link, max_height_, splices, search, ret>>

\* Insert(key)
Insert(t, n, h) == InsertCall(t, n, h, SeqSplice, FALSE, FALSE)

\* InsertConcurrently(key)
InsertConcurrently(t, n, h) == InsertCall(t, n, h, t, TRUE, FALSE)

\* Insert<UseCAS>(key, splice, allow_partial_splice_fix)
InsertWithHint(t, n, h) ==
    \E s \in Hints, c, f \in BOOLEAN : InsertCall(t, n, h, s, c, f)

CASMaxHeight(t) ==
    /\ pc[t] = "raise"
    /\ max_height_ = max_height[t]
    /\ max_height_' = height[x[t]]
    /\ max_height' = [max_height EXCEPT ![t] = height[x[t]]]
    /\ pc' = [pc EXCEPT ![t] = "open"]
    /\ UNCHANGED <<link, height, splices, key, x, splice, cas, fix, search, ret>>

\* The failed exchange reloads max_height; the loop ends if it is high enough.
ReloadMaxHeight(t) ==
    /\ pc[t] = "raise"
    /\ max_height_ # max_height[t]
    /\ max_height' = [max_height EXCEPT ![t] = max_height_]
    /\ pc' = [pc EXCEPT ![t] =
                  IF TooTall(height[x[t]], max_height_) THEN "raise" ELSE "open"]
    /\ UNCHANGED <<list, splices, key, x, splice, cas, fix, search, ret>>

-----------------------------------------------------------------------------
(* Insert: which levels of the splice are good for this key                *)

\* Nothing usable above: start from head_ and search every level.
OpenSplice(t) ==
    LET s == splice[t]
        m == max_height[t]
    IN  /\ pc[t] = "open"
        /\ height_[s] < m
        /\ prev_' = [prev_ EXCEPT ![s][m] = Head]
        /\ next_' = [next_ EXCEPT ![s][m] = Null]
        /\ height_' = [height_ EXCEPT ![s] = m]
        /\ recompute' = [recompute EXCEPT ![t] = m]
        /\ level' = [level EXCEPT ![t] = m - 1]
        /\ before' = [before EXCEPT ![t] = Head]
        /\ after' = [after EXCEPT ![t] = Null]
        /\ pc' = [pc EXCEPT ![t] = "find"]
        /\ UNCHANGED <<list, call, valid, ret>>

ReuseSplice(t) ==
    /\ pc[t] = "open"
    /\ height_[splice[t]] >= max_height[t]
    /\ recompute' = [recompute EXCEPT ![t] = 0]
    /\ pc' = [pc EXCEPT ![t] = "check"]
    /\ UNCHANGED <<list, splices, call, level, before, after, valid, ret>>

\* RecomputeSpliceLevels(key, splice, r), nothing when r = 0.
RecomputeSpliceLevels(t, r) ==
    /\ recompute' = [recompute EXCEPT ![t] = r]
    /\ \/ /\ r = 0
          /\ pc' = [pc EXCEPT ![t] = "link"]
          /\ level' = [level EXCEPT ![t] = 0]
          /\ UNCHANGED <<before, after>>
       \/ /\ r > 0
          /\ pc' = [pc EXCEPT ![t] = "find"]
          /\ level' = [level EXCEPT ![t] = r - 1]
          /\ before' = [before EXCEPT ![t] = prev_[splice[t]][r]]
          /\ after' = [after EXCEPT ![t] = next_[splice[t]][r]]

\* The loop goes on at level r, or ends because there is none left.
CheckFrom(t, r) ==
    \/ /\ r < max_height[t]
       /\ recompute' = [recompute EXCEPT ![t] = r]
       /\ UNCHANGED <<pc, level, before, after>>
    \/ /\ r >= max_height[t]
       /\ RecomputeSpliceLevels(t, r)

\* The first level above r whose entry is not the bad one of level r.
AboveBad(entries, r) ==
    CHOOSE j \in SpliceLevels :
        /\ j > r /\ entries[j] # entries[r]
        /\ \A i \in r .. j - 1 : entries[i] = entries[r]

\* allow_partial_splice_fix skips the levels with the bad node; otherwise all.
SkipBad(t, entries, r) ==
    IF fix[t] THEN AboveBad(entries, r) ELSE max_height[t]

\* One round of the loop that looks for the lowest level still bracketing key.
CheckSplice(t) ==
    LET r == recompute[t]
        prev == prev_[splice[t]]
        next == next_[splice[t]]
        tight == link[prev[r]][r] = next[r]
        keyBefore == prev[r] # Head /\ ~KeyIsAfterNode(key[t], prev[r])
        keyAfter == KeyIsAfterNode(key[t], next[r])
    IN  /\ pc[t] = "check"
        /\ \/ ~tight /\ CheckFrom(t, r + 1)
           \/ tight /\ keyBefore /\ CheckFrom(t, SkipBad(t, prev, r))
           \/ tight /\ ~keyBefore /\ keyAfter
                 /\ CheckFrom(t, SkipBad(t, next, r))
           \/ tight /\ ~keyBefore /\ ~keyAfter /\ RecomputeSpliceLevels(t, r)
        /\ UNCHANGED <<list, splices, call, valid, ret>>

-----------------------------------------------------------------------------
(* Insert: FindSpliceForLevel                                              *)

FindAdvance(t) ==
    LET n == link[before[t]][level[t]] IN
    /\ pc[t] \in {"find", "refind"}
    /\ n # after[t] /\ KeyIsAfterNode(key[t], n)
    /\ before' = [before EXCEPT ![t] = n]
    /\ UNCHANGED <<list, splices, pc, call, recompute, level, after, valid, ret>>

\* The splice of the level is found and stored.
FoundSplice(t) ==
    LET n == link[before[t]][level[t]]
        s == splice[t]
    IN  /\ n = after[t] \/ ~KeyIsAfterNode(key[t], n)
        /\ prev_' = [prev_ EXCEPT ![s][level[t]] = before[t]]
        /\ next_' = [next_ EXCEPT ![s][level[t]] = n]
        /\ UNCHANGED height_

\* RecomputeSpliceLevels goes down to level 0, each level inside the one above.
FindDescend(t) ==
    /\ pc[t] = "find"
    /\ FoundSplice(t)
    /\ \/ /\ level[t] > 0
          /\ level' = [level EXCEPT ![t] = @ - 1]
          /\ after' = [after EXCEPT ![t] = link[before[t]][level[t]]]
          /\ UNCHANGED pc
       \/ /\ level[t] = 0
          /\ pc' = [pc EXCEPT ![t] = "link"]
          /\ UNCHANGED <<level, after>>
    /\ UNCHANGED <<list, call, recompute, before, valid, ret>>

\* Mutant: a splice survives every lost race.
AlwaysStaysValid(t) == TRUE

\* The levels below bracket the key in what this level now holds.
StaysValid(t) == cas[t] => level[t] = 0

\* After a lost race the search goes on from prev_ at this level only.
Refound(t) ==
    /\ pc[t] = "refind"
    /\ FoundSplice(t)
    /\ valid' = [valid EXCEPT ![t] = @ /\ StaysValid(t)]
    /\ pc' = [pc EXCEPT ![t] = "link"]
    /\ UNCHANGED <<list, call, recompute, level, before, after, ret>>

\* Mutant: the search restarts from next_.
RefindFromNext(t) ==
    /\ before' = [before EXCEPT ![t] = next_[splice[t]][level[t]]]
    /\ after' = [after EXCEPT ![t] = Null]
    /\ pc' = [pc EXCEPT ![t] = "refind"]
    /\ UNCHANGED <<recompute, level, valid>>

\* Mutant: the same exchange is tried again.
RetrySameLink(t) ==
    /\ pc' = [pc EXCEPT ![t] = "link"]
    /\ UNCHANGED search

Refind(t) ==
    /\ before' = [before EXCEPT ![t] = prev_[splice[t]][level[t]]]
    /\ after' = [after EXCEPT ![t] = Null]
    /\ pc' = [pc EXCEPT ![t] = "refind"]
    /\ UNCHANGED <<recompute, level, valid>>

-----------------------------------------------------------------------------
(* Insert: linking the node, level by level from the bottom                *)

Prev(t) == prev_[splice[t]][level[t]]
Succ(t) == next_[splice[t]][level[t]]

\* Mutant: a level that was not recomputed is trusted.
NeverStale(t) == FALSE

\* Without CAS, a level that was not recomputed is looked at again.
LinkIsStale(t) ==
    ~cas[t] /\ level[t] >= recompute[t] /\ link[Prev(t)][level[t]] # Succ(t)

\* Mutant: an equal key is not a duplicate.
IsOutOfOrder(t) ==
    level[t] = 0 /\ Succ(t) # Null /\ key[t] > Key[Succ(t)]

IsDuplicate(t) ==
    /\ level[t] = 0
    /\ \/ Succ(t) # Null /\ key[t] >= Key[Succ(t)]
       \/ Prev(t) # Head /\ Key[Prev(t)] >= key[t]

LinkStale(t) ==
    /\ pc[t] = "link"
    /\ LinkIsStale(t)
    /\ Refind(t)
    /\ UNCHANGED <<list, splices, call, ret>>

LinkDuplicate(t) ==
    /\ pc[t] = "link"
    /\ ~LinkIsStale(t) /\ IsDuplicate(t)
    /\ ret' = [ret EXCEPT ![t] = FALSE]
    /\ pc' = [pc EXCEPT ![t] = "ret"]
    /\ UNCHANGED <<list, splices, call, search>>

\* Mutant: the node's own link is not set.
SkipPrepareLink(t) ==
    /\ pc[t] = "link"
    /\ ~LinkIsStale(t) /\ ~IsDuplicate(t)
    /\ pc' = [pc EXCEPT ![t] = "publish"]
    /\ UNCHANGED <<list, splices, call, search, ret>>

\* x->NoBarrier_SetNext
PrepareLink(t) ==
    /\ pc[t] = "link"
    /\ ~LinkIsStale(t) /\ ~IsDuplicate(t)
    /\ link' = [link EXCEPT ![x[t]][level[t]] = Succ(t)]
    /\ pc' = [pc EXCEPT ![t] = "publish"]
    /\ UNCHANGED <<height, max_height_, splices, call, search, ret>>

\* Mutant: a plain store for the exchange.
PlainStore(t) == TRUE

\* CASNext succeeds; a sequential insert uses SetNext.
CanPublish(t) == cas[t] => link[Prev(t)][level[t]] = Succ(t)

\* Mutant: the top level is left out.
MoreLevelsButTop(t) == level[t] + 2 < height[x[t]]

MoreLevels(t) == level[t] + 1 < height[x[t]]

\* prev->CASNext succeeds, or prev->SetNext.
PublishLink(t) ==
    /\ pc[t] = "publish"
    /\ CanPublish(t)
    /\ link' = [link EXCEPT ![Prev(t)][level[t]] = x[t]]
    /\ \/ /\ MoreLevels(t)
          /\ level' = [level EXCEPT ![t] = @ + 1]
          /\ pc' = [pc EXCEPT ![t] = "link"]
       \/ /\ ~MoreLevels(t)
          /\ pc' = [pc EXCEPT ![t] = "finish"]
          /\ UNCHANGED level
    /\ UNCHANGED <<height, max_height_, splices, call, recompute, before,
                   after, valid, ret>>

CASFailed(t) ==
    /\ pc[t] = "publish"
    /\ ~CanPublish(t)
    /\ Refind(t)
    /\ UNCHANGED <<list, splices, call, ret>>

\* The splice is left around the new node, or given up.
FinishInsert(t) ==
    LET s == splice[t] IN
    /\ pc[t] = "finish"
    /\ \/ /\ valid[t]
          /\ prev_' = [prev_ EXCEPT ![s] =
                           [l \in SpliceLevels |->
                               IF l < height[x[t]] THEN x[t] ELSE @[l]]]
          /\ UNCHANGED height_
       \/ /\ ~valid[t]
          /\ height_' = [height_ EXCEPT ![s] = 0]
          /\ UNCHANGED prev_
    /\ ret' = [ret EXCEPT ![t] = TRUE]
    /\ pc' = [pc EXCEPT ![t] = "ret"]
    /\ UNCHANGED <<list, next_, call, search>>

-----------------------------------------------------------------------------
\* The call returns: its locals are gone, and with them a splice on its stack.
Return(t) ==
    /\ pc[t] = "ret"
    /\ pc' = [pc EXCEPT ![t] = "idle"]
    /\ x' = [x EXCEPT ![t] = Null]
    /\ splice' = [splice EXCEPT ![t] = NoSplice]
    /\ cas' = [cas EXCEPT ![t] = FALSE]
    /\ fix' = [fix EXCEPT ![t] = FALSE]
    /\ max_height' = [max_height EXCEPT ![t] = 0]
    /\ recompute' = [recompute EXCEPT ![t] = 0]
    /\ level' = [level EXCEPT ![t] = 0]
    /\ before' = [before EXCEPT ![t] = Head]
    /\ after' = [after EXCEPT ![t] = Null]
    /\ valid' = [valid EXCEPT ![t] = TRUE]
    /\ ret' = [ret EXCEPT ![t] = FALSE]
    /\ prev_' = [prev_ EXCEPT ![t] = [l \in SpliceLevels |-> UninitPrev]]
    /\ next_' = [next_ EXCEPT ![t] = [l \in SpliceLevels |-> UninitNext]]
    /\ height_' = [height_ EXCEPT ![t] = 0]
    /\ UNCHANGED <<list, key>>

Call(t) ==
    \/ \E k \in Keys : ContainsCall(t, k)
    \/ \E n \in Nodes, h \in 1 .. kMaxHeight :
           \/ Insert(t, n, h)
           \/ InsertConcurrently(t, n, h)
           \/ InsertWithHint(t, n, h)

Step(t) ==
    \/ SeekAdvance(t)
    \/ SeekDescend(t)
    \/ SeekReturn(t)
    \/ CASMaxHeight(t)
    \/ ReloadMaxHeight(t)
    \/ OpenSplice(t)
    \/ ReuseSplice(t)
    \/ CheckSplice(t)
    \/ FindAdvance(t)
    \/ FindDescend(t)
    \/ Refound(t)
    \/ LinkStale(t)
    \/ LinkDuplicate(t)
    \/ PrepareLink(t)
    \/ PublishLink(t)
    \/ CASFailed(t)
    \/ FinishInsert(t)
    \/ Return(t)

Next == \E t \in Threads : Call(t) \/ Step(t)

Spec == Init /\ [][Next]_vars

\* A thread inside a call keeps running.
Fairness == \A t \in Threads : WF_vars(Step(t))
FairSpec == Spec /\ Fairness

-----------------------------------------------------------------------------
(* Properties                                                              *)

Cursors == {"seek", "find", "refind"}

\* Every variable has its type.
TypeOK ==
    /\ link \in [Nodes \cup {Head} -> [Levels -> Nodes \cup {Null}]]
    /\ height \in [Nodes -> 0 .. kMaxHeight]
    /\ max_height_ \in 1 .. kMaxHeight
    /\ prev_ \in [Splices -> [SpliceLevels -> Nodes \cup {Head, UninitPrev}]]
    /\ next_ \in [Splices ->
                     [SpliceLevels -> Nodes \cup {Null, UninitNext}]]
    /\ height_ \in [Splices -> 0 .. kMaxHeight]
    /\ pc \in [Threads -> Cursors \cup {"idle", "raise", "open", "check",
                                        "link", "publish", "finish", "ret"}]
    /\ key \in [Threads -> Keys]
    /\ x \in [Threads -> Nodes \cup {Null}]
    /\ splice \in [Threads -> Splices \cup {NoSplice}]
    /\ cas \in [Threads -> BOOLEAN]
    /\ fix \in [Threads -> BOOLEAN]
    /\ max_height \in [Threads -> 0 .. kMaxHeight]
    /\ recompute \in [Threads -> 0 .. kMaxHeight]
    /\ level \in [Threads -> Levels]
    /\ before \in [Threads -> Nodes \cup {Head}]
    /\ after \in [Threads -> Nodes \cup {Null}]
    /\ valid \in [Threads -> BOOLEAN]
    /\ ret \in [Threads -> BOOLEAN]

\* The nodes a search of level l may stand on.
OnLevel(l) == Linked(l) \cup {Head}

\* n lies before key k; head_ lies before every key.
IsBehind(n, k) == n = Head \/ Key[n] < k

\* n lies at or behind k; nullptr lies behind every key.
IsBeyond(n, k) == n = Null \/ k < Key[n]

\* The link out of n at level l jumps over no node of that level and leads
\* forward (asserts 259, 453 and TEST_Validate): concurrent inserts neither
\* lose a node another thread linked nor put one out of order, at any level.
NothingSkipped(l) ==
    \A n \in OnLevel(l) :
        /\ link[n][l] # Null => IsBehind(n, Key[link[n][l]])
        /\ \A m \in Linked(l) :
               IsBehind(n, Key[m]) => ~IsBeyond(link[n][l], Key[m])

Ordered == \A l \in Levels : NothingSkipped(l)

\* A node is linked from the bottom up, only at levels it has room for and
\* only once max_height_ lets readers start there.
Nested ==
    \A l \in Levels : \A n \in Linked(l) :
        /\ height[n] > l
        /\ max_height_ > l
        /\ \A k \in 0 .. l : n \in Linked(k)

\* Once no insert of n is under way, n is linked at all of its levels or,
\* being a duplicate, at none: the searches that start at max_height_ find it.
Complete ==
    \A n \in Linked(0) :
        \/ \E t \in Threads : x[t] = n
        \/ \A l \in 0 .. height[n] - 1 : n \in Linked(l)

\* No node is ever unlinked at a level (readers and splices keep pointers to
\* nodes across steps of other threads).
NeverUnlinked == [][\A l \in Levels : Linked(l) \subseteq Linked(l)']_vars

\* Every search stands on a node that is linked at its level, before the key
\* it looks for (asserts 259-261 and 453-455).
SearchOnLevel ==
    \A t \in Threads : pc[t] \in Cursors =>
        /\ before[t] \in OnLevel(level[t])
        /\ IsBehind(before[t], key[t])

\* The node about to be published goes between two neighbours of its level
\* that bracket its key (asserts 559-562 and 593-597), the first of them
\* linked there, and a sequential insert overwrites no other link.
LinkBrackets ==
    \A t \in Threads : pc[t] = "publish" =>
        /\ Prev(t) \in OnLevel(level[t]) /\ IsBehind(Prev(t), key[t])
        /\ Succ(t) \in Linked(level[t]) \cup {Null} /\ IsBeyond(Succ(t), key[t])
        /\ ~cas[t] => link[Prev(t)][level[t]] = Succ(t)

\* A splice that no insert is using brackets more and more from level 0 up
\* to head_ and nullptr (asserts 606-620), whatever inserts ran with other
\* splices since it was last used: the next insert may trust it.
SpliceNested ==
    \A s \in Splices : (\A t \in Threads : splice[t] # s) =>
        /\ height_[s] > 0 => /\ prev_[s][height_[s]] = Head
                             /\ next_[s][height_[s]] = Null
        /\ \A l \in 0 .. height_[s] - 1 :
               /\ prev_[s][l] \in OnLevel(l)
               /\ next_[s][l] \in Linked(l) \cup {Null}
               /\ \/ prev_[s][l + 1] = prev_[s][l]
                  \/ prev_[s][l] # Head /\ IsBehind(prev_[s][l + 1], Key[prev_[s][l]])
               /\ \/ next_[s][l + 1] = next_[s][l]
                  \/ next_[s][l] # Null /\ IsBeyond(next_[s][l + 1], Key[next_[s][l]])

\* Every call takes effect at one instant as an operation on a set of keys
\* (an insert when the CAS of level 0 succeeds), and answers accordingly.
Linearized(t) == Inserting(t) /\ x[t] \in Linked(0)

Set == INSTANCE LinearizableSet WITH
    set <- {Key[n] : n \in Linked(0)},
    op <- [t \in Threads |-> IF pc[t] = "idle" THEN "none"
                             ELSE IF Inserting(t) THEN "insert"
                             ELSE "contains"],
    arg <- key,
    done <- [t \in Threads |-> pc[t] = "ret" \/ Linearized(t)],
    ret <- [t \in Threads |-> ret[t] \/ Linearized(t)]

Linearizable == Set!Spec

\* Every call returns: a lost CAS race is only lost to an insert that won.
CallsReturn == \A t \in Threads : pc[t] # "idle" ~> pc[t] = "idle"
=============================================================================
