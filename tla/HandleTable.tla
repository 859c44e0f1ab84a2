----------------------------- MODULE HandleTable -----------------------------
(***************************************************************************)
(* HandleTable of nvm_engine/Cache.hpp: buckets of handles chained through *)
(* next_hash.  Nothing locks it, so each call is one step.  A place that   *)
(* holds a pointer, what ptr points at in the code, is a bucket's number   *)
(* or the handle whose next_hash it is.                                    *)
(***************************************************************************)
EXTENDS Integers, FiniteSets

CONSTANTS
    Handles,
    Keys,
    KeyOf,     \* KeyOf[h]: key() of a handle
    Hash,      \* Hash[k]: the hash of a key, as the caller computes it
    nullptr

ASSUME HandlesAssumption ==
    /\ IsFiniteSet(Handles)
    /\ KeyOf \in [Handles -> Keys]
    /\ nullptr \notin Handles \cup Keys
    /\ \A h \in Handles : h \notin Nat       \* no handle is a bucket's number
ASSUME HashAssumption == Hash \in [Keys -> Nat]

VARIABLES
    length_,     \* buckets
    elems_,
    list_,       \* list_[i]: the first handle of bucket i
    next_hash,   \* next_hash[h]: the handle behind h, stale once h is out
    answer       \* history: key and result of the latest call

vars == <<length_, elems_, list_, next_hash, answer>>

Pointers == Handles \cup {nullptr}

-----------------------------------------------------------------------------
(* Places                                                                  *)

Deref(c) == IF c \in Handles THEN next_hash[c] ELSE list_[c]

\* Mutant: the hash is taken for the key.
HashMatches(h, k) == Hash[KeyOf[h]] = Hash[k]

Matches(h, k) == Hash[KeyOf[h]] = Hash[k] /\ KeyOf[h] = k

Bucket(k, length) == Hash[k] % length

\* The place of k: it holds k's handle, or the nullptr that ends its bucket.
FindPointer(k) ==
    LET Find[c \in Handles \cup DOMAIN list_] ==
            IF Deref(c) = nullptr \/ Matches(Deref(c), k) THEN c ELSE Find[Deref(c)]
    IN  Find[Bucket(k, length_)]

\* The links after *c = h.
Stored(links, c, h) ==
    IF c \in Handles THEN [links EXCEPT !.next[c] = h] ELSE [links EXCEPT !.list[c] = h]

-----------------------------------------------------------------------------
(* Resize                                                                  *)

NewLength(elems) ==
    LET Double[n \in Nat] == IF n < elems THEN Double[n * 2] ELSE n
    IN  Double[4]

Empty(length) == [i \in 0 .. length - 1 |-> nullptr]

\* The state of Resize's loops: the handle to move, its bucket in the old list,
\* and the links as they are.
Loops(length, new_length) ==
    [i : 0 .. length - 1, h : Pointers,
     list : [0 .. new_length - 1 -> Pointers], next : [Handles -> Pointers]]

\* next is read before next_hash is overwritten.
Moved(s, new_length) ==
    LET j == Bucket(KeyOf[s.h], new_length) IN
    [s EXCEPT !.h = s.next[s.h], !.next[s.h] = s.list[j], !.list[j] = s.h]

Rehashed(links, length, new_length) ==
    LET Loop[s \in Loops(length, new_length)] ==
            IF s.h # nullptr THEN Loop[Moved(s, new_length)]
            ELSE IF s.i + 1 < length
                 THEN Loop[[s EXCEPT !.i = s.i + 1, !.h = links.list[s.i + 1]]]
            ELSE s
        last == Loop[[i |-> 0, h |-> links.list[0],
                      list |-> Empty(new_length), next |-> links.next]]
    IN  [list |-> last.list, next |-> last.next]

\* Mutant: the table grows one element too late.
IsOverfull(elems) == elems > length_ + 1

IsFull(elems) == elems > length_

-----------------------------------------------------------------------------
\* The constructor, whose Resize finds no list.
Init ==
    /\ length_ = 4
    /\ elems_ = 0
    /\ list_ = Empty(4)
    /\ next_hash = [h \in Handles |-> nullptr]
    /\ answer = [key |-> nullptr, handle |-> nullptr]

Links == [list |-> list_, next |-> next_hash]

SetLinks(links) == list_' = links.list /\ next_hash' = links.next

Answers(k, h) == answer' = [key |-> k, handle |-> h]

Lookup(k) ==
    /\ Answers(k, Deref(FindPointer(k)))
    /\ UNCHANGED <<length_, elems_, list_, next_hash>>

\* Mutant: next_hash keeps what an earlier stay in the table left.
StaleBehind(h, old) == next_hash[h]

\* What Insert puts behind h, which takes the place of old.
Behind(h, old) == IF old = nullptr THEN nullptr ELSE next_hash[old]

Insert(h) ==
    LET ptr == FindPointer(KeyOf[h])
        old == Deref(ptr)
        elems == IF old = nullptr THEN elems_ + 1 ELSE elems_
        links == Stored([Links EXCEPT !.next[h] = Behind(h, old)], ptr, h)
    IN  /\ Answers(KeyOf[h], old)
        /\ elems_' = elems
        /\ \/ /\ old = nullptr /\ IsFull(elems)
              /\ length_' = NewLength(elems)
              /\ SetLinks(Rehashed(links, length_, NewLength(elems)))
           \/ /\ ~(old = nullptr /\ IsFull(elems))
              /\ SetLinks(links)
              /\ UNCHANGED length_

Remove(k) ==
    LET ptr == FindPointer(k)
        result == Deref(ptr)
    IN  /\ Answers(k, result)
        /\ \/ result = nullptr /\ UNCHANGED <<elems_, list_, next_hash>>
           \/ /\ result # nullptr
              /\ SetLinks(Stored(Links, ptr, next_hash[result]))
              /\ elems_' = elems_ - 1
        /\ UNCHANGED length_

-----------------------------------------------------------------------------
(* Chains                                                                  *)

\* S and what the buckets and the handles of S lead to.
Spread(links, S) ==
    (S \cup {links.list[i] : i \in DOMAIN links.list} \cup {links.next[h] : h \in S})
        \ {nullptr}

\* The handles that the links lead to.
Reached(links) ==
    LET Grown[S \in SUBSET Handles] ==
            IF Spread(links, S) = S THEN S ELSE Grown[Spread(links, S)]
    IN  Grown[{}]

Members == Reached(Links)

\* A caller inserts a handle that is not in the table.
Next ==
    \/ \E k \in Keys : Lookup(k) \/ Remove(k)
    \/ \E h \in Handles \ Members : Insert(h)

Spec == Init /\ [][Next]_vars

-----------------------------------------------------------------------------
(* Properties                                                              *)

\* Whatever was inserted, replaced, removed, inserted again and rehashed, each
\* bucket is a chain that ends, of handles with different keys that all hash to
\* it: a lookup finds its key, and ends.
ChainsSound ==
    /\ \A S \in SUBSET Members : S # {} => \E h \in S : next_hash[h] \notin S
    /\ \A i \in DOMAIN list_ : list_[i] # nullptr => Bucket(KeyOf[list_[i]], length_) = i
    /\ \A h \in Members : next_hash[h] # nullptr =>
           Bucket(KeyOf[next_hash[h]], length_) = Bucket(KeyOf[h], length_)
    /\ \A g, h \in Members : KeyOf[g] = KeyOf[h] => g = h

\* elems_ is the number of handles in the table, which is what Resize asserts
\* (line 123), and the chains are one handle long on average at most.
CountIsExact == elems_ = Cardinality(Members) /\ elems_ <= length_

\* The table is a map: across collisions, replacements in the middle of a chain
\* and a resize in the middle of an insert, every call answers for its own key
\* and disturbs no other.
MapOf(members) ==
    [k \in Keys |->
        LET found == {h \in members : KeyOf[h] = k} IN
        IF found = {} THEN nullptr ELSE CHOOSE h \in found : TRUE]

Map == INSTANCE HandleMap WITH
    map <- MapOf(Members)

ImplementsMap == Map!Spec
=============================================================================
