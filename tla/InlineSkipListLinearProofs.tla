---------------------- MODULE InlineSkipListLinearProofs ----------------------
(***************************************************************************)
(* InlineSkipList implements LinearizableSet, step by step: the initial    *)
(* states map to initial states, and every step of a thread is one step of *)
(* the set or changes nothing of it.                                       *)
(***************************************************************************)
EXTENDS InlineSkipListOrderProofs

-----------------------------------------------------------------------------
(* The mapping                                                             *)

Present == {Key[n] : n \in Linked(0)}

Operation(t) == IF pc[t] = "idle" THEN "none"
                ELSE IF Inserting(t) THEN "insert"
                ELSE "contains"

Done(t) == pc[t] = "ret" \/ Linearized(t)

Answer(t) == ret[t] \/ Linearized(t)

\* A call that is not over has no answer yet.
NoEarlyAnswer == \A t \in Threads : pc[t] # "ret" => ret[t] = FALSE

Invariant == Shape /\ Links /\ Order /\ NoEarlyAnswer

LEMMA InitNoEarlyAnswer == Init => NoEarlyAnswer
BY DEF Init, NoEarlyAnswer

LEMMA Bottom ==
  ASSUME Shape
  PROVE  0 \in Levels /\ Linked(0) \subseteq Nodes /\ Null \notin Linked(0)
<1>1. 0 \in Levels
  BY HeightAssumption DEF Levels
<1> QED BY <1>1 DEF Linked, Shape, TypeOK

\* The thread a step does not belong to.
Bystander(u) ==
    /\ pc'[u] = pc[u] /\ key'[u] = key[u] /\ x'[u] = x[u]
    /\ splice'[u] = splice[u] /\ ret'[u] = ret[u]

LEMMA Bystanders ==
  ASSUME Shape, NEW t \in Threads, Call(t) \/ Step(t)
  PROVE  \A u \in Threads : u # t => Bystander(u)
<1> SUFFICES ASSUME NEW u \in Threads, u # t PROVE Bystander(u)
  OBVIOUS
<1> USE DEF Bystander, Shape, TypeOK, list, splices, call, search
<1>1. ASSUME NEW k \in Keys, ContainsCall(t, k) PROVE Bystander(u)
  BY <1>1 DEF ContainsCall
<1>2. ASSUME NEW n \in Nodes, NEW h, NEW s, NEW c, NEW f, InsertCall(t, n, h, s, c, f)
      PROVE  Bystander(u)
  BY <1>2 DEF InsertCall
<1>3. Call(t) => Bystander(u)
  BY <1>1, <1>2 DEF Call, Insert, InsertConcurrently, InsertWithHint
<1>4. SeekAdvance(t) \/ SeekDescend(t) \/ SeekReturn(t) => Bystander(u)
  BY DEF SeekAdvance, SeekDescend, SeekReturn
<1>5. CASMaxHeight(t) \/ ReloadMaxHeight(t) \/ OpenSplice(t) \/ ReuseSplice(t) => Bystander(u)
  BY DEF CASMaxHeight, ReloadMaxHeight, OpenSplice, ReuseSplice
<1>6. CheckSplice(t) => Bystander(u)
  BY DEF CheckSplice, CheckFrom, RecomputeSpliceLevels
<1>7. FindAdvance(t) \/ FindDescend(t) \/ Refound(t) => Bystander(u)
  BY DEF FindAdvance, FindDescend, Refound
<1>8. LinkStale(t) \/ CASFailed(t) => Bystander(u)
  BY DEF LinkStale, CASFailed, Refind
<1>9. LinkDuplicate(t) \/ PrepareLink(t) \/ PublishLink(t) \/ FinishInsert(t) => Bystander(u)
  BY DEF LinkDuplicate, PrepareLink, PublishLink, FinishInsert
<1>10. Return(t) => Bystander(u)
  BY DEF Return
<1> QED BY <1>3, <1>4, <1>5, <1>6, <1>7, <1>8, <1>9, <1>10 DEF Step

\* The functions that the set sees.
Operations == [t \in Threads |-> Operation(t)]
Dones == [t \in Threads |-> Done(t)]
Answers == [t \in Threads |-> Answer(t)]

\* How a step of t that changes Operation, Done and Answer of t alone looks to
\* the set.
LEMMA Mapped ==
  ASSUME NEW t \in Threads,
         \A u \in Threads : u # t => /\ Operation(u)' = Operation(u)
                                     /\ Done(u)' = Done(u)
                                     /\ Answer(u)' = Answer(u)
  PROVE  /\ Operations' = [Operations EXCEPT ![t] = Operation(t)']
         /\ Dones' = [Dones EXCEPT ![t] = Done(t)']
         /\ Answers' = [Answers EXCEPT ![t] = Answer(t)']
<1>1. Operations' = [u \in Threads |-> Operation(u)']
  BY DEF Operations
<1>2. Dones' = [u \in Threads |-> Done(u)']
  BY DEF Dones
<1>3. Answers' = [u \in Threads |-> Answer(u)']
  BY DEF Answers
<1>4. Operations' = [Operations EXCEPT ![t] = Operation(t)']
  BY <1>1 DEF Operations
<1>5. Dones' = [Dones EXCEPT ![t] = Done(t)']
  BY <1>2 DEF Dones
<1>6. Answers' = [Answers EXCEPT ![t] = Answer(t)']
  BY <1>3 DEF Answers
<1> QED BY <1>4, <1>5, <1>6

\* The steps of the set, in terms of the mapping.
LEMMA SetStutters ==
  ASSUME Present' = Present, Operations' = Operations, key' = key,
         Dones' = Dones, Answers' = Answers
  PROVE  UNCHANGED Set!vars
BY DEF Set!vars, Operations, Operation, Dones, Done, Answers, Answer, Present

LEMMA SetInvokes ==
  ASSUME NEW t \in Threads, NEW o, NEW k, Operations[t] = "none",
         Operations' = [Operations EXCEPT ![t] = o], key' = [key EXCEPT ![t] = k],
         Present' = Present, Dones' = Dones, Answers' = Answers
  PROVE  Set!Invoke(t, o, k)
BY DEF Set!Invoke, Operations, Operation, Dones, Done, Answers, Answer, Present

LEMMA SetInserts ==
  ASSUME NEW t \in Threads, Operations[t] = "insert", Operations' = Operations, key' = key,
         ~Dones[t], Dones' = [Dones EXCEPT ![t] = TRUE],
         Answers' = [Answers EXCEPT ![t] = key[t] \notin Present],
         Present' = Present \cup {key[t]}
  PROVE  Set!Insert(t)
BY DEF Set!Insert, Set!TakeEffect, Operations, Operation, Dones, Done, Answers, Answer, Present

LEMMA SetContains ==
  ASSUME NEW t \in Threads, Operations[t] = "contains", Operations' = Operations, key' = key,
         ~Dones[t], Dones' = [Dones EXCEPT ![t] = TRUE],
         Answers' = [Answers EXCEPT ![t] = key[t] \in Present],
         Present' = Present
  PROVE  Set!Contains(t)
BY DEF Set!Contains, Set!TakeEffect, Operations, Operation, Dones, Done, Answers, Answer,
       Present

LEMMA SetResponds ==
  ASSUME NEW t \in Threads, Dones[t], key' = key, Present' = Present,
         Operations' = [Operations EXCEPT ![t] = "none"],
         Dones' = [Dones EXCEPT ![t] = FALSE], Answers' = [Answers EXCEPT ![t] = FALSE]
  PROVE  Set!Respond(t)
BY DEF Set!Respond, Operations, Operation, Dones, Done, Answers, Answer, Present

\* To the set a bystander stands still unless its own node is linked.
LEMMA BystandersKept ==
  ASSUME Shape, NEW t \in Threads, \A u \in Threads : u # t => Bystander(u),
         \A u \in Threads : u # t /\ Inserting(u) =>
             (x[u] \in Linked(0)' <=> x[u] \in Linked(0))
  PROVE  /\ Operations' = [Operations EXCEPT ![t] = Operation(t)']
         /\ Dones' = [Dones EXCEPT ![t] = Done(t)']
         /\ Answers' = [Answers EXCEPT ![t] = Answer(t)']
<1>1. ASSUME NEW u \in Threads, u # t
      PROVE  /\ Operation(u)' = Operation(u)
             /\ Done(u)' = Done(u)
             /\ Answer(u)' = Answer(u)
  <2>1. Bystander(u)
    BY <1>1
  <2>2. Linearized(u)' <=> Linearized(u)
    BY <1>1, <2>1 DEF Linearized, Inserting, Bystander
  <2>3. Operation(u)' = Operation(u)
    BY <2>1 DEF Operation, Inserting, Bystander
  <2>4. Done(u)' = Done(u) /\ Answer(u)' = Answer(u)
    BY <2>1, <2>2 DEF Done, Answer, Bystander
  <2> QED BY <2>3, <2>4
<1> QED BY <1>1, Mapped

LEMMA PresentKept ==
  ASSUME Linked(0)' = Linked(0)
  PROVE  Present' = Present
BY DEF Present

LEMMA SameLinked ==
  ASSUME Shape, UNCHANGED link
  PROVE  Linked(0)' = Linked(0)
BY Bottom, SameLinks

\* Before its call ends, a thread has answered only if its node is linked.
LEMMA AnswersLate ==
  ASSUME NoEarlyAnswer, NEW t \in Threads, pc[t] # "ret"
  PROVE  (Done(t) <=> Linearized(t)) /\ (Answer(t) <=> Linearized(t))
BY DEF NoEarlyAnswer, Done, Answer

-----------------------------------------------------------------------------
(* Steps that the set does not see                                         *)

LEMMA Stutters ==
  ASSUME Invariant, NEW t \in Threads, Call(t) \/ Step(t), Linked(0)' = Linked(0),
         UNCHANGED key,
         Operation(t)' = Operation(t), Done(t)' = Done(t), Answer(t)' = Answer(t)
  PROVE  UNCHANGED Set!vars
<1>1. \A u \in Threads : u # t => Bystander(u)
  BY Bystanders DEF Invariant
<1>2. \A u \in Threads : u # t /\ Inserting(u) =>
          (x[u] \in Linked(0)' <=> x[u] \in Linked(0))
  OBVIOUS
<1>3. /\ Operations' = [Operations EXCEPT ![t] = Operation(t)]
      /\ Dones' = [Dones EXCEPT ![t] = Done(t)]
      /\ Answers' = [Answers EXCEPT ![t] = Answer(t)]
  BY <1>1, <1>2, BystandersKept DEF Invariant
<1>4. Operations' = Operations /\ Dones' = Dones /\ Answers' = Answers
  BY <1>3 DEF Operations, Dones, Answers
<1> QED BY <1>4, PresentKept, SetStutters

\* A step inside a call that sets no link and ends nothing.
LEMMA StepInside ==
  ASSUME Invariant, NEW t \in Threads, Step(t), Linked(0)' = Linked(0),
         UNCHANGED <<key, x, splice, ret>>,
         pc[t] \notin {"idle", "ret"}, pc'[t] \notin {"idle", "ret"}
  PROVE  UNCHANGED Set!vars
<1>1. Operation(t)' = Operation(t) /\ Done(t)' = Done(t) /\ Answer(t)' = Answer(t)
  BY DEF Operation, Done, Answer, Linearized, Inserting
<1> QED BY <1>1, Stutters

LEMMA QuietSteps ==
  ASSUME Invariant, NEW t \in Threads, Step(t),
         \/ SeekAdvance(t) \/ SeekDescend(t) \/ CASMaxHeight(t) \/ ReloadMaxHeight(t)
         \/ OpenSplice(t) \/ ReuseSplice(t) \/ CheckSplice(t) \/ FindAdvance(t)
         \/ FindDescend(t) \/ Refound(t) \/ LinkStale(t) \/ PrepareLink(t) \/ CASFailed(t)
  PROVE  UNCHANGED Set!vars
<1>1. UNCHANGED <<key, x, splice, ret>> /\ (UNCHANGED link \/ PrepareLink(t))
  BY DEF list, call, SeekAdvance, SeekDescend, CASMaxHeight, ReloadMaxHeight, OpenSplice,
         ReuseSplice, CheckSplice, FindAdvance, FindDescend, Refound, LinkStale, PrepareLink,
         CASFailed
<1>2. Linked(0)' = Linked(0)
  BY <1>1, Bottom, SameLinked, PrepareLinkStep DEF Invariant
<1>3. pc[t] \notin {"idle", "ret"} /\ pc'[t] \notin {"idle", "ret"}
  <2> USE DEF Invariant, Shape, TypeOK
  <2>1. CASE SeekAdvance(t) \/ SeekDescend(t) \/ CASMaxHeight(t) \/ ReloadMaxHeight(t)
    BY <2>1 DEF SeekAdvance, SeekDescend, CASMaxHeight, ReloadMaxHeight
  <2>2. CASE OpenSplice(t) \/ ReuseSplice(t) \/ CheckSplice(t)
    BY <2>2 DEF OpenSplice, ReuseSplice, CheckSplice, CheckFrom, RecomputeSpliceLevels
  <2>3. CASE FindAdvance(t) \/ FindDescend(t) \/ Refound(t)
    BY <2>3 DEF FindAdvance, FindDescend, Refound
  <2>4. CASE LinkStale(t) \/ PrepareLink(t) \/ CASFailed(t)
    BY <2>4 DEF LinkStale, PrepareLink, CASFailed, Refind
  <2> QED BY <2>1, <2>2, <2>3, <2>4
<1> QED BY <1>1, <1>2, <1>3, StepInside

LEMMA FinishQuiet ==
  ASSUME Invariant, NEW t \in Threads, Step(t), FinishInsert(t)
  PROVE  UNCHANGED Set!vars
<1>1. /\ pc[t] = "finish" /\ pc'[t] = "ret" /\ ret'[t] = TRUE
      /\ UNCHANGED <<link, key, x, splice>>
  BY DEF FinishInsert, list, call, Invariant, Shape, TypeOK
<1>2. Linked(0)' = Linked(0)
  BY <1>1, SameLinked DEF Invariant
<1>3. Inserting(t) /\ x[t] \in Linked(0)
  <2>1. Inserting(t) /\ height[x[t]] \in 1 .. kMaxHeight
    BY <1>1, Inside DEF Invariant
  <2> QED BY <1>1, <2>1, Bottom DEF Invariant, Links, ThreadLinks, Placed
<1>4. Operation(t)' = Operation(t) /\ Done(t)' = Done(t) /\ Answer(t)' = Answer(t)
  BY <1>1, <1>2, <1>3 DEF Operation, Done, Answer, Linearized, Inserting
<1> QED BY <1>1, <1>2, <1>4, Stutters

-----------------------------------------------------------------------------
(* Steps that are steps of the set                                         *)

LEMMA ContainsCallInvokes ==
  ASSUME Invariant, NEW t \in Threads, NEW k \in Keys, ContainsCall(t, k), Call(t)
  PROVE  Set!Invoke(t, "contains", k)
<1>1. /\ pc[t] = "idle" /\ pc'[t] = "seek" /\ key' = [key EXCEPT ![t] = k]
      /\ UNCHANGED <<link, x, splice, ret>>
  BY DEF ContainsCall, list, Invariant, Shape, TypeOK
<1>2. ~Inserting(t) /\ Linked(0)' = Linked(0)
  BY <1>1, Reading, SameLinked DEF Invariant
<1>3. \A u \in Threads : u # t => Bystander(u)
  BY Bystanders DEF Invariant
<1>4. /\ Operations' = [Operations EXCEPT ![t] = Operation(t)']
      /\ Dones' = [Dones EXCEPT ![t] = Done(t)']
      /\ Answers' = [Answers EXCEPT ![t] = Answer(t)']
  BY <1>2, <1>3, BystandersKept DEF Invariant
<1>5. /\ Operation(t) = "none" /\ Operation(t)' = "contains"
      /\ Done(t)' = Done(t) /\ Answer(t)' = Answer(t)
  BY <1>1, <1>2 DEF Operation, Done, Answer, Linearized, Inserting
<1>6. Operations[t] = "none" /\ Dones' = Dones /\ Answers' = Answers
  BY <1>4, <1>5 DEF Operations, Dones, Answers
<1> QED BY <1>1, <1>2, <1>4, <1>5, <1>6, PresentKept, SetInvokes

LEMMA InsertCallInvokes ==
  ASSUME Invariant, NEW t \in Threads, NEW n \in Nodes, NEW h \in 1 .. kMaxHeight,
         NEW s \in Splices, NEW c, NEW f, InsertCall(t, n, h, s, c, f), Call(t)
  PROVE  Set!Invoke(t, "insert", Key[n])
<1>1. /\ pc[t] = "idle" /\ pc'[t] \in {"raise", "open"} /\ key' = [key EXCEPT ![t] = Key[n]]
      /\ UNCHANGED <<link, ret>> /\ height[n] = 0 /\ x'[t] = n /\ splice'[t] = s
  BY DEF InsertCall, list, Invariant, Shape, TypeOK
<1>2. ~Inserting(t) /\ Linked(0)' = Linked(0) /\ s # NoSplice
  BY <1>1, Reading, SameLinked, SplicesAssumption DEF Invariant, Splices
<1>3. n \notin Linked(0)
  BY <1>1, Bottom DEF Invariant, Links, Nested
<1>4. \A u \in Threads : u # t => Bystander(u)
  BY Bystanders DEF Invariant
<1>5. /\ Operations' = [Operations EXCEPT ![t] = Operation(t)']
      /\ Dones' = [Dones EXCEPT ![t] = Done(t)']
      /\ Answers' = [Answers EXCEPT ![t] = Answer(t)']
  BY <1>2, <1>4, BystandersKept DEF Invariant
<1>6. /\ Operation(t) = "none" /\ Operation(t)' = "insert"
      /\ Done(t)' = Done(t) /\ Answer(t)' = Answer(t)
  BY <1>1, <1>2, <1>3 DEF Operation, Done, Answer, Linearized, Inserting
<1>7. Operations[t] = "none" /\ Dones' = Dones /\ Answers' = Answers
  BY <1>5, <1>6 DEF Operations, Dones, Answers
<1> QED BY <1>1, <1>2, <1>5, <1>6, <1>7, PresentKept, SetInvokes

\* The search of level 0 ended between two neighbours: the key is there only
\* if the second one has it.
LEMMA SeekFinds ==
  ASSUME Invariant, NEW t \in Threads, SeekReturn(t)
  PROVE  LET n == link[before[t]][level[t]]
         IN  n # Null /\ Key[n] = key[t] <=> key[t] \in Present
<1> DEFINE n == link[before[t]][level[t]]
           k == key[t]
<1>1. /\ level[t] \in Levels /\ before[t] \in OnLevel(level[t])
      /\ n \in Linked(level[t]) \cup {Null}
  BY StandsOn DEF SeekReturn, Cursors, Invariant
<1>2. IsBehind(before[t], k) /\ IsBeyond(after[t], k)
  BY DEF SeekReturn, Cursors, Invariant, Order, ThreadOrder, SearchBrackets
<1>3. /\ k \in Int /\ \A m \in Nodes : Key[m] \in Int
  BY KeyIsInt DEF Invariant
<1>4. n # Null => n \in Linked(0) /\ n \in Nodes
  <2>1. 0 \in 0 .. level[t]
    BY <1>1 DEF Levels
  <2> QED BY <1>1, <2>1, Bottom DEF Invariant, Links, Nested
<1>5. ASSUME ~(n # Null /\ Key[n] = k), NEW m \in Linked(0), Key[m] = k
      PROVE  FALSE
  <2>1. level[t] = 0 /\ SeekIsBigger(t, n)
    BY <1>5 DEF SeekReturn, SeekIsBigger
  <2>2. IsBeyond(n, k)
    BY <1>2, <2>1 DEF SeekIsBigger, IsBeyond
  <2>3. NothingSkipped(0)
    BY Bottom DEF Invariant, Order, Ordered
  <2>4. ~IsBeyond(n, Key[m])
    BY <1>1, <1>2, <1>5, <2>1, <2>3 DEF NothingSkipped
  <2> QED BY <1>5, <2>2, <2>4
<1> QED BY <1>4, <1>5 DEF Present

LEMMA SeekReturnContains ==
  ASSUME Invariant, NEW t \in Threads, SeekReturn(t), Step(t)
  PROVE  Set!Contains(t)
<1>1. /\ pc[t] = "seek" /\ pc'[t] = "ret" /\ UNCHANGED <<link, key, x, splice>>
      /\ ret'[t] = (key[t] \in Present)
  <2>1. ret'[t] = (link[before[t]][level[t]] # Null
                     /\ Key[link[before[t]][level[t]]] = key[t])
    BY DEF SeekReturn, Invariant, Shape, TypeOK
  <2>2. ret'[t] = (key[t] \in Present)
    BY <2>1, SeekFinds
  <2> QED BY <2>2 DEF SeekReturn, list, call, Invariant, Shape, TypeOK
<1>2. ~Inserting(t) /\ Linked(0)' = Linked(0)
  BY <1>1, Reading, SameLinked DEF Invariant
<1>3. \A u \in Threads : u # t => Bystander(u)
  BY Bystanders DEF Invariant
<1>4. /\ Operations' = [Operations EXCEPT ![t] = Operation(t)']
      /\ Dones' = [Dones EXCEPT ![t] = Done(t)']
      /\ Answers' = [Answers EXCEPT ![t] = Answer(t)']
  BY <1>2, <1>3, BystandersKept DEF Invariant
<1>5. Operation(t) = "contains" /\ Operation(t)' = Operation(t)
  BY <1>1, <1>2 DEF Operation, Inserting
<1>6. ~Done(t) /\ Done(t)' = TRUE
  BY <1>1, <1>2 DEF Done, Linearized
<1>7. Answer(t)' = (key[t] \in Present)
  <2>1. Linearized(t)' = FALSE
    BY <1>1, <1>2 DEF Linearized, Inserting
  <2>2. CASE key[t] \in Present
    <3>1. ret'[t] = TRUE /\ (key[t] \in Present) = TRUE
      BY <1>1, <2>2
    <3> QED BY <2>2, <3>1 DEF Answer
  <2>3. CASE key[t] \notin Present
    <3>1. (key[t] \in Present) = FALSE
      BY <2>3
    <3>2. ret'[t] = FALSE
      BY <1>1, <3>1
    <3>3. Answer(t)' = FALSE
      BY <2>1, <3>2 DEF Answer
    <3> QED BY <3>1, <3>3
  <2> QED BY <2>2, <2>3
<1>8. Operations[t] = "contains" /\ Operations' = Operations /\ ~Dones[t]
  BY <1>4, <1>5, <1>6 DEF Operations, Dones
<1> QED BY <1>1, <1>2, <1>4, <1>6, <1>7, <1>8, PresentKept, SetContains

LEMMA LinkDuplicateInserts ==
  ASSUME Invariant, NEW t \in Threads, LinkDuplicate(t), Step(t)
  PROVE  Set!Insert(t)
<1>1. /\ pc[t] = "link" /\ pc'[t] = "ret" /\ UNCHANGED <<link, key, x, splice>>
      /\ ret'[t] = FALSE /\ level[t] = 0
  BY DEF LinkDuplicate, IsDuplicate, list, call, Invariant, Shape, TypeOK
<1>2. /\ Inserting(t) /\ x[t] \notin Linked(0) /\ Linked(0)' = Linked(0)
      /\ Prev(t) \in OnLevel(0) /\ Succ(t) \in Linked(0) \cup {Null}
  <2>1. /\ Inserting(t) /\ \A l \in Levels : x[t] \in Linked(l) <=> l < level[t]
        /\ Prev(t) \in OnLevel(level[t]) /\ Succ(t) \in Linked(level[t]) \cup {Null}
    BY <1>1, AboutToLink DEF Invariant
  <2>2. Linked(0)' = Linked(0)
    BY <1>1, SameLinked DEF Invariant
  <2> QED BY <1>1, <2>1, <2>2, Bottom DEF Invariant
\* One of the neighbours has the key.
<1>3. key[t] \in Present
  <2>1. IsBehind(Prev(t), key[t]) /\ ~KeyIsAfterNode(key[t], Succ(t))
    BY <1>1, LinksInside DEF Invariant
  <2>2. /\ key[t] \in Int /\ \A m \in Nodes : Key[m] \in Int
        /\ Linked(0) \subseteq Nodes
    BY KeyIsInt, Bottom DEF Invariant
  <2>3. Succ(t) # Null /\ key[t] >= Key[Succ(t)]
    <3>1. Prev(t) # Head => ~(Key[Prev(t)] >= key[t])
      BY <1>2, <2>1, <2>2 DEF IsBehind, OnLevel
    <3> QED BY <3>1 DEF LinkDuplicate, IsDuplicate
  <2>4. Key[Succ(t)] = key[t]
    BY <1>2, <2>1, <2>2, <2>3 DEF KeyIsAfterNode
  <2> QED BY <1>2, <2>3, <2>4 DEF Present
<1>4. \A u \in Threads : u # t => Bystander(u)
  BY Bystanders DEF Invariant
<1>5. /\ Operations' = [Operations EXCEPT ![t] = Operation(t)']
      /\ Dones' = [Dones EXCEPT ![t] = Done(t)']
      /\ Answers' = [Answers EXCEPT ![t] = Answer(t)']
  BY <1>2, <1>4, BystandersKept DEF Invariant
<1>6. Operation(t) = "insert" /\ Operation(t)' = Operation(t)
  BY <1>1, <1>2 DEF Operation, Inserting
<1>7. ~Done(t) /\ Done(t)' = TRUE /\ Answer(t)' = FALSE
  BY <1>1, <1>2 DEF Done, Answer, Linearized, Inserting
<1>8. Operations[t] = "insert" /\ Operations' = Operations /\ ~Dones[t]
  BY <1>5, <1>6, <1>7 DEF Operations, Dones
<1>9. Present' = Present \cup {key[t]}
  BY <1>2, <1>3, PresentKept
<1>10. (key[t] \notin Present) = FALSE
  BY <1>3
<1> QED BY <1>1, <1>5, <1>7, <1>8, <1>9, <1>10, SetInserts

LEMMA PublishLinkInserts ==
  ASSUME Invariant, NEW t \in Threads, PublishLink(t), Step(t)
  PROVE  Set!Insert(t) \/ UNCHANGED Set!vars
<1>0. PICK lv \in Levels : lv = level[t]
  BY DEF Invariant, Shape, TypeOK
<1>1. /\ pc[t] = "publish" /\ pc'[t] \in {"link", "finish"}
      /\ UNCHANGED <<key, x, splice, ret>>
  BY DEF PublishLink, call, Invariant, Shape, TypeOK
<1>2. /\ Inserting(t) /\ x[t] \in Nodes /\ key[t] = Key[x[t]]
      /\ \A l \in Levels : x[t] \in Linked(l) <=> l < lv
  <2>1. Inserting(t) /\ x[t] \in Nodes /\ \A l \in Levels : x[t] \in Linked(l) <=> l < lv
    BY <1>0, <1>1, AboutToLink DEF Invariant
  <2> QED BY <2>1 DEF Invariant, Shape, CallShape, CallOK
<1>3. /\ \A l \in Levels : l # lv => Linked(l)' = Linked(l)
      /\ Linked(lv)' = Linked(lv) \cup {x[t]}
  BY <1>0, PublishLinkStep DEF Invariant
<1>4. \A u \in Threads : u # t => Bystander(u)
  BY Bystanders DEF Invariant
<1>5. CASE lv # 0
  <2>1. Linked(0)' = Linked(0)
    BY <1>3, <1>5, Bottom DEF Invariant
  <2> QED BY <1>1, <2>1, StepInside
<1>6. CASE lv = 0
  <2>1. Linked(0)' = Linked(0) \cup {x[t]} /\ x[t] \notin Linked(0)
    BY <1>2, <1>3, <1>6
  <2>2. \A u \in Threads : u # t /\ Inserting(u) =>
            (x[u] \in Linked(0)' <=> x[u] \in Linked(0))
    BY <1>2, <2>1 DEF Invariant, Shape, Exclusive
  <2>3. /\ Operations' = [Operations EXCEPT ![t] = Operation(t)']
        /\ Dones' = [Dones EXCEPT ![t] = Done(t)']
        /\ Answers' = [Answers EXCEPT ![t] = Answer(t)']
    BY <1>4, <2>2, BystandersKept DEF Invariant
  <2>4. Operation(t) = "insert" /\ Operation(t)' = Operation(t)
    BY <1>1, <1>2 DEF Operation, Inserting
  <2>5. ~Done(t) /\ Done(t)' = TRUE /\ Answer(t)' = TRUE
    BY <1>1, <1>2, <2>1 DEF Done, Answer, Linearized, Inserting
  <2>6. Operations[t] = "insert" /\ Operations' = Operations /\ ~Dones[t]
    BY <2>3, <2>4, <2>5 DEF Operations, Dones
  <2>7. key[t] \notin Present
    BY <1>0, <1>6, NotThere DEF Invariant, Present
  <2>8. Present' = Present \cup {key[t]}
    BY <1>2, <2>1 DEF Present
  <2>9. (key[t] \notin Present) = TRUE
    BY <2>7
  <2> QED BY <1>1, <2>3, <2>5, <2>6, <2>8, <2>9, SetInserts
<1> QED BY <1>5, <1>6

LEMMA ReturnResponds ==
  ASSUME Invariant, NEW t \in Threads, Return(t), Step(t)
  PROVE  Set!Respond(t)
<1>1. /\ pc[t] = "ret" /\ pc'[t] = "idle" /\ splice'[t] = NoSplice /\ ret'[t] = FALSE
      /\ UNCHANGED <<link, key>>
  BY DEF Return, list, Invariant, Shape, TypeOK
<1>2. Linked(0)' = Linked(0)
  BY <1>1, SameLinked DEF Invariant
<1>3. \A u \in Threads : u # t => Bystander(u)
  BY Bystanders DEF Invariant
<1>4. /\ Operations' = [Operations EXCEPT ![t] = Operation(t)']
      /\ Dones' = [Dones EXCEPT ![t] = Done(t)']
      /\ Answers' = [Answers EXCEPT ![t] = Answer(t)']
  BY <1>2, <1>3, BystandersKept DEF Invariant
<1>5. Done(t) /\ Operation(t)' = "none" /\ Done(t)' = FALSE /\ Answer(t)' = FALSE
  BY <1>1 DEF Operation, Done, Answer, Linearized, Inserting
<1>6. Dones[t]
  BY <1>5 DEF Dones
<1> QED BY <1>1, <1>2, <1>4, <1>5, <1>6, PresentKept, SetResponds

-----------------------------------------------------------------------------
(* The refinement                                                          *)

LEMMA InitSet == Init => Set!Init
<1> SUFFICES ASSUME Init PROVE Set!Init
  OBVIOUS
<1>1. Linked(0) = {}
  <2>1. 0 \in Levels
    BY HeightAssumption DEF Levels
  <2> QED BY <2>1 DEF Init, Linked
<1>2. \A t \in Threads : ~Inserting(t) /\ pc[t] = "idle" /\ ret[t] = FALSE
  BY DEF Init, Inserting
<1>3. Operations = [t \in Threads |-> "none"]
  BY <1>2 DEF Operations, Operation
<1>4. Dones = [t \in Threads |-> FALSE] /\ Answers = [t \in Threads |-> FALSE]
  <2>1. \A t \in Threads : Done(t) = FALSE /\ Answer(t) = FALSE
    BY <1>2 DEF Done, Answer, Linearized
  <2> QED BY <2>1 DEF Dones, Answers
<1>5. Present = {}
  BY <1>1 DEF Present
<1>6. key \in [Threads -> Keys]
  BY DEF Init
<1> QED BY <1>3, <1>4, <1>5, <1>6
        DEF Set!Init, Operations, Operation, Dones, Done, Answers, Answer, Present

LEMMA NextSet ==
  ASSUME Invariant, [Next]_vars
  PROVE  [Set!Next]_(Set!vars)
<1>1. CASE UNCHANGED vars
  <2>1. UNCHANGED <<link, pc, key, x, splice, ret>>
    BY <1>1 DEF vars, list, call
  <2>2. Linked(0)' = Linked(0)
    BY <2>1, SameLinked DEF Invariant
  <2>3. \A t \in Threads : /\ Operation(t)' = Operation(t)
                           /\ Done(t)' = Done(t) /\ Answer(t)' = Answer(t)
    BY <2>1, <2>2 DEF Operation, Done, Answer, Linearized, Inserting
  <2>4. Operations' = Operations /\ Dones' = Dones /\ Answers' = Answers
    BY <2>3 DEF Operations, Dones, Answers
  <2> QED BY <2>1, <2>2, <2>4, PresentKept, SetStutters
<1>2. ASSUME NEW t \in Threads, Call(t) PROVE Set!Next
  <2>1. ASSUME NEW k \in Keys, ContainsCall(t, k) PROVE Set!Next
    <3>1. Set!Invoke(t, "contains", k)
      BY <1>2, <2>1, ContainsCallInvokes
    <3> QED BY <3>1 DEF Set!Next
  <2>2. ASSUME NEW n \in Nodes, NEW h \in 1 .. kMaxHeight,
               Insert(t, n, h) \/ InsertConcurrently(t, n, h) \/ InsertWithHint(t, n, h)
        PROVE  Set!Next
    <3>1. PICK s \in Splices, c \in BOOLEAN, f \in BOOLEAN : InsertCall(t, n, h, s, c, f)
      BY <2>2 DEF Insert, InsertConcurrently, InsertWithHint, Splices
    <3>2. Set!Invoke(t, "insert", Key[n]) /\ Key[n] \in Keys
      BY <1>2, <3>1, InsertCallInvokes, KeysAssumption
    <3> QED BY <3>2 DEF Set!Next
  <2> QED BY <1>2, <2>1, <2>2 DEF Call
<1>3. ASSUME NEW t \in Threads, Step(t) PROVE Set!Next \/ UNCHANGED Set!vars
  <2>1. CASE SeekReturn(t)
    BY <1>3, <2>1, SeekReturnContains DEF Set!Next
  <2>2. CASE LinkDuplicate(t)
    BY <1>3, <2>2, LinkDuplicateInserts DEF Set!Next
  <2>3. CASE PublishLink(t)
    BY <1>3, <2>3, PublishLinkInserts DEF Set!Next
  <2>4. CASE Return(t)
    BY <1>3, <2>4, ReturnResponds DEF Set!Next
  <2>5. CASE FinishInsert(t)
    BY <1>3, <2>5, FinishQuiet
  <2> QED BY <1>3, <2>1, <2>2, <2>3, <2>4, <2>5, QuietSteps DEF Step
<1> QED BY <1>1, <1>2, <1>3 DEF Next

LEMMA NextNoEarlyAnswer ==
  ASSUME Shape, NoEarlyAnswer, [Next]_vars
  PROVE  NoEarlyAnswer'
<1>1. CASE UNCHANGED vars
  BY <1>1 DEF vars, NoEarlyAnswer
<1>2. ASSUME NEW t \in Threads, Call(t) \/ Step(t), pc'[t] # "ret" PROVE ret'[t] = FALSE
  <2> USE DEF NoEarlyAnswer, Shape, TypeOK
  <2>1. ASSUME NEW k \in Keys, ContainsCall(t, k) PROVE ret'[t] = FALSE
    BY <2>1 DEF ContainsCall
  <2>2. ASSUME NEW n, NEW h, NEW s, NEW c, NEW f, InsertCall(t, n, h, s, c, f)
        PROVE  ret'[t] = FALSE
    BY <2>2 DEF InsertCall
  <2>3. Call(t) => ret'[t] = FALSE
    BY <2>1, <2>2 DEF Call, Insert, InsertConcurrently, InsertWithHint
  <2>4. SeekAdvance(t) \/ SeekDescend(t) \/ CASMaxHeight(t) \/ ReloadMaxHeight(t)
            => ret'[t] = FALSE
    BY DEF SeekAdvance, SeekDescend, CASMaxHeight, ReloadMaxHeight
  <2>5. OpenSplice(t) \/ ReuseSplice(t) \/ CheckSplice(t) => ret'[t] = FALSE
    BY DEF OpenSplice, ReuseSplice, CheckSplice
  <2>6. FindAdvance(t) \/ FindDescend(t) \/ Refound(t) => ret'[t] = FALSE
    BY DEF FindAdvance, FindDescend, Refound
  <2>7. LinkStale(t) \/ PrepareLink(t) \/ PublishLink(t) \/ CASFailed(t) => ret'[t] = FALSE
    BY DEF LinkStale, PrepareLink, PublishLink, CASFailed
  <2>8. SeekReturn(t) \/ LinkDuplicate(t) \/ FinishInsert(t) => pc'[t] = "ret"
    BY DEF SeekReturn, LinkDuplicate, FinishInsert
  <2>9. Return(t) => ret'[t] = FALSE
    BY DEF Return
  <2> QED BY <1>2, <2>3, <2>4, <2>5, <2>6, <2>7, <2>8, <2>9 DEF Step
<1>3. ASSUME NEW t \in Threads, Call(t) \/ Step(t) PROVE NoEarlyAnswer'
  <2>1. \A u \in Threads : u # t => Bystander(u)
    BY <1>3, Bystanders
  <2> QED BY <1>2, <1>3, <2>1 DEF NoEarlyAnswer, Bystander
<1> QED BY <1>1, <1>3 DEF Next

\* Every call of Insert and Contains takes effect at one instant as an
\* operation on a set of keys and answers accordingly, whatever calls overlap
\* it: a losing insert finds the winner's key, and Contains sees a key exactly
\* if an insert has published it on level 0.
THEOREM SetRefined == Spec => Linearizable
<1>1. Init => Shape /\ Links /\ Order /\ NoEarlyAnswer
  BY InitShape, InitLinks, InitOrder, InitNoEarlyAnswer
<1>2. /\ Shape /\ Links /\ Order /\ NoEarlyAnswer /\ [Next]_vars
      => Shape' /\ Links' /\ Order' /\ NoEarlyAnswer'
  BY NextShape, NextLinks, NextOrder, NextNoEarlyAnswer
<1>3. Shape /\ Links /\ Order /\ NoEarlyAnswer /\ [Next]_vars => [Set!Next]_(Set!vars)
  BY NextSet DEF Invariant
<1> QED BY <1>1, <1>2, <1>3, InitSet, PTL DEF Spec, Linearizable, Set!Spec
=============================================================================
