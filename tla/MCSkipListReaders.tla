-------------------------- MODULE MCSkipListReaders --------------------------
(* Small instances of SkipListReaders.                                     *)
EXTENDS SkipListReaders, TLC

CONSTANTS t1, t2, t3, n1, n2, n3, r1

MCThreads == {t1}
MCThreeThreads == {t1, t2, t3}
MCNodes == {n1, n2, n3}
MCReaders == {r1}
MCNoReaders == {}
MCKeys == {1, 2, 3}
MCTwoKeys == {1, 2}
MCNoHints == {}

MCDistinct == n1 :> 1 @@ n2 :> 2 @@ n3 :> 3

\* n1 before n2, and n3 with the same key as n2.
MCShared == n1 :> 1 @@ n2 :> 2 @@ n3 :> 2

MCThreeSymmetry == Permutations(MCThreeThreads)
=============================================================================
