-------------------------- MODULE MCInlineSkipList --------------------------
(* Small instances of InlineSkipList.                                      *)
EXTENDS InlineSkipList, TLC

CONSTANTS t1, t2, n1, n2, n3, h1

MCThreads == {t1, t2}
MCNodes == {n1, n2, n3}
MCKeys == {1, 2}
MCThreeKeys == {1, 2, 3}
MCHints == {h1}
MCNoHints == {}

\* n1 before n2, and n3 with the same key as n2.
MCKey == n1 :> 1 @@ n2 :> 2 @@ n3 :> 2
MCDistinct == n1 :> 1 @@ n2 :> 2 @@ n3 :> 3
=============================================================================
