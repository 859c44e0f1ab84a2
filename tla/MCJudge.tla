------------------------------- MODULE MCJudge -------------------------------
(* A small instance of Judge.                                              *)
EXTENDS Judge

CONSTANTS t1, t2, t3

MCThreads == {t1, t2, t3}

\* The first round keeps no key.
MCSampled == {0, 1, 2}
=============================================================================
