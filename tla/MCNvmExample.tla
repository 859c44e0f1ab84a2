---------------------------- MODULE MCNvmExample ----------------------------
(* Small instances of NvmExample.                                          *)
EXTENDS NvmExample

CONSTANTS t1, t2

MCThreads == {t1, t2}
MCOneThread == {t1}

\* Words that can be taken for sizes and counts, slices of different lengths.
MCWords == {1, 2, 3}
MCKeys == {<<1>>, <<2>>}
MCValues == {<<2>>, <<3, 1>>}
MCShortValues == {<<2>>, <<3>>}

MCLibpmem == {TRUE}
MCBuilds == {TRUE, FALSE}

MCBoth == {"crash", "power"}
=============================================================================
