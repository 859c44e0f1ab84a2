-------------------------- MODULE MCPersistantPool --------------------------
(* Small instances of PersistantPool.                                      *)
EXTENDS PersistantPool, TLC

CONSTANTS t1, t2, v1, v2

MCThreads == {t1, t2}
MCValues == {v1, v2}

\* Pool 0 has a small and a big chunk, pool 1 a big one only.
MCOffsets == {1, 2}
MCRoom == <<0, 1>> :> 2 @@ <<0, 2>> :> 3 @@ <<1, 1>> :> 3 @@ <<1, 2>> :> 0

\* A chunk in each pool.
MCSmallRoom == <<0, 1>> :> 2 @@ <<0, 2>> :> 0 @@ <<1, 1>> :> 3 @@ <<1, 2>> :> 0

\* v1 is compressed and fits anywhere, v2 is not and needs a big chunk.
MCRequests == {<<v1, TRUE>>, <<v2, FALSE>>}
MCLength == <<v1, TRUE>> :> 1 @@ <<v2, FALSE>> :> 2

MCSymmetry == Permutations(MCThreads)
=============================================================================
