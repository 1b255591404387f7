------------------------------ MODULE MCTiering ------------------------------
EXTENDS Tiering, FiniteSets, FiniteSetsExt

CONSTANTS p1, p2

OnePartition == {p1}
TwoPartitions == {p1, p2}

OneRow == {1}
OneOrTwoRows == {1, 2}
NoRowOrOne == {0, 1}

-----------------------------------------------------------------------------
RowsInMemory == MapThenSumSet(LAMBDA k : Len(relation[k]), DataKeys)

LargestWrite == CHOOSE n \in WriteSizes : \A m \in WriteSizes : m <= n

\* What the server counts as used is what it holds, and no more than one
\* FPWRITE above maxmemory: eviction makes room before rows are inserted.
MemoryBounded ==
    /\ usedMemory = Overhead + RowsInMemory
    /\ usedMemory <= MaxMemory + LargestWrite
=============================================================================
