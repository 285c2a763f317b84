--------------------------- MODULE MCBatchAssembly ---------------------------
EXTENDS BatchAssembly, TLC

\* A catalog of two parts, one that fits into one, and one of two again.
ThreeCycles == <<2, 1, 2>>

TwoCycles == <<2, 2>>

PartitionSymmetry == Permutations(Partitions)
=============================================================================
