-------------------------------- MODULE MCIndex --------------------------------
(***************************************************************************)
(* The staging area for TLC.  The table starts with two slots and grows at *)
(* the second and third entry (1024 and 64 are scaled to 2 and 2), so that *)
(* additions and removals meet the threshold.                              *)
(***************************************************************************)
EXTENDS Index, TLC

MCSides == {{1}}
MCTrees == {<<>>, <<2>>, <<2, 1>>}

\* Stage 0 keys collide in the last slot of a small table; the stage 1 keys hash
\* to the slot after it, so the runs overlap and wrap around.
Clustered == [k \in Key |-> IF k[2] = 0 THEN 3 ELSE 4]
MCHashes  == {Clustered}

OidSymmetry == Permutations(Oid)

\* dirty and ret are written and never read.
View == <<hash, ix.cells, ix.count, ix.ht, ix.sorted, disk, stale>>

\* Bound: an index whose table is out of step is followed for one more call.
StaleBound == stale <= 1
================================================================================
