------------------------- MODULE MCCheckpointStore -------------------------
(* Instances of CheckpointStore: number of batches per stage, for a        *)
(* translation f1 and for f2, another translation of the same input.       *)
EXTENDS CheckpointStore, TLC

CONSTANTS p1, p2, t1, t2, f1, f2

Stages(t, r) == [translated |-> t, reviewed |-> r, finalized |-> 1]

BatchesSharedRun  == (f1 :> Stages(1, 1))
BatchesMigration  == (f1 :> Stages(2, 1)) @@ (f2 :> Stages(1, 1))

Symmetric == Permutations({p1, p2}) \cup Permutations({t1, t2})
=============================================================================
