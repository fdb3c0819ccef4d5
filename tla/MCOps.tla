-------------------------------- MODULE MCOps --------------------------------
(* Model-checking instance of Ops: the frames are interchangeable, and so  *)
(* are the operation types.                                                *)
EXTENDS Ops, TLC

OpsSymmetry == Permutations(Callers) \cup Permutations(OpTypes)
=============================================================================
