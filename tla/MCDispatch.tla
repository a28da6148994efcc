---------------------------- MODULE MCDispatch -----------------------------
(* Constants of the model-checked instances of Dispatch.                   *)
EXTENDS Dispatch, TLC

(* Every provider matches every job.                                       *)
MCSuits == [j \in Jobs |-> Providers]

(* Scheduler processes are interchangeable.                                *)
MCSymmetry == Permutations(Workers)
=============================================================================
