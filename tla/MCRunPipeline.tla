---------------------------- MODULE MCRunPipeline ----------------------------
(* Instances of RunPipeline.                                                *)
EXTENDS RunPipeline, TLC

\* Tabs are interchangeable.
TabSymmetry == Permutations(Tabs)
=============================================================================
