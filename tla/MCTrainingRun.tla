---------------------------- MODULE MCTrainingRun ----------------------------
EXTENDS TrainingRun, TLC

(* Neither shards nor environment sandboxes differ in anything but their names. *)
Symmetry == Permutations(Shards) \cup Permutations(Envs)
=============================================================================
