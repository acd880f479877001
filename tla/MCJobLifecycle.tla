-------------------------- MODULE MCJobLifecycle ----------------------------
(* Instances of JobLifecycle for TLC: constants come from the cfg files.     *)
EXTENDS JobLifecycle, TLC

\* Identifiers are interchangeable; sound for the safety runs only.
IdSymmetry == Permutations(JobId)
=============================================================================
