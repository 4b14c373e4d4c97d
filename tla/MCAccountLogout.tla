-------- MODULE MCAccountLogout --------
(* Three threads log one session out, two times each. *)
EXTENDS AccountLogout, TLC

\* What the proofs assume of the constants.
ASSUME ConstantsOK == LogoutAssumption

\* The threads are alike.
Symmetry == Permutations(Threads)
=============================================================================
