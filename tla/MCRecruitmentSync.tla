------------------------- MODULE MCRecruitmentSync -------------------------
(* Instances of RecruitmentSync for TLC.                                   *)
EXTENDS RecruitmentSync, TLC

\* Neither two runs nor two deliveries are told apart.
Symmetry == Permutations(Runs) \cup Permutations(Hooks)
=============================================================================
