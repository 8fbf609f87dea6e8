----------------------------- MODULE MCLiveGame -----------------------------
(***************************************************************************)
(* LiveGame on small instances.  The symmetry is used by the runs that     *)
(* check no liveness.                                                      *)
(***************************************************************************)
EXTENDS LiveGame, TLC

Symmetry ==
    Permutations(Users) \cup Permutations(Apis)
        \cup Permutations(Workers) \cup Permutations(Uci)
=============================================================================
