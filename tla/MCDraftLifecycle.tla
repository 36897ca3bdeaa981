-------------------------- MODULE MCDraftLifecycle --------------------------
(***************************************************************************)
(* Instances of DraftLifecycle for TLC.                                    *)
(***************************************************************************)
EXTENDS DraftLifecycle, TLC

CONSTANTS r1, r2

MCSymmetry == Permutations({r1, r2})

=============================================================================
