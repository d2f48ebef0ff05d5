------------------------ MODULE MCConfigTransaction -------------------------
(***************************************************************************)
(* A web administration and a command for TLC, on one provider.  Secrets   *)
(* are interchangeable.                                                    *)
(***************************************************************************)
EXTENDS ConfigTransaction, TLC

CONSTANTS v1, v2

MCValues == {v1, v2}
MCSymmetry == Permutations(MCValues)
=============================================================================
