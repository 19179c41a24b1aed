---------------------------- MODULE MCArtifactGc ----------------------------
(***************************************************************************)
(* ArtifactGc for TLC. The digests are interchangeable: no action and no   *)
(* property tells one from another.                                        *)
(***************************************************************************)
EXTENDS ArtifactGc, TLC

MCSymmetry == Permutations(Digests)
=============================================================================
