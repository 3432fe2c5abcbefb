-------------------------- MODULE MCClientInstall --------------------------
(* Three versions and a bounded history for module ClientInstall. *)
EXTENDS ClientInstall, TLC

CONSTANTS v1, v2, v3

MCVersions == {v1, v2, v3}

\* Versions are only compared for equality.
VersionSymmetry == Permutations(MCVersions)
=============================================================================
