------------------------------ MODULE MCAccess ------------------------------
(* Access with constants for TLC. *)
EXTENDS Access, TLC

CONSTANTS beta, public

\* Tokens and releases without classifications, and for testers.
MCLabels == {{}, {beta}}
MCDefault == {public}

Symmetry == Permutations(Agents) \cup Permutations(Tokens)
============================================================================
