------------------------------ MODULE MCFleet ------------------------------
(* Fleet with constants for TLC. *)
EXTENDS Fleet, TLC

MCVersions == 1..3

\* Versions in order; or one that does not parse, and others that compare equal,
\* like 1.0 and 1.0.0.
MCRanks == [v \in Versions |-> v]
MCOddRanks == [v \in Versions |-> IF v = 1 THEN 0 ELSE 1]

\* A patch that is worth its download, also after another one, and one that is not.
MCSizes == {1, 3}

\* The first two releases have the same blob: a patch between them is small, like
\* one to the third.
MCBlob == <<"a", "a", "b">>
MCSize == [e \in Edges |-> IF e[1] = 3 THEN 3 ELSE 1]
MCHash == [e \in Edges |-> <<MCBlob[e[1]], MCBlob[e[2]]>>]

Symmetry == Permutations(Clients)
============================================================================
