----------------------------- MODULE MCDownload -----------------------------
(* Small files for module Download. *)
EXTENDS Download

CONSTANTS i1, i2, i3

\* A tar archive ends in zero blocks.
Tar == [kind |-> "blob", blob |-> <<1, 0, 2, 0, 0>>, damaged |-> <<1, 3, 2, 0, 0>>]

\* The archive of the same version, published anew and shorter.
ShorterTar == [kind |-> "blob", blob |-> <<1, 0, 0>>, damaged |-> <<3, 0, 0>>]

\* A bsdiff patch ends in a bzip2 stream, whose last byte need not be zero.
Patch == [kind |-> "patch", blob |-> <<1, 0, 2>>, damaged |-> <<1, 3, 2>>]

\* From or to the new content.
OtherPatch == [kind |-> "patch", blob |-> <<1, 4, 0, 2>>, damaged |-> <<1, 4, 0, 3>>]

Files == {Tar, ShorterTar, Patch, OtherPatch}
=============================================================================
