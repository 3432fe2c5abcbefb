----------------------------- MODULE MCDelivery -----------------------------
(* Delivery with constants for TLC.  Version 1 may be dropped and published *)
(* again with another content.                                              *)
EXTENDS Delivery, TLC

CONSTANTS a, b, c

MCOffered == 1 :> {a, c} @@ 2 :> {b}

TarEntry(kind, name, data) == [kind |-> kind, name |-> name, data |-> data]

\* b has a link and a name twice; c has an unsafe name after a safe one.
MCArchive ==
    a :> <<TarEntry("file", "app", 1), TarEntry("file", "lib", 1)>>
    @@ b :> <<TarEntry("link", "app", 0), TarEntry("file", "app", 1), TarEntry("file", "app", 2)>>
    @@ c :> <<TarEntry("file", "doc", 3), TarEntry("file", "con", 3)>>

MCCostly == {<<b, a>>}

\* A .part file of a is too long for c, one of c is resumed as one of a.
MCSize == [x \in {a, b, c} \cup {a, b, c} \X {a, b, c} |-> IF x \in {b, c} THEN 1 ELSE 2]
=============================================================================
