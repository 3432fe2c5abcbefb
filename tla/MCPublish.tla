----------------------------- MODULE MCPublish -----------------------------
(* Small catalogues for module Publish. *)
EXTENDS Publish, TLC

CONSTANTS linux, mac, a, b, c, s1, s2, p1, p2, w1, w2

\* One server: everything dies with it.
OneServer == [x \in {p1, p2, w1, w2} |-> s1]
OneEach == [x \in {p1, w1} |-> s1]

\* Two servers with a worker each.
TwoServers == [x \in {p1, w1} |-> s1] @@ [x \in {w2} |-> s2]

\* Version 1 can be uploaded with two contents.
TwoVersions == [r \in {linux} \X {1, 2} |-> IF r[2] = 1 THEN {a, c} ELSE {b}]

\* Version 2 can be the same bytes as version 1; version 3 is for another
\* platform.
OtherPlatform ==
    [r \in {linux, mac} \X {1, 2, 3} |-> CASE r = <<linux, 1>> -> {a}
                                          [] r = <<linux, 2>> -> {a, b}
                                          [] r = <<mac, 3>> -> {c}
                                          [] OTHER -> {}]

Interchangeable == Permutations({p1, p2}) \cup Permutations({w1, w2})
=============================================================================
