------------------------------ MODULE MCOutbox ------------------------------
(* Small fleets for module Outbox. *)
EXTENDS Outbox

CONSTANTS c1, c2, s1, h1, w1, w2

\* Every client has reported the first release.
AllOnFirst == [c \in Clients |-> 1]

OneServer == [x \in {h1, w1, w2} |-> s1]
=============================================================================
