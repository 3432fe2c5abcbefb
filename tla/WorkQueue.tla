----------------------------- MODULE WorkQueue -----------------------------
(***************************************************************************)
(* What the server's two durable queues, patch_jobs and                    *)
(* notifications_outbox, promise: items are taken in the order in which    *)
(* they came, each by one worker at a time; an item that is finished is    *)
(* never worked on again and keeps its outcome, unless its owner deletes   *)
(* it; and a worker's death costs no item, because those it held, and no   *)
(* others, go back to the queue.                                           *)
(*                                                                         *)
(* Publish and Outbox implement it, with the rows of their table for the   *)
(* items and the row a thread has claimed for what it holds.               *)
(***************************************************************************)
EXTENDS Naturals, Sequences

CONSTANTS
    Workers,
    Outcomes    \* what a finished item can have come to

VARIABLES
    items,      \* the items by number, in the order in which they came
    holds       \* worker -> number of the item it works on, 0 for none

qvars == <<items, holds>>

Held == {holds[w] : w \in Workers}

Init == items = <<>> /\ holds = [w \in Workers |-> 0]

Submit ==
    /\ items' = Append(items, "waiting")
    /\ UNCHANGED holds

Oldest(i) == items[i] = "waiting" /\ \A k \in 1 .. i - 1 : items[k] # "waiting"

Take(w) ==
    /\ holds[w] = 0
    /\ \E i \in DOMAIN items :
         /\ Oldest(i)
         /\ items' = [items EXCEPT ![i] = "taken"]
         /\ holds' = [holds EXCEPT ![w] = i]

\* Done with it, or it shall be tried again.
Release(w, as) ==
    /\ holds[w] # 0
    /\ items' = [items EXCEPT ![holds[w]] = as]
    /\ holds' = [holds EXCEPT ![w] = 0]

\* Some workers vanish; what they held stays taken.
Die(gone) ==
    /\ holds' = [w \in Workers |-> IF w \in gone THEN 0 ELSE holds[w]]
    /\ UNCHANGED items

\* What nobody holds any longer goes back to the queue.
Recover ==
    /\ items' = [i \in DOMAIN items |->
                   IF items[i] = "taken" /\ i \notin Held THEN "waiting" ELSE items[i]]
    /\ UNCHANGED holds

\* The owner withdraws items nobody works on.
Withdraw ==
    /\ \E out \in SUBSET (DOMAIN items \ Held) :
         items' = [i \in DOMAIN items |-> IF i \in out THEN "deleted" ELSE items[i]]
    /\ UNCHANGED holds

Next ==
    \/ Submit
    \/ \E w \in Workers : Take(w) \/ \E as \in {"waiting"} \cup Outcomes : Release(w, as)
    \/ \E gone \in SUBSET Workers : Die(gone)
    \/ Recover
    \/ Withdraw

Spec == Init /\ [][Next]_qvars
=============================================================================
