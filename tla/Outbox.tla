------------------------------- MODULE Outbox -------------------------------
(***************************************************************************)
(* Upgrade notifications: the fan-out at the end of a publish and of an    *)
(* admin announce, the table notifications_outbox, and the worker pool     *)
(* that turns each row into a POST to the operator's webhook.              *)
(*                                                                         *)
(* A catalogue call is one step, a POST is one step.  Server processes     *)
(* share the catalogue; a process can be killed between any two steps.     *)
(* The binary is built with the debugger disabled, so that an error no     *)
(* handler-case catches also ends the process (%notif-build-payload, or    *)
(* the recording of a failure, can raise one).                             *)
(*                                                                         *)
(* Abstractions.  One software on one platform, so that a release is its   *)
(* version.  A client has an address or it has none.  The payload's other  *)
(* fields, its HMAC and the audit log are left out.                        *)
(***************************************************************************)
EXTENDS Naturals, Sequences

CONSTANTS
    Clients,
    Releases,
    Tracked,        \* client -> release it had reported before the start, or None
    Servers,        \* server processes on the catalogue
    Handlers,       \* request handlers
    Workers,        \* notification-pool threads
    Home,           \* the process a handler or a worker belongs to
    MaxAttempts,    \* max_attempts
    MaxAnnounces,   \* bound: announce requests
    MaxCalls,       \* bound: state reports and address changes by clients
    MaxCrashes,     \* bound: killed processes
    MaxErrors,      \* bound: catalogue calls that report an error
    MaxLost,        \* bound: POSTs that were accepted and not answered
    None

ASSUME NoneAssumption == None \notin Releases
ASSUME TrackedAssumption == Tracked \in [Clients -> Releases \cup {None}]
ASSUME HomeAssumption == Home \in [Handlers \cup Workers -> Servers]
ASSUME MaxAttemptsAssumption == MaxAttempts \in Nat \ {0}
ASSUME BoundsAssumption ==
    {MaxAnnounces, MaxCalls, MaxCrashes, MaxErrors, MaxLost} \subseteq Nat

VARIABLES
    released,   \* releases with a row in the catalogue
    on,         \* client_software_state: client -> current_release_id or None
    address,    \* client_emails: has the client an address?
    outbox,     \* notifications_outbox by AUTOINCREMENT id
    up,         \* server processes that run
    handler,    \* handler -> locals of its fan-out
    worker,     \* worker -> locals of %notif-dispatch
    webhook,    \* notification -> times the webhook took it, whether it ever
                \* refused it, whether it was skipped (history)
    count       \* announces, calls, crashes, errors, lost answers so far

vars == <<released, on, address, outbox, up, handler, worker, webhook, count>>

Reasons == {"publish", "announce"}

\* UNIQUE (client_id, software_name, release_id, reason)
Notification == [client : Clients, release : Releases, reason : Reasons]

Statuses == {"pending", "running", "sent", "failed"}
Final == {"sent", "failed"}

Row(what, status, attempts) == [what |-> what, status |-> status, attempts |-> attempts]

\* Locals of a fan-out: the clients to come and the one it is about to tell.
Locals(pc, release, reason, todo, client) ==
    [pc |-> pc, release |-> release, reason |-> reason, todo |-> todo, client |-> client]

NoFanOut == Locals("idle", None, "publish", {}, None)
IdleWorker == [pc |-> "idle", id |-> 0, attempts |-> 0]

\* The types, and that max_attempts bounds the claims of a row, but for those
\* that a killed process took with it.
TypeOK ==
    /\ released \subseteq Releases
    /\ on \in [Clients -> Releases \cup {None}]
    /\ address \in [Clients -> BOOLEAN]
    /\ outbox \in Seq([what : Notification, status : Statuses, attempts : Nat])
    /\ \A i \in DOMAIN outbox : outbox[i].attempts <= MaxAttempts + count.crashes
    /\ up \subseteq Servers
    /\ handler \in [Handlers -> [pc : {"idle", "list", "check", "insert"},
                                 release : Releases \cup {None}, reason : Reasons,
                                 todo : SUBSET Clients, client : Clients \cup {None}]]
    /\ worker \in [Workers -> [pc : {"idle", "load", "skip", "post", "sent",
                                     "refused", "retry"},
                               id : Nat, attempts : Nat]]
    /\ \A w \in Workers : worker[w].pc # "idle" =>
         worker[w].id \in DOMAIN outbox /\ worker[w].attempts >= 1
    /\ webhook \in [Notification -> [taken : Nat, refused : BOOLEAN, skipped : BOOLEAN]]
    /\ count \in [announces : 0..MaxAnnounces, calls : 0..MaxCalls,
                  crashes : 0..MaxCrashes, errors : 0..MaxErrors, lost : 0..MaxLost]

Init ==
    /\ on = Tracked
    /\ released = {r \in Releases : \E c \in Clients : Tracked[c] = r}
    /\ address \in [Clients -> BOOLEAN]
    /\ outbox = <<>>
    /\ up = {}
    /\ handler = [h \in Handlers |-> NoFanOut]
    /\ worker = [w \in Workers |-> IdleWorker]
    /\ webhook = [n \in Notification |->
                    [taken |-> 0, refused |-> FALSE, skipped |-> FALSE]]
    /\ count = [announces |-> 0, calls |-> 0, crashes |-> 0, errors |-> 0, lost |-> 0]

Error == count.errors < MaxErrors /\ count' = [count EXCEPT !.errors = @ + 1]

----------------------------------------------------------------------------
(* Server processes *)

\* A faulty variant: rows a dead worker left behind are not reset.
BootWithoutReset(s) ==
    /\ s \notin up
    /\ up' = up \cup {s}
    /\ UNCHANGED <<released, on, address, outbox, handler, worker, webhook, count>>

\* serve: reset-stale-running-notifications, then start the pool.
Boot(s) ==
    /\ s \notin up
    /\ up' = up \cup {s}
    /\ outbox' = [i \in DOMAIN outbox |->
                    IF outbox[i].status = "running"
                    THEN Row(outbox[i].what, "pending", outbox[i].attempts) ELSE outbox[i]]
    /\ UNCHANGED <<released, on, address, handler, worker, webhook, count>>

Crash(s) ==
    /\ s \in up
    /\ count.crashes < MaxCrashes
    /\ count' = [count EXCEPT !.crashes = @ + 1]
    /\ up' = up \ {s}
    /\ handler' = [h \in Handlers |-> IF Home[h] = s THEN NoFanOut ELSE handler[h]]
    /\ worker' = [w \in Workers |-> IF Home[w] = s THEN IdleWorker ELSE worker[w]]
    /\ UNCHANGED <<released, on, address, outbox, webhook>>

----------------------------------------------------------------------------
(* Clients *)

Call == count.calls < MaxCalls /\ count' = [count EXCEPT !.calls = @ + 1]

\* PUT /v1/clients/me/state/<software>; None for an uninstall.
PutState(c, r) ==
    /\ Call
    /\ up # {}
    /\ on' = [on EXCEPT ![c] = r]
    /\ UNCHANGED <<released, address, outbox, up, handler, worker, webhook>>

\* PUT and DELETE /v1/clients/me/email.
PutEmail(c, has) ==
    /\ Call
    /\ up # {}
    /\ address' = [address EXCEPT ![c] = has]
    /\ UNCHANGED <<released, on, outbox, up, handler, worker, webhook>>

----------------------------------------------------------------------------
(* enqueue-publish-notifications *)

FanOut(h, r, reason) ==
    handler' = [handler EXCEPT ![h] = Locals("list", r, reason, {}, None)]

\* The publish handler has won the insert of the row.  Until it comes to the
\* fan-out it builds patches (module Publish); a retry of the publish finds
\* the row and answers without any fan-out.
PublishRelease(h, r) ==
    /\ handler[h].pc = "idle"
    /\ Home[h] \in up
    /\ r \notin released
    /\ released' = released \cup {r}
    /\ FanOut(h, r, "publish")
    /\ UNCHANGED <<on, address, outbox, up, worker, webhook, count>>

\* POST .../announce: whatever release the operator names.
Announce(h, r) ==
    /\ handler[h].pc = "idle"
    /\ Home[h] \in up
    /\ count.announces < MaxAnnounces
    /\ count' = [count EXCEPT !.announces = @ + 1]
    /\ FanOut(h, r, "announce")
    /\ UNCHANGED <<released, on, address, outbox, up, worker, webhook>>

\* The next client, or the end of the fan-out.
Continue(h, todo) ==
    handler' = [handler EXCEPT ![h] =
                  IF todo = {} THEN NoFanOut
                  ELSE Locals("check", handler[h].release, handler[h].reason, todo, None)]

ListClientsOnSoftware(h) ==
    /\ handler[h].pc = "list"
    /\ Continue(h, {c \in Clients : on[c] # None})
    /\ UNCHANGED <<released, on, address, outbox, up, worker, webhook, count>>

\* get-client-software-state: is the client on another release?
CheckClient(h, c) ==
    /\ handler[h].pc = "check"
    /\ c \in handler[h].todo
    /\ IF on[c] \in {None, handler[h].release}
       THEN Continue(h, handler[h].todo \ {c})
       ELSE handler' = [handler EXCEPT ![h] =
                          Locals("insert", handler[h].release, handler[h].reason,
                                 handler[h].todo, c)]
    /\ UNCHANGED <<released, on, address, outbox, up, worker, webhook, count>>

What(h) == [client |-> handler[h].client, release |-> handler[h].release,
            reason |-> handler[h].reason]

NewRow(what) == Row(what, "pending", 0)

\* INSERT OR IGNORE.
EnqueueNotification(h) ==
    /\ handler[h].pc = "insert"
    /\ outbox' = IF \E i \in DOMAIN outbox : outbox[i].what = What(h)
                 THEN outbox ELSE Append(outbox, NewRow(What(h)))
    /\ Continue(h, handler[h].todo \ {handler[h].client})
    /\ UNCHANGED <<released, on, address, up, worker, webhook, count>>

\* An error in the fan-out is logged (publish) or answered with a 500
\* (announce); the clients that are left get no row.
FanOutError(h) ==
    /\ handler[h].pc # "idle"
    /\ Error
    /\ handler' = [handler EXCEPT ![h] = NoFanOut]
    /\ UNCHANGED <<released, on, address, outbox, up, worker, webhook>>

----------------------------------------------------------------------------
(* The notification pool *)

\* A faulty variant: SELECT and UPDATE without BEGIN IMMEDIATE, so that a
\* second worker still reads the row as pending.
ClaimAnyUnfinished(w) ==
    /\ worker[w].pc = "idle"
    /\ Home[w] \in up
    /\ \E i \in DOMAIN outbox :
         /\ outbox[i].status \in {"pending", "running"}
         /\ outbox' = [outbox EXCEPT ![i] = Row(@.what, "running", @.attempts + 1)]
         /\ worker' = [worker EXCEPT ![w] = [pc |-> "load", id |-> i,
                                             attempts |-> outbox[i].attempts + 1]]
    /\ UNCHANGED <<released, on, address, up, handler, webhook, count>>

\* A faulty variant: ORDER BY id DESC.
ClaimNewest(w) ==
    /\ worker[w].pc = "idle"
    /\ Home[w] \in up
    /\ \E i \in DOMAIN outbox :
         /\ outbox[i].status = "pending"
         /\ \A k \in i + 1 .. Len(outbox) : outbox[k].status # "pending"
         /\ outbox' = [outbox EXCEPT ![i] = Row(@.what, "running", @.attempts + 1)]
         /\ worker' = [worker EXCEPT ![w] = [pc |-> "load", id |-> i,
                                             attempts |-> outbox[i].attempts + 1]]
    /\ UNCHANGED <<released, on, address, up, handler, webhook, count>>

\* claim-next-notification: the oldest pending row, one attempt more.
ClaimNextNotification(w) ==
    /\ worker[w].pc = "idle"
    /\ Home[w] \in up
    /\ \E i \in DOMAIN outbox :
         /\ outbox[i].status = "pending"
         /\ \A k \in 1 .. i - 1 : outbox[k].status # "pending"
         /\ outbox' = [outbox EXCEPT ![i] = Row(@.what, "running", @.attempts + 1)]
         /\ worker' = [worker EXCEPT ![w] = [pc |-> "load", id |-> i,
                                             attempts |-> outbox[i].attempts + 1]]
    /\ UNCHANGED <<released, on, address, up, handler, webhook, count>>

Held(w) == outbox[worker[w].id].what

\* %notif-build-payload: without an address there is nothing to send.
BuildPayload(w) ==
    /\ worker[w].pc = "load"
    /\ worker' = [worker EXCEPT ![w].pc = IF address[Held(w).client] THEN "post" ELSE "skip"]
    /\ UNCHANGED <<released, on, address, outbox, up, handler, webhook, count>>

\* The answer to the POST.
PostAccepted(w) ==
    /\ worker[w].pc = "post"
    /\ webhook' = [webhook EXCEPT ![Held(w)].taken = @ + 1]
    /\ worker' = [worker EXCEPT ![w].pc = "sent"]
    /\ UNCHANGED <<released, on, address, outbox, up, handler, count>>

PostRefused(w) ==
    /\ worker[w].pc = "post"
    /\ webhook' = [webhook EXCEPT ![Held(w)].refused = TRUE]
    /\ worker' = [worker EXCEPT ![w].pc = "refused"]
    /\ UNCHANGED <<released, on, address, outbox, up, handler, count>>

\* A 5xx, a refused connection or a timeout.
PostFailed(w) ==
    /\ worker[w].pc = "post"
    /\ worker' = [worker EXCEPT ![w].pc = "retry"]
    /\ UNCHANGED <<released, on, address, outbox, up, handler, webhook, count>>

\* The webhook took the notification, but its answer came too late or never.
PostAnswerLost(w) ==
    /\ worker[w].pc = "post"
    /\ count.lost < MaxLost
    /\ count' = [count EXCEPT !.lost = @ + 1]
    /\ webhook' = [webhook EXCEPT ![Held(w)].taken = @ + 1]
    /\ worker' = [worker EXCEPT ![w].pc = "retry"]
    /\ UNCHANGED <<released, on, address, outbox, up, handler>>

\* UPDATE ... WHERE id: whatever the status is by now.
Mark(w, status) ==
    /\ outbox' = [outbox EXCEPT ![worker[w].id] = Row(@.what, status, @.attempts)]
    /\ worker' = [worker EXCEPT ![w] = IdleWorker]
    /\ UNCHANGED <<released, on, address, up, handler, count>>

\* mark-notification-sent, for a row without addressees too.
MarkSkipped(w) ==
    /\ worker[w].pc = "skip"
    /\ webhook' = [webhook EXCEPT ![Held(w)].skipped = TRUE]
    /\ Mark(w, "sent")

MarkSent(w) ==
    /\ worker[w].pc = "sent"
    /\ Mark(w, "sent")
    /\ UNCHANGED webhook

MarkRefused(w) ==
    /\ worker[w].pc = "refused"
    /\ Mark(w, "failed")
    /\ UNCHANGED webhook

\* The handler-case around the POST also covers recording its outcome.
MarkError(w) ==
    /\ worker[w].pc \in {"sent", "refused"}
    /\ Error
    /\ worker' = [worker EXCEPT ![w].pc = "retry"]
    /\ UNCHANGED <<released, on, address, outbox, up, handler, webhook>>

\* A faulty variant: the last attempt is not counted.
FailureWithBackoffTooEarly(w) ==
    /\ worker[w].pc = "retry"
    /\ Mark(w, IF worker[w].attempts + 1 >= MaxAttempts THEN "failed" ELSE "pending")
    /\ UNCHANGED webhook

\* A faulty variant: one attempt too many.
FailureWithBackoffTooLate(w) ==
    /\ worker[w].pc = "retry"
    /\ Mark(w, IF worker[w].attempts > MaxAttempts THEN "failed" ELSE "pending")
    /\ UNCHANGED webhook

\* %notif-failure-with-backoff
FailureWithBackoff(w) ==
    /\ worker[w].pc = "retry"
    /\ Mark(w, IF worker[w].attempts >= MaxAttempts THEN "failed" ELSE "pending")
    /\ UNCHANGED webhook

----------------------------------------------------------------------------

HandlerStep(h) ==
    \/ ListClientsOnSoftware(h)
    \/ \E c \in Clients : CheckClient(h, c)
    \/ EnqueueNotification(h)

WorkerStep(w) ==
    \/ ClaimNextNotification(w)
    \/ BuildPayload(w)
    \/ PostAccepted(w) \/ PostRefused(w) \/ PostFailed(w)
    \/ MarkSkipped(w) \/ MarkSent(w) \/ MarkRefused(w)
    \/ FailureWithBackoff(w)

Next ==
    \/ \E s \in Servers : Boot(s) \/ Crash(s)
    \/ \E c \in Clients :
         \/ \E r \in released \cup {None} : PutState(c, r)
         \/ \E has \in BOOLEAN : PutEmail(c, has)
    \/ \E h \in Handlers :
         \/ \E r \in Releases : PublishRelease(h, r) \/ Announce(h, r)
         \/ HandlerStep(h)
         \/ FanOutError(h)
    \/ \E w \in Workers : WorkerStep(w) \/ PostAnswerLost(w) \/ MarkError(w)

Spec == Init /\ [][Next]_vars

\* systemd restarts a dead server, its threads run, and every POST comes to
\* an end: dexador's timeouts are set.
FairSpec ==
    /\ Spec
    /\ \A s \in Servers : WF_vars(Boot(s))
    /\ \A h \in Handlers : WF_vars(HandlerStep(h))
    /\ \A w \in Workers : WF_vars(WorkerStep(w))

----------------------------------------------------------------------------
(* What holds with one server process *)

\* The outcome in the catalogue is what happened: a row is 'sent' because
\* the webhook took it or nobody was to be told, and 'failed' because the
\* webhook refused it or the attempts are used up.
OutcomeIsTrue ==
    \A i \in DOMAIN outbox :
        LET seen == webhook[outbox[i].what]
        IN  /\ outbox[i].status = "sent" => seen.taken > 0 \/ seen.skipped
            /\ outbox[i].status = "failed" =>
                 seen.refused \/ outbox[i].attempts >= MaxAttempts

\* The webhook takes the same notification twice only after a killed process,
\* a catalogue error or a lost answer, at most one time more for each: no
\* second worker and no retry of a refused or failed POST repeats it.
DuplicatesHaveACause ==
    \A n \in Notification :
        webhook[n].taken <= 1 + count.crashes + count.errors + count.lost

\* The queue as the rest of the server may think of it: a row is waiting,
\* taken, sent or failed, and a worker holds the row it has claimed.
ItemStatus(status) ==
    IF status = "pending" THEN "waiting" ELSE IF status = "running" THEN "taken" ELSE status

Queue == INSTANCE WorkQueue WITH
    Outcomes <- Final,
    items <- [i \in DOMAIN outbox |-> ItemStatus(outbox[i].status)],
    holds <- [w \in Workers |-> worker[w].id]

\* The outbox is a work queue: rows are claimed oldest first, whatever was
\* retried, by one worker each ("BEGIN IMMEDIATE wraps the SELECT+UPDATE so two
\* workers don't claim the same row"); an outcome, once recorded, stays; and a
\* restart puts back those rows, and only those, that no thread is posting
\* (claim-next-notification, reset-stale-running-notifications).
OutboxIsAQueue == Queue!Spec

\* Every notification ends, however long the webhook is out of order and
\* whichever process dies ("a worker that died mid-POST doesn't leave a row
\* stuck").
NotificationsEnd ==
    []<>(\A i \in DOMAIN outbox : outbox[i].status \in Final)

=============================================================================
