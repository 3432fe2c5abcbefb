---------------------------- MODULE OutboxProofs ----------------------------
(* Proofs about Outbox with one server process, for any number of clients,  *)
(* releases, handlers and workers and any bounds.                           *)
EXTENDS Outbox, DataLemmas, TLAPS

\* One server process on the catalogue.  A second one's boot resets the rows
\* of live workers, which then write over each other's outcomes.
OneProcess == \A s, t \in Servers : s = t

RowType == [what : Notification, status : Statuses, attempts : Nat]

\* A fan-out names its release, and the client it is about to tell.
FanOutsNamed ==
    \A h \in Handlers :
        /\ handler[h].pc # "idle" => handler[h].release \in Releases
        /\ handler[h].pc = "insert" => handler[h].client \in Clients

\* A busy worker belongs to a live process and its row is running, at the
\* attempt the worker thinks it is; an idle one holds no row.
Holding ==
    \A w \in Workers :
        IF worker[w].pc = "idle" THEN worker[w].id = 0
        ELSE /\ Home[w] \in up
             /\ worker[w].id \in DOMAIN outbox
             /\ outbox[worker[w].id].status = "running"
             /\ outbox[worker[w].id].attempts = worker[w].attempts

Exclusive ==
    \A w, x \in Workers :
        worker[w].pc # "idle" /\ worker[x].pc # "idle" /\ worker[w].id = worker[x].id => w = x

IsHeld(i) == \E w \in Workers : worker[w].id = i

\* A row that may be claimed again, now or after a restart, has an attempt
\* left, or a killed process used it up.
Budget ==
    \A i \in DOMAIN outbox :
        \/ outbox[i].status = "pending"
        \/ outbox[i].status = "running" /\ ~IsHeld(i)
        => outbox[i].attempts < MaxAttempts + count.crashes

QueueInv == Holding /\ Exclusive /\ Budget

\* A worker about to record an outcome has seen it.
Reported ==
    \A w \in Workers :
        /\ worker[w].pc = "sent" => webhook[Held(w)].taken > 0
        /\ worker[w].pc = "refused" => webhook[Held(w)].refused

\* UNIQUE (client_id, software_name, release_id, reason).
UniqueRows ==
    \A i, j \in DOMAIN outbox : outbox[i].what = outbox[j].what => i = j

Causes == count.crashes + count.errors + count.lost

\* Nobody is told twice without a cause, and a row that is open, unless the
\* webhook has just taken it, has not been taken without one.
NoSurplus ==
    /\ \A i \in DOMAIN outbox :
         /\ outbox[i].status \in {"pending", "running"}
         /\ \A w \in Workers : worker[w].id = i => worker[w].pc # "sent"
         => webhook[outbox[i].what].taken <= Causes
    /\ \A n \in Notification :
         (\A i \in DOMAIN outbox : outbox[i].what # n) => webhook[n].taken = 0

IndInv ==
    TypeOK /\ FanOutsNamed /\ QueueInv /\ Reported /\ UniqueRows /\ NoSurplus
        /\ OutcomeIsTrue /\ DuplicatesHaveACause

----------------------------------------------------------------------------
(* Rows *)

\* What the constructor of an outbox row returns, field by field.
LEMMA RowFields ==
    ASSUME NEW what, NEW status, NEW attempts
    PROVE  /\ Row(what, status, attempts).what = what
           /\ Row(what, status, attempts).status = status
           /\ Row(what, status, attempts).attempts = attempts
           /\ what \in Notification /\ status \in Statuses /\ attempts \in Nat
              => Row(what, status, attempts) \in RowType
BY DEF Row, RowType

\* The typed fields of an outbox row.
LEMMA RowTypes ==
    ASSUME TypeOK, NEW i \in DOMAIN outbox
    PROVE  /\ outbox \in Seq(RowType)
           /\ i \in Nat /\ i >= 1
           /\ outbox[i] \in RowType
           /\ outbox[i].what \in Notification
           /\ outbox[i].status \in Statuses
           /\ outbox[i].attempts \in Nat
<1>1. outbox \in Seq(RowType)
  BY DEF TypeOK, RowType
<1>2. outbox[i] \in RowType /\ i \in Nat /\ i >= 1
  BY <1>1, ElementType
<1>3. QED
  BY <1>1, <1>2 DEF RowType

\* What UPDATE ... WHERE id leaves behind.
LEMMA RowReplaced ==
    ASSUME TypeOK, NEW k \in DOMAIN outbox, NEW status \in Statuses, NEW attempts \in Nat,
           outbox' = [outbox EXCEPT ![k] = Row(outbox[k].what, status, attempts)]
    PROVE  /\ outbox' \in Seq(RowType)
           /\ DOMAIN outbox' = DOMAIN outbox
           /\ \A i \in DOMAIN outbox : outbox'[i].what = outbox[i].what
           /\ \A i \in DOMAIN outbox : i # k => outbox'[i] = outbox[i]
           /\ outbox'[k].status = status /\ outbox'[k].attempts = attempts
<1> DEFINE e == Row(outbox[k].what, status, attempts)
<1>1. outbox \in Seq(RowType) /\ outbox[k].what \in Notification
  BY RowTypes
<1>2. /\ e \in RowType /\ e.what = outbox[k].what
      /\ e.status = status /\ e.attempts = attempts
  BY <1>1, RowFields
<1> HIDE DEF e
<1>3. outbox' = [outbox EXCEPT ![k] = e]
  BY DEF e
<1>4. QED
  BY <1>1, <1>2, <1>3, ReplacedElement

\* What a mark leaves behind.
LEMMA MarkedRow ==
    ASSUME TypeOK, NEW w, worker[w].id \in DOMAIN outbox,
           NEW status \in Statuses, Mark(w, status)
    PROVE  /\ outbox' \in Seq(RowType)
           /\ DOMAIN outbox' = DOMAIN outbox
           /\ \A i \in DOMAIN outbox : outbox'[i].what = outbox[i].what
           /\ \A i \in DOMAIN outbox : i # worker[w].id => outbox'[i] = outbox[i]
           /\ outbox'[worker[w].id].status = status
           /\ outbox'[worker[w].id].attempts = outbox[worker[w].id].attempts
<1> DEFINE k == worker[w].id
           e == Row(outbox[k].what, status, outbox[k].attempts)
<1>1. /\ outbox \in Seq(RowType) /\ k \in DOMAIN outbox
      /\ outbox[k].what \in Notification /\ outbox[k].attempts \in Nat
  BY RowTypes
<1>2. /\ e \in RowType /\ e.what = outbox[k].what
      /\ e.status = status /\ e.attempts = outbox[k].attempts
  BY <1>1, RowFields
<1>3. outbox' = [outbox EXCEPT ![k] = e]
  BY DEF Mark
<1> HIDE DEF k, e
<1>4. /\ outbox' \in Seq(RowType) /\ DOMAIN outbox' = DOMAIN outbox /\ outbox'[k] = e
      /\ \A i \in DOMAIN outbox : i # k => outbox'[i] = outbox[i]
  BY <1>1, <1>2, <1>3, ReplacedElement
<1>5. \A i \in DOMAIN outbox : outbox'[i].what = outbox[i].what
  BY <1>2, <1>4
<1>6. QED
  BY <1>2, <1>4, <1>5 DEF k

\* What the reset at boot leaves behind.
LEMMA RowsReset ==
    ASSUME TypeOK,
           outbox' = [i \in DOMAIN outbox |->
                        IF outbox[i].status = "running"
                        THEN Row(outbox[i].what, "pending", outbox[i].attempts) ELSE outbox[i]]
    PROVE  /\ outbox' \in Seq(RowType)
           /\ DOMAIN outbox' = DOMAIN outbox
           /\ \A i \in DOMAIN outbox :
                /\ outbox'[i].what = outbox[i].what
                /\ outbox'[i].attempts = outbox[i].attempts
                /\ outbox'[i].status = IF outbox[i].status = "running" THEN "pending"
                                       ELSE outbox[i].status
<1>1. ASSUME NEW i \in DOMAIN outbox
      PROVE  /\ outbox'[i] \in RowType
             /\ outbox'[i].what = outbox[i].what
             /\ outbox'[i].attempts = outbox[i].attempts
             /\ outbox'[i].status = IF outbox[i].status = "running" THEN "pending"
                                    ELSE outbox[i].status
  <2>1. /\ outbox[i] \in RowType /\ outbox[i].what \in Notification
        /\ outbox[i].attempts \in Nat
    BY RowTypes
  <2>2. CASE outbox[i].status = "running"
    <3>1. outbox'[i] = Row(outbox[i].what, "pending", outbox[i].attempts)
      BY <2>2
    <3>2. "pending" \in Statuses
      BY DEF Statuses
    <3>3. QED
      BY <2>1, <2>2, <3>1, <3>2, RowFields
  <2>3. CASE outbox[i].status # "running"
    BY <2>1, <2>3
  <2>4. QED
    BY <2>2, <2>3
<1>2. outbox \in Seq(RowType)
  BY DEF TypeOK, RowType
<1>3. outbox' = [i \in DOMAIN outbox |-> outbox'[i]]
  OBVIOUS
<1>4. outbox' \in Seq(RowType) /\ DOMAIN outbox' = DOMAIN outbox
  BY <1>1, <1>2, <1>3, MappedSequence
<1>5. QED
  BY <1>1, <1>4

----------------------------------------------------------------------------
(* Clients' calls and fan-outs up to the insert *)

\* These steps touch neither rows nor workers.
Beside ==
    \/ \E c \in Clients :
         \/ \E r \in released \cup {None} : PutState(c, r)
         \/ \E has \in BOOLEAN : PutEmail(c, has)
    \/ \E h \in Handlers :
         \/ \E r \in Releases : PublishRelease(h, r) \/ Announce(h, r)
         \/ ListClientsOnSoftware(h)
         \/ \E c \in Clients : CheckClient(h, c)
         \/ FanOutError(h)

\* The counters are natural numbers.
LEMMA CountType ==
    ASSUME TypeOK
    PROVE  /\ count.crashes \in Nat /\ count.errors \in Nat /\ count.lost \in Nat
           /\ Causes \in Nat /\ MaxAttempts \in Nat
BY BoundsAssumption, MaxAttemptsAssumption DEF TypeOK, Causes

\* A step beside the queue leaves the queue, the workers and the receiver alone.
LEMMA BesideFrame ==
    ASSUME TypeOK, Beside
    PROVE  /\ UNCHANGED <<outbox, worker, webhook, up>>
           /\ count'.crashes = count.crashes /\ count'.lost = count.lost
           /\ count'.errors \in Nat /\ count'.errors >= count.errors
           /\ count' \in [announces : 0..MaxAnnounces, calls : 0..MaxCalls,
                          crashes : 0..MaxCrashes, errors : 0..MaxErrors, lost : 0..MaxLost]
<1> DEFINE T == [announces : 0..MaxAnnounces, calls : 0..MaxCalls,
                 crashes : 0..MaxCrashes, errors : 0..MaxErrors, lost : 0..MaxLost]
<1>a. /\ count \in T
      /\ MaxAnnounces \in Nat /\ MaxCalls \in Nat /\ MaxCrashes \in Nat
      /\ MaxErrors \in Nat /\ MaxLost \in Nat
  BY BoundsAssumption DEF TypeOK
<1>b. UNCHANGED count => count' \in T /\ count'.errors = count.errors
                         /\ count'.crashes = count.crashes /\ count'.lost = count.lost
  BY <1>a
<1>c. ASSUME count.calls < MaxCalls, count' = [count EXCEPT !.calls = @ + 1]
      PROVE  count' \in T /\ count'.errors = count.errors
             /\ count'.crashes = count.crashes /\ count'.lost = count.lost
  BY <1>a, <1>c
<1>d. ASSUME count.announces < MaxAnnounces, count' = [count EXCEPT !.announces = @ + 1]
      PROVE  count' \in T /\ count'.errors = count.errors
             /\ count'.crashes = count.crashes /\ count'.lost = count.lost
  BY <1>a, <1>d
<1>e. ASSUME count.errors < MaxErrors, count' = [count EXCEPT !.errors = @ + 1]
      PROVE  count' \in T /\ count'.errors = count.errors + 1
             /\ count'.crashes = count.crashes /\ count'.lost = count.lost
  BY <1>a, <1>e
<1>f. count.errors \in Nat
  BY <1>a
<1> HIDE DEF T
<1>1. CASE \E c \in Clients :
             \/ \E r \in released \cup {None} : PutState(c, r)
             \/ \E has \in BOOLEAN : PutEmail(c, has)
  <2>1. Call /\ UNCHANGED <<outbox, worker, webhook, up>>
    BY <1>1 DEF PutState, PutEmail
  <2>2. QED
    BY <1>c, <1>f, <2>1 DEF Call, T
<1>2. CASE \E h \in Handlers : \E r \in Releases : Announce(h, r)
  BY <1>2, <1>d, <1>f DEF Announce, T
<1>3. CASE \/ \E h \in Handlers : \E r \in Releases : PublishRelease(h, r)
           \/ \E h \in Handlers : ListClientsOnSoftware(h)
           \/ \E h \in Handlers : \E c \in Clients : CheckClient(h, c)
  <2>1. UNCHANGED <<outbox, worker, webhook, up, count>>
    BY <1>3 DEF PublishRelease, ListClientsOnSoftware, CheckClient
  <2>2. QED
    BY <1>b, <1>f, <2>1 DEF T
<1>4. CASE \E h \in Handlers : FanOutError(h)
  BY <1>4, <1>e, <1>f DEF FanOutError, Error, T
<1>5. QED
  BY <1>1, <1>2, <1>3, <1>4 DEF Beside

FanOutType == [pc : {"idle", "list", "check", "insert"},
               release : Releases \cup {None}, reason : Reasons,
               todo : SUBSET Clients, client : Clients \cup {None}]

\* A step of a fan-out keeps what is known of all of them.
LEMMA HandlerMoves ==
    ASSUME TypeOK, FanOutsNamed, NEW h \in Handlers,
           NEW pc \in {"idle", "list", "check", "insert"}, NEW r \in Releases \cup {None},
           NEW reason \in Reasons, NEW todo \in SUBSET Clients, NEW c \in Clients \cup {None},
           pc # "idle" => r \in Releases, pc = "insert" => c \in Clients,
           handler' = [handler EXCEPT ![h] = Locals(pc, r, reason, todo, c)]
    PROVE  handler' \in [Handlers -> FanOutType] /\ FanOutsNamed'
<1> DEFINE e == Locals(pc, r, reason, todo, c)
<1>1. /\ e \in FanOutType /\ e.pc = pc /\ e.release = r /\ e.client = c
  BY DEF Locals, FanOutType
<1>2. handler \in [Handlers -> FanOutType]
  BY DEF TypeOK, FanOutType
<1> HIDE DEF e
<1>3. handler' = [handler EXCEPT ![h] = e]
  BY DEF e
<1>4. handler' \in [Handlers -> FanOutType]
  BY <1>1, <1>2, <1>3
<1>5. FanOutsNamed'
  BY <1>1, <1>2, <1>3 DEF FanOutsNamed
<1>6. QED
  BY <1>4, <1>5

\* The typed fields of a fan-out; a running one names its release.
LEMMA HandlerFields ==
    ASSUME TypeOK, FanOutsNamed, NEW h \in Handlers
    PROVE  /\ handler[h].release \in Releases \cup {None} /\ handler[h].reason \in Reasons
           /\ handler[h].todo \in SUBSET Clients
           /\ handler[h].pc # "idle" => handler[h].release \in Releases
           /\ handler[h].pc = "insert" => handler[h].client \in Clients
BY DEF TypeOK, FanOutsNamed

\* Ending a fan-out keeps the type and the naming of the handlers.
LEMMA FanOutEnds ==
    ASSUME TypeOK, FanOutsNamed, NEW h \in Handlers,
           handler' = [handler EXCEPT ![h] = NoFanOut]
    PROVE  handler' \in [Handlers -> FanOutType] /\ FanOutsNamed'
<1>1. /\ "idle" \in {"idle", "list", "check", "insert"} /\ "idle" # "insert"
      /\ None \in Releases \cup {None} /\ None \in Clients \cup {None}
      /\ "publish" \in Reasons /\ {} \in SUBSET Clients
  BY DEF Reasons
<1>2. handler' = [handler EXCEPT ![h] = Locals("idle", None, "publish", {}, None)]
  BY Zenon DEF NoFanOut
<1>3. QED
  BY <1>1, <1>2, HandlerMoves

\* So does moving a running fan-out to its next client.
LEMMA FanOutContinues ==
    ASSUME TypeOK, FanOutsNamed, NEW h \in Handlers, NEW todo \in SUBSET Clients,
           handler[h].pc # "idle", Continue(h, todo)
    PROVE  handler' \in [Handlers -> FanOutType] /\ FanOutsNamed'
<1>1. CASE todo = {}
  <2>1. handler' = [handler EXCEPT ![h] = NoFanOut]
    BY <1>1 DEF Continue
  <2>2. QED
    BY <2>1, FanOutEnds
<1>2. CASE todo # {}
  <2>1. handler' = [handler EXCEPT ![h] =
                      Locals("check", handler[h].release, handler[h].reason, todo, None)]
    BY <1>2 DEF Continue
  <2>2. QED
    BY <2>1, HandlerFields, HandlerMoves
<1>3. QED
  BY <1>1, <1>2

\* Outside the insert, nothing but the fan-outs and the registry change type.
LEMMA BesideHandlers ==
    ASSUME TypeOK, FanOutsNamed, Beside
    PROVE  /\ handler' \in [Handlers -> FanOutType] /\ FanOutsNamed'
           /\ released' \subseteq Releases
           /\ on' \in [Clients -> Releases \cup {None}]
           /\ address' \in [Clients -> BOOLEAN]
<1>0. /\ released \subseteq Releases /\ on \in [Clients -> Releases \cup {None}]
      /\ address \in [Clients -> BOOLEAN] /\ handler \in [Handlers -> FanOutType]
  BY DEF TypeOK, FanOutType
<1>1. ASSUME NEW c \in Clients, NEW r \in released \cup {None}, PutState(c, r)
      PROVE  /\ UNCHANGED <<handler, released, address>>
             /\ on' \in [Clients -> Releases \cup {None}]
  BY <1>0, <1>1 DEF PutState
<1>2. ASSUME NEW c \in Clients, NEW has \in BOOLEAN, PutEmail(c, has)
      PROVE  /\ UNCHANGED <<handler, released, on>>
             /\ address' \in [Clients -> BOOLEAN]
  BY <1>0, <1>2 DEF PutEmail
<1>3. ASSUME NEW h \in Handlers, NEW r \in Releases, PublishRelease(h, r) \/ Announce(h, r)
      PROVE  /\ handler' \in [Handlers -> FanOutType] /\ FanOutsNamed'
             /\ released' \subseteq Releases /\ UNCHANGED <<on, address>>
  <2>1. PICK reason \in Reasons : FanOut(h, r, reason)
    BY <1>3 DEF PublishRelease, Announce, Reasons
  <2>2. handler' = [handler EXCEPT ![h] = Locals("list", r, reason, {}, None)]
    BY <2>1 DEF FanOut
  <2>3. handler' \in [Handlers -> FanOutType] /\ FanOutsNamed'
    BY <2>2, HandlerMoves
  <2>4. released' \subseteq Releases /\ UNCHANGED <<on, address>>
    BY <1>0, <1>3 DEF PublishRelease, Announce
  <2>5. QED
    BY <2>3, <2>4
<1>4. ASSUME NEW h \in Handlers, ListClientsOnSoftware(h)
      PROVE  /\ handler' \in [Handlers -> FanOutType] /\ FanOutsNamed'
             /\ UNCHANGED <<released, on, address>>
  BY <1>4, FanOutContinues DEF ListClientsOnSoftware
<1>5. ASSUME NEW h \in Handlers, NEW c \in Clients, CheckClient(h, c)
      PROVE  /\ handler' \in [Handlers -> FanOutType] /\ FanOutsNamed'
             /\ UNCHANGED <<released, on, address>>
  <2>1. handler[h].pc # "idle" /\ handler[h].todo \ {c} \in SUBSET Clients
    BY <1>5, HandlerFields DEF CheckClient
  <2>2. CASE Continue(h, handler[h].todo \ {c})
    BY <1>5, <2>1, <2>2, FanOutContinues DEF CheckClient
  <2>3. CASE handler' = [handler EXCEPT ![h] =
                           Locals("insert", handler[h].release, handler[h].reason,
                                  handler[h].todo, c)]
    BY <1>5, <2>1, <2>3, HandlerFields, HandlerMoves DEF CheckClient
  <2>4. QED
    BY <1>5, <2>2, <2>3 DEF CheckClient
<1>6. ASSUME NEW h \in Handlers, FanOutError(h)
      PROVE  /\ handler' \in [Handlers -> FanOutType] /\ FanOutsNamed'
             /\ UNCHANGED <<released, on, address>>
  BY <1>6, FanOutEnds DEF FanOutError
<1>7. UNCHANGED handler => handler' \in [Handlers -> FanOutType] /\ FanOutsNamed'
  BY <1>0 DEF FanOutsNamed
<1>8. QED
  BY <1>0, <1>1, <1>2, <1>3, <1>4, <1>5, <1>6, <1>7 DEF Beside

\* A step that leaves rows, workers and webhook alone keeps what is known of
\* them.
LEMMA RowsAside ==
    ASSUME IndInv, UNCHANGED <<outbox, worker, webhook, up>>,
           count'.crashes = count.crashes, count'.lost = count.lost,
           count'.errors \in Nat, count'.errors >= count.errors
    PROVE  /\ QueueInv' /\ Reported' /\ UniqueRows' /\ NoSurplus'
           /\ OutcomeIsTrue' /\ DuplicatesHaveACause'
<1>1. Causes \in Nat /\ Causes' \in Nat /\ Causes' >= Causes
  BY CountType DEF IndInv, Causes
<1>2. QueueInv'
  BY DEF IndInv, QueueInv, Holding, Exclusive, Budget, IsHeld
<1>3. Reported' /\ UniqueRows' /\ OutcomeIsTrue'
  BY DEF IndInv, Reported, Held, UniqueRows, OutcomeIsTrue
<1>4. \A n \in Notification : webhook[n].taken \in Nat
  BY DEF IndInv, TypeOK
<1>5. \A i \in DOMAIN outbox : outbox[i].what \in Notification
  BY RowTypes DEF IndInv
<1>6. NoSurplus'
  BY <1>1, <1>4, <1>5 DEF IndInv, NoSurplus
<1>7. DuplicatesHaveACause'
  <2>1. \A n \in Notification : webhook[n].taken <= 1 + Causes
    BY CountType DEF IndInv, DuplicatesHaveACause, Causes
  <2>2. \A n \in Notification : webhook'[n].taken <= 1 + Causes'
    BY <1>1, <1>4, <2>1
  <2>3. 1 + Causes' = 1 + count'.crashes + count'.errors + count'.lost
    BY CountType DEF IndInv, Causes
  <2>4. QED
    BY <2>2, <2>3 DEF DuplicatesHaveACause
<1>8. QED
  BY <1>2, <1>3, <1>6, <1>7

WorkerType == [pc : {"idle", "load", "skip", "post", "sent", "refused", "retry"},
               id : Nat, attempts : Nat]
WebhookType == [taken : Nat, refused : BOOLEAN, skipped : BOOLEAN]
CountFields == [announces : 0..MaxAnnounces, calls : 0..MaxCalls,
                crashes : 0..MaxCrashes, errors : 0..MaxErrors, lost : 0..MaxLost]

\* The types, one by one.
LEMMA Types ==
    ASSUME TypeOK
    PROVE  /\ released \subseteq Releases
           /\ on \in [Clients -> Releases \cup {None}]
           /\ address \in [Clients -> BOOLEAN]
           /\ outbox \in Seq(RowType)
           /\ \A i \in DOMAIN outbox : outbox[i].attempts <= MaxAttempts + count.crashes
           /\ up \subseteq Servers
           /\ handler \in [Handlers -> FanOutType]
           /\ worker \in [Workers -> WorkerType]
           /\ \A w \in Workers : worker[w].pc # "idle" =>
                worker[w].id \in DOMAIN outbox /\ worker[w].attempts >= 1
           /\ webhook \in [Notification -> WebhookType]
           /\ count \in CountFields
BY DEF TypeOK, RowType, FanOutType, WorkerType, WebhookType, CountFields

\* And together, after a step.
LEMMA TypesAgain ==
    ASSUME released' \subseteq Releases,
           on' \in [Clients -> Releases \cup {None}],
           address' \in [Clients -> BOOLEAN],
           outbox' \in Seq(RowType),
           \A i \in DOMAIN outbox' : outbox'[i].attempts <= MaxAttempts + count'.crashes,
           up' \subseteq Servers,
           handler' \in [Handlers -> FanOutType],
           worker' \in [Workers -> WorkerType],
           \A w \in Workers : worker'[w].pc # "idle" =>
                worker'[w].id \in DOMAIN outbox' /\ worker'[w].attempts >= 1,
           webhook' \in [Notification -> WebhookType],
           count' \in CountFields
    PROVE  TypeOK'
BY DEF TypeOK, RowType, FanOutType, WorkerType, WebhookType, CountFields

\* A step beside the queue keeps the inductive invariant.
LEMMA BesideStep ==
    ASSUME IndInv, Beside
    PROVE  IndInv'
<1>1. /\ UNCHANGED <<outbox, worker, webhook, up>>
      /\ count'.crashes = count.crashes /\ count'.lost = count.lost
      /\ count'.errors \in Nat /\ count'.errors >= count.errors
      /\ count' \in CountFields
  BY BesideFrame DEF IndInv, CountFields
<1>2. /\ handler' \in [Handlers -> FanOutType] /\ FanOutsNamed'
      /\ released' \subseteq Releases
      /\ on' \in [Clients -> Releases \cup {None}]
      /\ address' \in [Clients -> BOOLEAN]
  BY BesideHandlers DEF IndInv
<1>3. TypeOK
  BY DEF IndInv
<1>4. TypeOK'
  BY <1>1, <1>2, <1>3, Types, TypesAgain
<1>5. QED
  BY <1>1, <1>2, <1>4, RowsAside DEF IndInv

\* A row appended, or refused as a duplicate, keeps the inductive invariant.
LEMMA EnqueueStep ==
    ASSUME IndInv, NEW h \in Handlers, EnqueueNotification(h)
    PROVE  IndInv'
<1> USE DEF IndInv
<1>1. /\ UNCHANGED <<released, on, address, up, worker, webhook, count>>
      /\ handler[h].pc = "insert"
  BY DEF EnqueueNotification
<1>2. handler' \in [Handlers -> FanOutType] /\ FanOutsNamed'
  <2>1. /\ handler[h].pc # "idle"
        /\ handler[h].todo \ {handler[h].client} \in SUBSET Clients
        /\ Continue(h, handler[h].todo \ {handler[h].client})
    BY <1>1, HandlerFields DEF EnqueueNotification
  <2>2. QED
    BY <2>1, FanOutContinues
<1>3. What(h) \in Notification
  <2>1. /\ handler[h].client \in Clients /\ handler[h].release \in Releases
        /\ handler[h].reason \in Reasons
    BY <1>1, HandlerFields
  <2>2. QED
    BY <2>1 DEF What, Notification
<1>4. count.crashes \in Nat /\ count.errors \in Nat /\ Causes \in Nat /\ MaxAttempts \in Nat
  BY CountType
<1>5. CASE outbox' = outbox
  <2>1. TypeOK'
    BY <1>1, <1>2, <1>5, Types, TypesAgain
  <2>2. QED
    BY <1>1, <1>2, <1>4, <1>5, <2>1, RowsAside
<1>6. CASE outbox' # outbox
  <2> DEFINE e == NewRow(What(h))  k == Len(outbox) + 1
  <2>1. e \in RowType /\ e.what = What(h) /\ e.status = "pending" /\ e.attempts = 0
    <3>1. "pending" \in Statuses
      BY DEF Statuses
    <3>2. QED
      BY <1>3, <3>1, RowFields DEF NewRow
  <2>2. /\ outbox' = Append(outbox, e)
        /\ \A i \in DOMAIN outbox : outbox[i].what # What(h)
    BY <1>6 DEF EnqueueNotification
  <2> HIDE DEF e
  <2>3. outbox \in Seq(RowType)
    BY Types
  <2>4. /\ outbox' \in Seq(RowType) /\ k \notin DOMAIN outbox
        /\ DOMAIN outbox' = DOMAIN outbox \cup {k} /\ outbox'[k] = e
        /\ \A i \in DOMAIN outbox : outbox'[i] = outbox[i]
    BY <2>1, <2>2, <2>3, AppendedElement
  <2> HIDE DEF k
  <2>5. TypeOK'
    <3>1. \A i \in DOMAIN outbox' : outbox'[i].attempts <= MaxAttempts + count'.crashes
      BY <1>1, <1>4, <2>1, <2>4, Types
    <3>2. QED
      BY <1>1, <1>2, <2>4, <3>1, Types, TypesAgain
  <2>6. QueueInv'
    <3>1. Holding'
      BY <1>1, <2>4 DEF QueueInv, Holding
    <3>2. Exclusive'
      BY <1>1 DEF QueueInv, Exclusive
    <3>3. Budget'
      BY <1>1, <1>4, <2>1, <2>4, MaxAttemptsAssumption DEF QueueInv, Budget, IsHeld
    <3>4. QED
      BY <3>1, <3>2, <3>3 DEF QueueInv
  <2>7. Reported'
    BY <1>1, <2>4, Types DEF Reported, Held
  <2>8. UniqueRows'
    BY <2>1, <2>2, <2>4 DEF UniqueRows
  <2>9. NoSurplus'
    <3>1. UNCHANGED <<worker, webhook, count>> /\ Causes' = Causes
      BY <1>1 DEF Causes
    <3>2. webhook[e.what].taken <= Causes
      <4>1. webhook[What(h)].taken = 0
        BY <1>3, <2>2 DEF NoSurplus
      <4>2. Causes >= 0
        BY <1>4
      <4>3. QED
        BY <2>1, <4>1, <4>2
    <3>3. \A i \in DOMAIN outbox' : i = k \/ (i \in DOMAIN outbox /\ outbox'[i] = outbox[i])
      BY <2>4
    <3>4. QED
      BY <2>4, <3>1, <3>2, <3>3 DEF NoSurplus
  <2>10. OutcomeIsTrue'
    BY <1>1, <2>1, <2>4 DEF OutcomeIsTrue
  <2>11. DuplicatesHaveACause'
    BY <1>1 DEF DuplicatesHaveACause
  <2>12. QED
    BY <1>2, <2>5, <2>6, <2>7, <2>8, <2>9, <2>10, <2>11
<1>7. QED
  BY <1>5, <1>6

----------------------------------------------------------------------------
(* Server processes *)

\* With one process, its boot finds every worker idle.
LEMMA BootFindsIdle ==
    ASSUME OneProcess, QueueInv, NEW s \in Servers, s \notin up, NEW w \in Workers
    PROVE  worker[w].pc = "idle" /\ worker[w].id = 0
<1>1. Home[w] = s
  BY HomeAssumption DEF OneProcess
<1>2. QED
  BY <1>1 DEF QueueInv, Holding

\* The recovery at boot keeps it: the rows put back belong to no worker.
LEMMA BootStep ==
    ASSUME OneProcess, IndInv, NEW s \in Servers, Boot(s)
    PROVE  IndInv'
<1> USE DEF IndInv
<1>1. /\ UNCHANGED <<released, on, address, handler, worker, webhook, count>>
      /\ s \notin up /\ up' = up \cup {s}
  BY DEF Boot
<1>2. /\ outbox' \in Seq(RowType) /\ DOMAIN outbox' = DOMAIN outbox
      /\ \A i \in DOMAIN outbox :
           /\ outbox'[i].what = outbox[i].what
           /\ outbox'[i].attempts = outbox[i].attempts
           /\ outbox'[i].status = IF outbox[i].status = "running" THEN "pending"
                                  ELSE outbox[i].status
  BY RowsReset DEF Boot
<1>3. \A w \in Workers : worker[w].pc = "idle" /\ worker[w].id = 0
  BY <1>1, BootFindsIdle
<1>4. \A i \in DOMAIN outbox : i # 0 /\ outbox[i].what \in Notification
  BY RowTypes
<1>5. TypeOK'
  BY <1>1, <1>2, Types, TypesAgain
<1>6. FanOutsNamed'
  BY <1>1 DEF FanOutsNamed
<1>7. QueueInv'
  BY <1>1, <1>2, <1>3, <1>4 DEF QueueInv, Holding, Exclusive, Budget, IsHeld
<1>8. Reported'
  BY <1>1, <1>3 DEF Reported
<1>9. UniqueRows'
  BY <1>2 DEF UniqueRows
<1>10. NoSurplus'
  BY <1>1, <1>2, <1>3 DEF NoSurplus, Causes
<1>11. OutcomeIsTrue'
  BY <1>1, <1>2 DEF OutcomeIsTrue
<1>12. DuplicatesHaveACause'
  BY <1>1 DEF DuplicatesHaveACause
<1>13. QED
  BY <1>5, <1>6, <1>7, <1>8, <1>9, <1>10, <1>11, <1>12

\* One more killed process.
LEMMA CrashCounted ==
    ASSUME TypeOK, count.crashes < MaxCrashes, count' = [count EXCEPT !.crashes = @ + 1]
    PROVE  /\ count' \in CountFields /\ count'.crashes = count.crashes + 1
           /\ count'.errors = count.errors /\ count'.lost = count.lost
<1>1. /\ count \in CountFields
      /\ MaxAnnounces \in Nat /\ MaxCalls \in Nat /\ MaxCrashes \in Nat
      /\ MaxErrors \in Nat /\ MaxLost \in Nat
  BY BoundsAssumption, Types
<1>2. QED
  BY <1>1 DEF CountFields

\* A handler without a fan-out.
LEMMA NoFanOutType ==
    NoFanOut \in FanOutType /\ NoFanOut.pc = "idle"
BY DEF NoFanOut, Locals, FanOutType, Reasons

\* A worker without a row.
LEMMA IdleWorkerType ==
    IdleWorker \in WorkerType /\ IdleWorker.pc = "idle" /\ IdleWorker.id = 0
BY DEF IdleWorker, WorkerType

\* A crash keeps it: the workers that die leave their rows in progress.
LEMMA CrashStep ==
    ASSUME IndInv, NEW s \in Servers, Crash(s)
    PROVE  IndInv'
<1> USE DEF IndInv
<1>1. /\ UNCHANGED <<released, on, address, outbox, webhook>>
      /\ up' = up \ {s}
      /\ handler' = [h \in Handlers |-> IF Home[h] = s THEN NoFanOut ELSE handler[h]]
      /\ worker' = [w \in Workers |-> IF Home[w] = s THEN IdleWorker ELSE worker[w]]
  BY DEF Crash
<1>2. /\ count' \in CountFields /\ count'.crashes = count.crashes + 1
      /\ count'.errors = count.errors /\ count'.lost = count.lost
  BY CrashCounted DEF Crash
<1>3. /\ count.crashes \in Nat /\ count.errors \in Nat /\ count.lost \in Nat
      /\ Causes \in Nat /\ MaxAttempts \in Nat /\ Causes' = Causes + 1
  BY <1>2, CountType DEF Causes
<1>4. \A i \in DOMAIN outbox : /\ i # 0 /\ outbox[i].what \in Notification
                               /\ outbox[i].attempts \in Nat
  BY RowTypes
<1>5. /\ handler \in [Handlers -> FanOutType] /\ worker \in [Workers -> WorkerType]
      /\ webhook \in [Notification -> WebhookType]
      /\ \A i \in DOMAIN outbox : outbox[i].attempts <= MaxAttempts + count.crashes
  BY Types
<1>6. /\ handler' \in [Handlers -> FanOutType] /\ worker' \in [Workers -> WorkerType]
  BY <1>1, <1>5, NoFanOutType, IdleWorkerType
<1>7. \A w \in Workers : \/ worker'[w].pc = "idle" /\ worker'[w].id = 0
                         \/ worker'[w] = worker[w]
  BY <1>1, IdleWorkerType
<1>8. \A i \in DOMAIN outbox : outbox'[i].attempts < MaxAttempts + count'.crashes
  BY <1>1, <1>2, <1>3, <1>4, <1>5
<1>9. \A n \in Notification : webhook[n].taken \in Nat
  BY <1>5 DEF WebhookType
<1>10. TypeOK'
  <2>1. \A i \in DOMAIN outbox' : outbox'[i].attempts <= MaxAttempts + count'.crashes
    BY <1>1, <1>2, <1>3, <1>4, <1>8
  <2>2. \A w \in Workers : worker'[w].pc # "idle" =>
           worker'[w].id \in DOMAIN outbox' /\ worker'[w].attempts >= 1
    BY <1>1, <1>7, Types
  <2>3. QED
    BY <1>1, <1>2, <1>6, <2>1, <2>2, Types, TypesAgain
<1>11. FanOutsNamed'
  BY <1>1, NoFanOutType DEF FanOutsNamed
<1>12. QueueInv'
  <2>1. Holding'
    BY <1>1, IdleWorkerType DEF QueueInv, Holding
  <2>2. Exclusive'
    BY <1>7 DEF QueueInv, Exclusive
  <2>3. Budget'
    BY <1>1, <1>8 DEF Budget
  <2>4. QED
    BY <2>1, <2>2, <2>3 DEF QueueInv
<1>13. Reported'
  BY <1>1, <1>7 DEF Reported, Held
<1>14. UniqueRows' /\ OutcomeIsTrue'
  BY <1>1 DEF UniqueRows, OutcomeIsTrue
<1>15. \A n \in Notification : webhook'[n].taken <= Causes'
  <2>1. \A n \in Notification : webhook[n].taken <= 1 + Causes
    BY <1>3, <1>9 DEF DuplicatesHaveACause, Causes
  <2>2. QED
    BY <1>1, <1>3, <1>9, <2>1
<1>16. NoSurplus'
  BY <1>1, <1>4, <1>15 DEF NoSurplus
<1>17. DuplicatesHaveACause'
  <2>1. Causes' = count'.crashes + count'.errors + count'.lost
    BY DEF Causes
  <2>2. QED
    BY <1>1, <1>2, <1>3, <1>9, <1>15, <2>1 DEF DuplicatesHaveACause
<1>18. QED
  BY <1>10, <1>11, <1>12, <1>13, <1>14, <1>16, <1>17

----------------------------------------------------------------------------
(* The notification pool *)

\* What a busy worker holds, and that nobody else holds it.
LEMMA HeldRow ==
    ASSUME IndInv, NEW w \in Workers, worker[w].pc # "idle"
    PROVE  /\ worker[w].id \in DOMAIN outbox /\ worker[w].id # 0
           /\ Held(w) = outbox[worker[w].id].what /\ Held(w) \in Notification
           /\ outbox[worker[w].id].status = "running"
           /\ outbox[worker[w].id].attempts = worker[w].attempts
           /\ worker[w].attempts \in Nat
           /\ \A x \in Workers : worker[x].id = worker[w].id => x = w
<1>1. /\ worker[w].id \in DOMAIN outbox
      /\ outbox[worker[w].id].status = "running"
      /\ outbox[worker[w].id].attempts = worker[w].attempts
  BY DEF IndInv, QueueInv, Holding
<1>2. /\ outbox[worker[w].id].what \in Notification /\ worker[w].id # 0
      /\ outbox[worker[w].id].attempts \in Nat
  BY <1>1, RowTypes DEF IndInv
<1>3. \A x \in Workers : worker[x].id = worker[w].id => x = w
  BY <1>2 DEF IndInv, QueueInv, Holding, Exclusive
<1>4. QED
  BY <1>1, <1>2, <1>3 DEF Held

\* Claiming the oldest waiting row keeps it.
LEMMA ClaimStep ==
    ASSUME IndInv, NEW w \in Workers, ClaimNextNotification(w)
    PROVE  IndInv'
<1> USE DEF IndInv
<1>1. PICK i \in DOMAIN outbox :
        /\ outbox[i].status = "pending"
        /\ outbox' = [outbox EXCEPT ![i] =
                        Row(outbox[i].what, "running", outbox[i].attempts + 1)]
        /\ worker' = [worker EXCEPT ![w] = [pc |-> "load", id |-> i,
                                            attempts |-> outbox[i].attempts + 1]]
  BY DEF ClaimNextNotification
<1>2. /\ worker[w].pc = "idle" /\ Home[w] \in up
      /\ UNCHANGED <<released, on, address, up, handler, webhook, count>>
  BY DEF ClaimNextNotification
<1>3. /\ count.crashes \in Nat /\ Causes \in Nat /\ MaxAttempts \in Nat
  BY CountType
<1>4. /\ i \in Nat /\ i # 0 /\ outbox[i].attempts \in Nat /\ outbox[i].attempts + 1 \in Nat
      /\ \A k \in DOMAIN outbox : k # 0 /\ outbox[k].what \in Notification
      /\ "running" \in Statuses
  BY RowTypes DEF Statuses
<1>5. /\ outbox' \in Seq(RowType)
      /\ DOMAIN outbox' = DOMAIN outbox
      /\ \A k \in DOMAIN outbox : outbox'[k].what = outbox[k].what
      /\ \A k \in DOMAIN outbox : k # i => outbox'[k] = outbox[k]
      /\ outbox'[i].status = "running" /\ outbox'[i].attempts = outbox[i].attempts + 1
  BY <1>1, <1>4, RowReplaced
<1>6. worker \in [Workers -> WorkerType]
  BY Types
<1> DEFINE e == [pc |-> "load", id |-> i, attempts |-> outbox[i].attempts + 1]
<1>7. e \in WorkerType /\ e.pc = "load" /\ e.id = i /\ e.attempts = outbox[i].attempts + 1
  BY <1>4 DEF WorkerType
<1>8. worker' = [worker EXCEPT ![w] = e]
  BY <1>1
<1> HIDE DEF e
<1>9. /\ worker' \in [Workers -> WorkerType] /\ worker'[w] = e
      /\ \A x \in Workers : x # w => worker'[x] = worker[x]
  BY <1>6, <1>7, <1>8
<1>10. \A x \in Workers : worker[x].id # i
  BY <1>1, <1>4 DEF QueueInv, Holding
<1>11. outbox[i].attempts + 1 <= MaxAttempts + count.crashes
  BY <1>1, <1>3, <1>4 DEF QueueInv, Budget
<1>12. TypeOK'
  <2>1. \A k \in DOMAIN outbox' : outbox'[k].attempts <= MaxAttempts + count'.crashes
    BY <1>2, <1>5, <1>11, Types
  <2>2. \A x \in Workers : worker'[x].pc # "idle" =>
           worker'[x].id \in DOMAIN outbox' /\ worker'[x].attempts >= 1
    BY <1>4, <1>5, <1>7, <1>9, Types
  <2>3. QED
    BY <1>2, <1>5, <1>9, <2>1, <2>2, Types, TypesAgain
<1>13. FanOutsNamed'
  BY <1>2 DEF FanOutsNamed
<1>14. QueueInv'
  <2>1. Holding'
    BY <1>2, <1>5, <1>7, <1>9, <1>10 DEF QueueInv, Holding
  <2>2. Exclusive'
    BY <1>7, <1>9, <1>10 DEF QueueInv, Exclusive
  <2>3. Budget'
    <3>1. worker[w].id = 0
      BY <1>2 DEF QueueInv, Holding
    <3>2. QED
      BY <1>2, <1>4, <1>5, <1>7, <1>9, <3>1 DEF QueueInv, Budget, IsHeld
  <2>4. QED
    BY <2>1, <2>2, <2>3 DEF QueueInv
<1>15. Reported'
  <2>1. ASSUME NEW x \in Workers, x # w, worker'[x].pc # "idle"
        PROVE  worker'[x] = worker[x] /\ Held(x)' = Held(x)
    BY <1>5, <1>9, <2>1, HeldRow DEF Held
  <2>2. QED
    BY <1>2, <1>7, <1>9, <2>1 DEF Reported
<1>16. UniqueRows'
  BY <1>5 DEF UniqueRows
<1>17. NoSurplus'
  <2>1. webhook[outbox[i].what].taken <= Causes
    BY <1>1, <1>10 DEF NoSurplus
  <2>2. ASSUME NEW k \in DOMAIN outbox, k # i, outbox'[k].status \in {"pending", "running"},
               \A x \in Workers : worker'[x].id = k => worker'[x].pc # "sent"
        PROVE  webhook[outbox[k].what].taken <= Causes
    <3>1. worker[w].id = 0
      BY <1>2 DEF QueueInv, Holding
    <3>2. \A x \in Workers : worker[x].id = k => worker[x].pc # "sent"
      BY <1>2, <1>9, <2>2
    <3>3. QED
      BY <1>5, <2>2, <3>2 DEF NoSurplus
  <2>3. Causes' = Causes
    BY <1>2 DEF Causes
  <2>4. \A n \in Notification :
          (\A k \in DOMAIN outbox' : outbox'[k].what # n) => webhook'[n].taken = 0
    BY <1>2, <1>5 DEF NoSurplus
  <2>5. \A k \in DOMAIN outbox :
          /\ outbox'[k].status \in {"pending", "running"}
          /\ \A x \in Workers : worker'[x].id = k => worker'[x].pc # "sent"
          => webhook[outbox[k].what].taken <= Causes
    BY <2>1, <2>2
  <2>6. QED
    BY <1>2, <1>5, <2>3, <2>4, <2>5 DEF NoSurplus
<1>18. OutcomeIsTrue'
  BY <1>2, <1>5 DEF OutcomeIsTrue
<1>19. DuplicatesHaveACause'
  BY <1>2 DEF DuplicatesHaveACause
<1>20. QED
  BY <1>12, <1>13, <1>14, <1>15, <1>16, <1>17, <1>18, <1>19

\* A worker that goes on with its row changes nothing but what it and the
\* webhook know.
LEMMA WorkerMoves ==
    ASSUME IndInv, NEW w \in Workers, worker[w].pc # "idle",
           NEW pc \in {"skip", "post", "sent", "refused", "retry"},
           worker' = [worker EXCEPT ![w].pc = pc],
           UNCHANGED <<released, on, address, outbox, up, handler>>,
           webhook' \in [Notification -> WebhookType],
           count' \in CountFields, count'.crashes = count.crashes
    PROVE  /\ TypeOK' /\ FanOutsNamed' /\ QueueInv' /\ UniqueRows'
           /\ worker'[w].pc = pc
           /\ \A x \in Workers : x # w => worker'[x] = worker[x]
           /\ \A x \in Workers : worker'[x].id = worker[x].id /\ Held(x)' = Held(x)
<1> USE DEF IndInv
<1>1. worker \in [Workers -> WorkerType]
  BY Types
<1>2. /\ worker' \in [Workers -> WorkerType] /\ worker'[w].pc = pc
      /\ \A x \in Workers : x # w => worker'[x] = worker[x]
      /\ \A x \in Workers : worker'[x].id = worker[x].id
                            /\ worker'[x].attempts = worker[x].attempts
  BY <1>1 DEF WorkerType
<1>3. \A x \in Workers : (worker'[x].pc = "idle") <=> (worker[x].pc = "idle")
  BY <1>2
<1>4. \A x \in Workers : Held(x)' = Held(x)
  BY <1>2 DEF Held
<1>5. TypeOK'
  <2>1. \A x \in Workers : worker'[x].pc # "idle" =>
           worker'[x].id \in DOMAIN outbox' /\ worker'[x].attempts >= 1
    BY <1>2, <1>3, Types
  <2>2. QED
    BY <1>2, <2>1, Types, TypesAgain
<1>6. FanOutsNamed' /\ UniqueRows'
  BY DEF FanOutsNamed, UniqueRows
<1>7. QueueInv'
  BY <1>2, <1>3 DEF QueueInv, Holding, Exclusive, Budget, IsHeld
<1>8. QED
  BY <1>2, <1>4, <1>5, <1>6, <1>7

\* %notif-build-payload, a POST that fails and a POST that is refused: the
\* webhook takes nothing.
LEMMA QuietStep ==
    ASSUME IndInv, NEW w \in Workers,
           BuildPayload(w) \/ PostRefused(w) \/ PostFailed(w)
    PROVE  IndInv'
<1> USE DEF IndInv
<1>1. PICK pc \in {"skip", "post", "refused", "retry"} :
        worker' = [worker EXCEPT ![w].pc = pc] /\ (pc = "refused" => PostRefused(w))
  BY DEF BuildPayload, PostRefused, PostFailed
<1>2. /\ worker[w].pc \in {"load", "post"}
      /\ UNCHANGED <<released, on, address, outbox, up, handler, count>>
  BY DEF BuildPayload, PostRefused, PostFailed
<1>3. webhook \in [Notification -> WebhookType] /\ count \in CountFields
  BY Types
<1>4. Held(w) \in Notification
  BY <1>2, HeldRow
<1>5. /\ webhook' \in [Notification -> WebhookType]
      /\ \A n \in Notification : /\ webhook'[n].taken = webhook[n].taken
                                 /\ webhook'[n].skipped = webhook[n].skipped
                                 /\ webhook[n].refused => webhook'[n].refused
      /\ pc = "refused" => webhook'[Held(w)].refused
  <2>1. CASE UNCHANGED webhook /\ pc # "refused"
    BY <1>3, <2>1
  <2>2. CASE webhook' = [webhook EXCEPT ![Held(w)].refused = TRUE]
    BY <1>3, <1>4, <2>2 DEF WebhookType
  <2>3. QED
    BY <1>1, <2>1, <2>2 DEF BuildPayload, PostRefused, PostFailed
<1>6. /\ TypeOK' /\ FanOutsNamed' /\ QueueInv' /\ UniqueRows'
      /\ worker'[w].pc = pc
      /\ \A x \in Workers : x # w => worker'[x] = worker[x]
      /\ \A x \in Workers : worker'[x].id = worker[x].id /\ Held(x)' = Held(x)
  BY <1>1, <1>2, <1>3, <1>5, WorkerMoves
<1>7. \A i \in DOMAIN outbox : outbox[i].what \in Notification
  BY RowTypes
<1>8. Reported'
  <2>1. ASSUME NEW x \in Workers, x # w, worker[x].pc # "idle"
        PROVE  Held(x) \in Notification
    BY <2>1, HeldRow
  <2>2. QED
    BY <1>1, <1>5, <1>6, <2>1 DEF Reported
<1>9. NoSurplus'
  <2>1. \A x \in Workers : (worker'[x].pc = "sent") <=> (worker[x].pc = "sent")
    BY <1>1, <1>2, <1>6
  <2>2. Causes' = Causes
    BY <1>2 DEF Causes
  <2>3. QED
    BY <1>2, <1>5, <1>6, <1>7, <2>1, <2>2 DEF NoSurplus
<1>10. OutcomeIsTrue'
  BY <1>2, <1>5, <1>7 DEF OutcomeIsTrue
<1>11. DuplicatesHaveACause'
  BY <1>2, <1>5 DEF DuplicatesHaveACause
<1>12. QED
  BY <1>6, <1>8, <1>9, <1>10, <1>11

\* Another error or lost answer.
LEMMA CauseCounted ==
    ASSUME TypeOK,
           \/ count.errors < MaxErrors /\ count' = [count EXCEPT !.errors = @ + 1]
           \/ count.lost < MaxLost /\ count' = [count EXCEPT !.lost = @ + 1]
    PROVE  /\ count' \in CountFields /\ count'.crashes = count.crashes
           /\ Causes' = Causes + 1
<1>1. /\ count \in CountFields
      /\ MaxAnnounces \in Nat /\ MaxCalls \in Nat /\ MaxCrashes \in Nat
      /\ MaxErrors \in Nat /\ MaxLost \in Nat
  BY BoundsAssumption, Types
<1>2. CASE count.errors < MaxErrors /\ count' = [count EXCEPT !.errors = @ + 1]
  BY <1>1, <1>2 DEF CountFields, Causes
<1>3. CASE count.lost < MaxLost /\ count' = [count EXCEPT !.lost = @ + 1]
  BY <1>1, <1>3 DEF CountFields, Causes
<1>4. QED
  BY <1>2, <1>3

\* What DuplicatesHaveACause says, and an open row of a worker that has not
\* just succeeded.
LEMMA TakenBound ==
    ASSUME IndInv
    PROVE  /\ \A n \in Notification : webhook[n].taken \in Nat
           /\ \A n \in Notification : webhook[n].taken <= 1 + Causes
           /\ Causes \in Nat
           /\ \A w \in Workers : worker[w].pc \notin {"idle", "sent"} =>
                webhook[Held(w)].taken <= Causes
<1>1. \A n \in Notification : webhook[n].taken \in Nat
  BY Types DEF IndInv, WebhookType
<1>2. Causes \in Nat
  BY CountType DEF IndInv
<1>3. \A n \in Notification : webhook[n].taken <= 1 + Causes
  BY <1>1, CountType DEF IndInv, DuplicatesHaveACause, Causes
<1>4. \A w \in Workers : worker[w].pc \notin {"idle", "sent"} =>
        webhook[Held(w)].taken <= Causes
  BY HeldRow DEF IndInv, NoSurplus
<1>5. QED
  BY <1>1, <1>2, <1>3, <1>4

\* Enough to re-establish the bound on the duplicates: no count passes the causes.
LEMMA BoundAgain ==
    ASSUME IndInv, TypeOK', \A n \in Notification : webhook'[n].taken <= 1 + Causes'
    PROVE  DuplicatesHaveACause'
<1>1. /\ count'.crashes \in Nat /\ count'.errors \in Nat /\ count'.lost \in Nat
  BY BoundsAssumption DEF TypeOK
<1>2. 1 + Causes' = 1 + count'.crashes + count'.errors + count'.lost
  BY <1>1 DEF Causes
<1>3. QED
  BY <1>2 DEF DuplicatesHaveACause

\* The webhook takes it: the worker knows, or the answer is lost.
LEMMA TakenStep ==
    ASSUME IndInv, NEW w \in Workers, PostAccepted(w) \/ PostAnswerLost(w)
    PROVE  IndInv'
<1> USE DEF IndInv
<1>1. PICK pc \in {"sent", "retry"} :
        /\ worker' = [worker EXCEPT ![w].pc = pc]
        /\ pc = "sent" => count' = count
        /\ pc = "retry" =>
             count.lost < MaxLost /\ count' = [count EXCEPT !.lost = @ + 1]
  BY DEF PostAccepted, PostAnswerLost
<1>2. /\ worker[w].pc = "post"
      /\ UNCHANGED <<released, on, address, outbox, up, handler>>
      /\ webhook' = [webhook EXCEPT ![Held(w)].taken = @ + 1]
  BY DEF PostAccepted, PostAnswerLost
<1>3. webhook \in [Notification -> WebhookType] /\ count \in CountFields
  BY Types
<1>4. /\ Held(w) \in Notification /\ Held(w) = outbox[worker[w].id].what
      /\ worker[w].id \in DOMAIN outbox
  BY <1>2, HeldRow
<1>5. /\ webhook' \in [Notification -> WebhookType]
      /\ \A n \in Notification : /\ n # Held(w) => webhook'[n] = webhook[n]
                                 /\ webhook'[n].skipped = webhook[n].skipped
                                 /\ webhook'[n].refused = webhook[n].refused
      /\ webhook'[Held(w)].taken = webhook[Held(w)].taken + 1
  BY <1>2, <1>3, <1>4 DEF WebhookType
<1>6. /\ count' \in CountFields /\ count'.crashes = count.crashes
      /\ Causes' = IF pc = "sent" THEN Causes ELSE Causes + 1
  <2>1. CASE pc = "sent"
    BY <1>1, <1>3, <2>1 DEF Causes
  <2>2. CASE pc = "retry"
    BY <1>1, <2>2, CauseCounted
  <2>3. QED
    BY <2>1, <2>2
<1>7. /\ TypeOK' /\ FanOutsNamed' /\ QueueInv' /\ UniqueRows'
      /\ worker'[w].pc = pc
      /\ \A x \in Workers : x # w => worker'[x] = worker[x]
      /\ \A x \in Workers : worker'[x].id = worker[x].id /\ Held(x)' = Held(x)
  BY <1>1, <1>2, <1>5, <1>6, WorkerMoves
<1>8. \A i \in DOMAIN outbox : outbox[i].what \in Notification
  BY RowTypes
<1>9. /\ \A n \in Notification : webhook[n].taken \in Nat
      /\ \A n \in Notification : webhook[n].taken <= 1 + Causes
      /\ Causes \in Nat
      /\ webhook[Held(w)].taken <= Causes
  BY <1>2, TakenBound
<1>10. Reported'
  <2>1. ASSUME NEW x \in Workers, worker[x].pc # "idle"
        PROVE  Held(x) \in Notification
    BY <2>1, HeldRow
  <2>2. QED
    BY <1>1, <1>2, <1>5, <1>7, <1>9, <2>1 DEF Reported
<1>11. NoSurplus'
  <2>1. ASSUME NEW i \in DOMAIN outbox, i # worker[w].id,
               outbox[i].status \in {"pending", "running"},
               \A x \in Workers : worker'[x].id = i => worker'[x].pc # "sent"
        PROVE  webhook'[outbox[i].what].taken <= Causes'
    <3>1. outbox[i].what # Held(w)
      BY <1>4, <2>1 DEF UniqueRows
    <3>2. \A x \in Workers : worker[x].id = i => worker[x].pc # "sent"
      BY <1>2, <1>7, <2>1
    <3>3. webhook[outbox[i].what].taken <= Causes
      BY <2>1, <3>2 DEF NoSurplus
    <3>4. QED
      BY <1>5, <1>6, <1>8, <1>9, <3>1, <3>3
  <2>2. pc # "sent" => webhook'[Held(w)].taken <= Causes'
    BY <1>5, <1>6, <1>9, <1>4
  <2>3. ASSUME NEW n \in Notification, \A i \in DOMAIN outbox : outbox[i].what # n
        PROVE  webhook'[n].taken = 0
    BY <1>4, <1>5, <2>3 DEF NoSurplus
  <2>4. \A i \in DOMAIN outbox :
          /\ outbox[i].status \in {"pending", "running"}
          /\ \A x \in Workers : worker'[x].id = i => worker'[x].pc # "sent"
          => webhook'[outbox[i].what].taken <= Causes'
    BY <1>4, <1>7, <2>1, <2>2
  <2>5. QED
    BY <1>2, <2>3, <2>4 DEF NoSurplus
<1>12. OutcomeIsTrue'
  <2>1. \A n \in Notification : webhook[n].taken > 0 => webhook'[n].taken > 0
    BY <1>4, <1>5, <1>9
  <2>2. QED
    BY <1>2, <1>5, <1>8, <2>1 DEF OutcomeIsTrue
<1>13. DuplicatesHaveACause'
  <2>1. \A n \in Notification : webhook'[n].taken <= 1 + Causes'
    BY <1>4, <1>5, <1>6, <1>9
  <2>2. QED
    BY <1>7, <2>1, BoundAgain
<1>14. QED
  BY <1>7, <1>10, <1>11, <1>12, <1>13

\* A success or a refusal that could not be recorded will be tried again.
LEMMA MarkErrorStep ==
    ASSUME IndInv, NEW w \in Workers, MarkError(w)
    PROVE  IndInv'
<1> USE DEF IndInv
<1>1. /\ worker[w].pc \in {"sent", "refused"}
      /\ worker' = [worker EXCEPT ![w].pc = "retry"]
      /\ count.errors < MaxErrors /\ count' = [count EXCEPT !.errors = @ + 1]
      /\ UNCHANGED <<released, on, address, outbox, up, handler, webhook>>
  BY DEF MarkError, Error
<1>2. webhook \in [Notification -> WebhookType]
  BY Types
<1>3. /\ count' \in CountFields /\ count'.crashes = count.crashes /\ Causes' = Causes + 1
  BY <1>1, CauseCounted
<1>4. /\ TypeOK' /\ FanOutsNamed' /\ QueueInv' /\ UniqueRows'
      /\ worker'[w].pc = "retry"
      /\ \A x \in Workers : x # w => worker'[x] = worker[x]
      /\ \A x \in Workers : worker'[x].id = worker[x].id /\ Held(x)' = Held(x)
  BY <1>1, <1>2, <1>3, WorkerMoves
<1>5. \A i \in DOMAIN outbox : outbox[i].what \in Notification
  BY RowTypes
<1>6. /\ \A n \in Notification : webhook[n].taken \in Nat
      /\ \A n \in Notification : webhook[n].taken <= 1 + Causes
      /\ Causes \in Nat
  BY TakenBound
<1>7. Reported'
  BY <1>1, <1>4 DEF Reported
<1>8. NoSurplus' /\ OutcomeIsTrue'
  BY <1>1, <1>3, <1>5, <1>6 DEF NoSurplus, OutcomeIsTrue
<1>9. DuplicatesHaveACause'
  <2>1. \A n \in Notification : webhook'[n].taken <= 1 + Causes'
    BY <1>1, <1>3, <1>6
  <2>2. QED
    BY <1>4, <2>1, BoundAgain
<1>10. QED
  BY <1>4, <1>7, <1>8, <1>9

\* A mark lets go of the row, with an outcome that is true or an attempt left.
LEMMA MarkStep ==
    ASSUME IndInv, NEW w \in Workers, worker[w].pc # "idle",
           NEW status \in {"pending", "sent", "failed"}, Mark(w, status),
           webhook' \in [Notification -> WebhookType],
           \A n \in Notification : /\ webhook'[n].taken = webhook[n].taken
                                   /\ webhook[n].skipped => webhook'[n].skipped
                                   /\ webhook'[n].refused = webhook[n].refused,
           status = "pending" => /\ worker[w].pc # "sent"
                                 /\ worker[w].attempts < MaxAttempts,
           status = "sent" => webhook'[Held(w)].taken > 0 \/ webhook'[Held(w)].skipped,
           status = "failed" => webhook'[Held(w)].refused \/ worker[w].attempts >= MaxAttempts
    PROVE  IndInv'
<1> USE DEF IndInv
<1> DEFINE k == worker[w].id
<1>0. TypeOK
  OBVIOUS
<1>1. /\ outbox' = [outbox EXCEPT ![k] = Row(outbox[k].what, status, outbox[k].attempts)]
      /\ worker' = [worker EXCEPT ![w] = IdleWorker]
      /\ UNCHANGED <<released, on, address, up, handler, count>>
  BY DEF Mark
<1>2. /\ k \in DOMAIN outbox /\ k # 0
      /\ Held(w) = outbox[k].what /\ Held(w) \in Notification
      /\ outbox[k].status = "running"
      /\ outbox[k].attempts = worker[w].attempts /\ worker[w].attempts \in Nat
      /\ \A x \in Workers : worker[x].id = k => x = w
  BY HeldRow
<1>3. status \in Statuses
  BY DEF Statuses
<1>4. /\ outbox' \in Seq(RowType)
      /\ DOMAIN outbox' = DOMAIN outbox
      /\ \A i \in DOMAIN outbox : outbox'[i].what = outbox[i].what
      /\ \A i \in DOMAIN outbox : i # k => outbox'[i] = outbox[i]
      /\ outbox'[k].status = status /\ outbox'[k].attempts = outbox[k].attempts
  BY <1>0, <1>2, <1>3, MarkedRow
<1> HIDE DEF k
<1>5. worker \in [Workers -> WorkerType]
  BY Types
<1>6. /\ worker' \in [Workers -> WorkerType]
      /\ worker'[w].pc = "idle" /\ worker'[w].id = 0
      /\ \A x \in Workers : x # w => worker'[x] = worker[x]
  BY <1>1, <1>5, IdleWorkerType
<1>7. count.crashes \in Nat /\ Causes \in Nat /\ Causes' = Causes /\ MaxAttempts \in Nat
  BY <1>1, CountType DEF Causes
<1>8. \A i \in DOMAIN outbox : i # 0 /\ outbox[i].what \in Notification
  BY RowTypes
<1>9. \A x \in Workers : x # w => worker[x].id # k
  BY <1>2
<1>10. TypeOK'
  <2>1. \A i \in DOMAIN outbox' : outbox'[i].attempts <= MaxAttempts + count'.crashes
    BY <1>1, <1>2, <1>4, Types
  <2>2. \A x \in Workers : worker'[x].pc # "idle" =>
           worker'[x].id \in DOMAIN outbox' /\ worker'[x].attempts >= 1
    BY <1>4, <1>6, Types
  <2>3. QED
    BY <1>1, <1>4, <1>6, <2>1, <2>2, Types, TypesAgain
<1>11. FanOutsNamed'
  BY <1>1 DEF FanOutsNamed
<1>12. QueueInv'
  <2>1. Holding'
    BY <1>1, <1>4, <1>6, <1>9 DEF QueueInv, Holding
  <2>2. Exclusive'
    BY <1>6 DEF QueueInv, Exclusive
  <2>3. Budget'
    <3>1. status = "pending" => outbox'[k].attempts < MaxAttempts + count'.crashes
      BY <1>1, <1>2, <1>4, <1>7
    <3>2. ASSUME NEW i \in DOMAIN outbox, i # k,
                 \/ outbox'[i].status = "pending"
                 \/ outbox'[i].status = "running" /\ ~IsHeld(i)'
          PROVE  outbox'[i].attempts < MaxAttempts + count'.crashes
      <4>1. IsHeld(i) => IsHeld(i)'
        <5>1. \A x \in Workers : worker[x].id = i => x # w
          BY <3>2 DEF k
        <5>2. QED
          BY <1>6, <5>1 DEF IsHeld
      <4>2. QED
        BY <1>1, <1>4, <3>2, <4>1 DEF QueueInv, Budget
    <3>3. \A i \in DOMAIN outbox :
            \/ outbox'[i].status = "pending"
            \/ outbox'[i].status = "running" /\ ~IsHeld(i)'
            => outbox'[i].attempts < MaxAttempts + count'.crashes
      BY <1>4, <3>1, <3>2
    <3>4. QED
      BY <1>4, <3>3 DEF Budget, IsHeld
  <2>4. QED
    BY <2>1, <2>2, <2>3 DEF QueueInv
<1>13. Reported'
  <2>1. ASSUME NEW x \in Workers, x # w, worker[x].pc # "idle"
        PROVE  Held(x)' = Held(x) /\ Held(x) \in Notification
    BY <1>4, <1>6, <2>1, HeldRow DEF Held
  <2>2. QED
    BY <1>6, <2>1 DEF Reported
<1>14. UniqueRows'
  BY <1>4 DEF UniqueRows
<1>15. NoSurplus'
  <2>1. status = "pending" => webhook'[outbox[k].what].taken <= Causes
    BY <1>2, TakenBound
  <2>2. ASSUME NEW i \in DOMAIN outbox, i # k, outbox[i].status \in {"pending", "running"},
               \A x \in Workers : worker'[x].id = i => worker'[x].pc # "sent"
        PROVE  webhook'[outbox[i].what].taken <= Causes
    <3>1. \A x \in Workers : worker[x].id = i => worker[x].pc # "sent"
      BY <1>6, <2>2 DEF k
    <3>2. QED
      BY <1>8, <2>2, <3>1 DEF NoSurplus
  <2>3. \A i \in DOMAIN outbox' :
          /\ outbox'[i].status \in {"pending", "running"}
          /\ \A x \in Workers : worker'[x].id = i => worker'[x].pc # "sent"
          => webhook'[outbox'[i].what].taken <= Causes'
    BY <1>4, <1>7, <2>1, <2>2
  <2>4. \A n \in Notification :
          (\A i \in DOMAIN outbox' : outbox'[i].what # n) => webhook'[n].taken = 0
    BY <1>4 DEF NoSurplus
  <2>5. QED
    BY <2>3, <2>4 DEF NoSurplus
<1>16. OutcomeIsTrue'
  <2>1. /\ status = "sent" =>
             webhook'[outbox[k].what].taken > 0 \/ webhook'[outbox[k].what].skipped
        /\ status = "failed" =>
             webhook'[outbox[k].what].refused \/ outbox'[k].attempts >= MaxAttempts
    BY <1>2, <1>4
  <2>2. QED
    BY <1>4, <1>8, <2>1 DEF OutcomeIsTrue
<1>17. DuplicatesHaveACause'
  BY <1>1 DEF DuplicatesHaveACause
<1>18. QED
  BY <1>10, <1>11, <1>12, <1>13, <1>14, <1>15, <1>16, <1>17

\* Every outcome a worker writes back keeps the inductive invariant.
LEMMA MarksStep ==
    ASSUME IndInv, NEW w \in Workers,
           MarkSkipped(w) \/ MarkSent(w) \/ MarkRefused(w) \/ FailureWithBackoff(w)
    PROVE  IndInv'
<1>0. webhook \in [Notification -> WebhookType]
  BY Types DEF IndInv
<1>1. CASE MarkSkipped(w)
  <2>1. /\ worker[w].pc = "skip" /\ webhook' = [webhook EXCEPT ![Held(w)].skipped = TRUE]
        /\ Mark(w, "sent")
    BY <1>1 DEF MarkSkipped
  <2>2. Held(w) \in Notification
    BY <2>1, HeldRow
  <2>3. /\ webhook' \in [Notification -> WebhookType] /\ webhook'[Held(w)].skipped
        /\ \A n \in Notification : /\ webhook'[n].taken = webhook[n].taken
                                   /\ webhook[n].skipped => webhook'[n].skipped
                                   /\ webhook'[n].refused = webhook[n].refused
    BY <1>0, <2>1, <2>2 DEF WebhookType
  <2>4. QED
    BY <2>1, <2>3, MarkStep
<1>2. CASE MarkSent(w)
  BY <1>0, <1>2, MarkStep DEF MarkSent, IndInv, Reported
<1>3. CASE MarkRefused(w)
  BY <1>0, <1>3, MarkStep DEF MarkRefused, IndInv, Reported
<1>4. CASE FailureWithBackoff(w)
  <2>1. worker[w].pc = "retry" /\ UNCHANGED webhook
    BY <1>4 DEF FailureWithBackoff
  <2>2. worker[w].attempts \in Nat /\ MaxAttempts \in Nat
    BY <2>1, HeldRow, CountType DEF IndInv
  <2>3. CASE worker[w].attempts >= MaxAttempts
    <3>1. Mark(w, "failed")
      BY <1>4, <2>3 DEF FailureWithBackoff
    <3>2. QED
      BY <1>0, <2>1, <2>3, <3>1, MarkStep
  <2>4. CASE worker[w].attempts < MaxAttempts
    <3>1. Mark(w, "pending")
      BY <1>4, <2>2, <2>4 DEF FailureWithBackoff
    <3>2. QED
      BY <1>0, <2>1, <2>4, <3>1, MarkStep
  <2>5. QED
    BY <2>2, <2>3, <2>4
<1>5. QED
  BY <1>1, <1>2, <1>3, <1>4

----------------------------------------------------------------------------
(* The invariant *)

\* The inductive invariant holds at the start.
LEMMA Initially == Init => IndInv
<1> SUFFICES ASSUME Init PROVE IndInv
  OBVIOUS
<1>1. /\ outbox = <<>> /\ DOMAIN outbox = {} /\ outbox \in Seq(RowType)
      /\ up = {}
      /\ released \subseteq Releases /\ on \in [Clients -> Releases \cup {None}]
      /\ address \in [Clients -> BOOLEAN]
  BY TrackedAssumption DEF Init
<1>2. /\ handler \in [Handlers -> FanOutType] /\ \A h \in Handlers : handler[h].pc = "idle"
  BY NoFanOutType DEF Init
<1>3. /\ worker \in [Workers -> WorkerType]
      /\ \A w \in Workers : worker[w].pc = "idle" /\ worker[w].id = 0
  BY IdleWorkerType DEF Init
<1>4. /\ webhook \in [Notification -> WebhookType]
      /\ \A n \in Notification : webhook[n].taken = 0
  BY DEF Init, WebhookType
<1>5. count \in CountFields /\ count.crashes = 0 /\ count.errors = 0 /\ count.lost = 0
  BY BoundsAssumption DEF Init, CountFields
<1>6. TypeOK
  BY <1>1, <1>2, <1>3, <1>4, <1>5
  DEF TypeOK, RowType, FanOutType, WorkerType, WebhookType, CountFields
<1>7. FanOutsNamed /\ QueueInv /\ Reported /\ UniqueRows /\ OutcomeIsTrue
  BY <1>1, <1>2, <1>3
  DEF FanOutsNamed, QueueInv, Holding, Exclusive, Budget, Reported, UniqueRows, OutcomeIsTrue
<1>8. NoSurplus /\ DuplicatesHaveACause
  BY <1>1, <1>4, <1>5 DEF NoSurplus, DuplicatesHaveACause
<1>9. QED
  BY <1>6, <1>7, <1>8 DEF IndInv

\* Stuttering keeps it.
LEMMA Unchanged == IndInv /\ UNCHANGED vars => IndInv'
<1> SUFFICES ASSUME IndInv, UNCHANGED vars PROVE IndInv'
  OBVIOUS
<1>1. /\ UNCHANGED <<outbox, worker, webhook, up>>
      /\ UNCHANGED <<released, on, address, handler, count>>
      /\ count'.errors \in Nat /\ count'.errors >= count.errors
  BY CountType DEF IndInv, vars
<1>2. TypeOK'
  BY <1>1, Types, TypesAgain DEF IndInv
<1>3. FanOutsNamed'
  BY <1>1 DEF IndInv, FanOutsNamed
<1>4. QED
  BY <1>1, <1>2, <1>3, RowsAside DEF IndInv

\* The steps, with those that leave rows and workers alone together.
LEMMA StepKinds ==
    ASSUME Next
    PROVE  \/ Beside
           \/ \E h \in Handlers : EnqueueNotification(h)
           \/ \E s \in Servers : Boot(s) \/ Crash(s)
           \/ \E w \in Workers :
                \/ ClaimNextNotification(w)
                \/ BuildPayload(w) \/ PostRefused(w) \/ PostFailed(w)
                \/ PostAccepted(w) \/ PostAnswerLost(w)
                \/ MarkSkipped(w) \/ MarkSent(w) \/ MarkRefused(w) \/ FailureWithBackoff(w)
                \/ MarkError(w)
BY DEF Next, Beside, HandlerStep, WorkerStep

\* Every step keeps it: one case for each action.
LEMMA Preserved ==
    ASSUME OneProcess, IndInv, [Next]_vars
    PROVE  IndInv'
<1>1. CASE UNCHANGED vars
  BY <1>1, Unchanged
<1>2. CASE Beside
  BY <1>2, BesideStep
<1>3. CASE \E h \in Handlers : EnqueueNotification(h)
  BY <1>3, EnqueueStep
<1>4. CASE \E s \in Servers : Boot(s) \/ Crash(s)
  BY <1>4, BootStep, CrashStep
<1>5. ASSUME NEW w \in Workers,
             \/ ClaimNextNotification(w)
             \/ BuildPayload(w) \/ PostRefused(w) \/ PostFailed(w)
             \/ PostAccepted(w) \/ PostAnswerLost(w)
             \/ MarkSkipped(w) \/ MarkSent(w) \/ MarkRefused(w) \/ FailureWithBackoff(w)
             \/ MarkError(w)
      PROVE  IndInv'
  BY <1>5, ClaimStep, QuietStep, TakenStep, MarksStep, MarkErrorStep
<1>6. QED
  BY <1>1, <1>2, <1>3, <1>4, <1>5, StepKinds

\* The inductive invariant holds in every state of the outbox: in particular a
\* busy worker's row is running, at the attempt the worker counts, and is held
\* by no other worker.
THEOREM Invariance ==
    ASSUME OneProcess
    PROVE  Spec => []IndInv
<1>1. IndInv /\ [Next]_vars => IndInv'
  BY Preserved
<1>2. QED
  BY Initially, <1>1, PTL DEF Spec

\* max_attempts bounds the claims of a row, whoever retries it, but for those
\* a killed process took with it: with any number of clients, releases,
\* request handlers and pool threads (claim-next-notification,
\* %notif-failure-with-backoff).
THEOREM AttemptsBounded ==
    ASSUME OneProcess
    PROVE  Spec => []TypeOK
<1>1. IndInv => TypeOK
  BY DEF IndInv
<1>2. QED
  BY Invariance, <1>1, PTL

\* What the catalogue says of a notification is what happened to it.
THEOREM OutcomesAreTrue ==
    ASSUME OneProcess
    PROVE  Spec => []OutcomeIsTrue
<1>1. IndInv => OutcomeIsTrue
  BY DEF IndInv
<1>2. QED
  BY Invariance, <1>1, PTL

\* Nobody is told twice but for a killed process, a catalogue error or a lost
\* answer, and no oftener than there were of them.
THEOREM NoUncausedDuplicates ==
    ASSUME OneProcess
    PROVE  Spec => []DuplicatesHaveACause
<1>1. IndInv => DuplicatesHaveACause
  BY DEF IndInv
<1>2. QED
  BY Invariance, <1>1, PTL

----------------------------------------------------------------------------
(* The outbox is a work queue *)

\* The rows and the pool as the queue sees them.
Items == [i \in DOMAIN outbox |-> ItemStatus(outbox[i].status)]
Holds == [w \in Workers |-> worker[w].id]
Seen == {"waiting", "taken", "sent", "failed"}

\* A step that leaves the rows and the workers alone is a stutter of the queue.
LEMMA QueueUnmoved ==
    ASSUME UNCHANGED <<outbox, worker>>
    PROVE  UNCHANGED Queue!qvars
BY DEF Queue!qvars, ItemStatus

\* A step that changes no status and no claim.
LEMMA QueueStutters ==
    ASSUME UNCHANGED outbox, \A w \in Workers : worker'[w].id = worker[w].id
    PROVE  UNCHANGED Queue!qvars
<1>1. Items' = Items
  BY DEF Items
<1>2. Holds' = Holds
  BY DEF Holds
<1>3. QED
  BY <1>1, <1>2 DEF Queue!qvars, Items, Holds

\* Enqueueing is the queue's Submit, or a stutter when the row exists.
LEMMA EnqueueSubmits ==
    ASSUME IndInv, NEW h \in Handlers, EnqueueNotification(h)
    PROVE  Queue!Submit \/ UNCHANGED Queue!qvars
<1>1. UNCHANGED worker
  BY DEF EnqueueNotification
<1>2. CASE outbox' = outbox
  BY <1>1, <1>2, QueueUnmoved
<1>3. CASE outbox' # outbox
  <2> DEFINE e == NewRow(What(h))
  <2>1. e.status = "pending"
    BY RowFields DEF NewRow
  <2>2. outbox' = Append(outbox, e)
    BY <1>3 DEF EnqueueNotification
  <2> HIDE DEF e
  <2>3. outbox \in Seq(RowType)
    BY Types DEF IndInv
  <2>4. /\ Len(outbox) \in Nat /\ DOMAIN outbox = 1 .. Len(outbox)
        /\ DOMAIN outbox' = 1 .. Len(outbox) + 1 /\ outbox'[Len(outbox) + 1] = e
        /\ \A i \in 1 .. Len(outbox) : outbox'[i] = outbox[i]
    BY <2>2, <2>3
  <2>5. ItemStatus(e.status) = "waiting"
    BY <2>1 DEF ItemStatus
  <2>6. Items' = [i \in 1 .. Len(outbox) + 1 |->
                    IF i = Len(outbox) + 1 THEN "waiting" ELSE ItemStatus(outbox[i].status)]
    BY <2>4, <2>5 DEF Items
  <2>7. Items = [i \in 1 .. Len(outbox) |-> ItemStatus(outbox[i].status)]
    BY <2>4 DEF Items
  <2>8. \A i \in 1 .. Len(outbox) : ItemStatus(outbox[i].status) \in Seen
    <3>1. \A i \in 1 .. Len(outbox) : outbox[i].status \in Statuses
      BY <2>4, RowTypes DEF IndInv
    <3>2. QED
      BY <3>1 DEF ItemStatus, Statuses, Seen
  <2>9. Items \in Seq(Seen) /\ Len(Items) = Len(outbox)
    BY <2>4, <2>7, <2>8
  <2>10. Items' = Append(Items, "waiting")
    BY <2>4, <2>6, <2>7, <2>9
  <2>11. Holds' = Holds
    BY <1>1 DEF Holds
  <2>12. QED
    BY <2>10, <2>11 DEF Queue!Submit, Items, Holds
<1>4. QED
  BY <1>2, <1>3

\* Claiming a row is the queue's Take.
LEMMA ClaimTakes ==
    ASSUME IndInv, NEW w \in Workers, ClaimNextNotification(w)
    PROVE  Queue!Take(w)
<1>1. PICK i \in DOMAIN outbox :
        /\ outbox[i].status = "pending"
        /\ \A k \in 1 .. i - 1 : outbox[k].status # "pending"
        /\ outbox' = [outbox EXCEPT ![i] =
                        Row(outbox[i].what, "running", outbox[i].attempts + 1)]
        /\ worker' = [worker EXCEPT ![w] = [pc |-> "load", id |-> i,
                                            attempts |-> outbox[i].attempts + 1]]
  BY DEF ClaimNextNotification
<1>2. worker[w].pc = "idle" /\ worker[w].id = 0
  BY DEF ClaimNextNotification, IndInv, QueueInv, Holding
<1>3. /\ outbox[i].attempts + 1 \in Nat /\ "running" \in Statuses
      /\ outbox \in Seq(RowType) /\ i \in Nat
      /\ \A k \in DOMAIN outbox : outbox[k].status \in Statuses
  BY RowTypes DEF Statuses, IndInv
<1>4. /\ DOMAIN outbox' = DOMAIN outbox
      /\ \A k \in DOMAIN outbox : k # i => outbox'[k] = outbox[k]
      /\ outbox'[i].status = "running"
  BY <1>1, <1>3, RowReplaced DEF IndInv
<1>5. /\ ItemStatus("running") = "taken" /\ ItemStatus("pending") = "waiting"
      /\ \A status \in Statuses : status # "pending" => ItemStatus(status) # "waiting"
  BY DEF ItemStatus, Statuses
<1>6. Items' = [Items EXCEPT ![i] = "taken"]
  BY <1>4, <1>5 DEF Items
<1>7. Holds' = [Holds EXCEPT ![w] = i]
  BY <1>1, Types DEF Holds, IndInv, WorkerType
<1>8. Items[i] = "waiting" /\ i \in DOMAIN Items
  BY <1>1, <1>5 DEF Items
<1>9. \A k \in 1 .. i - 1 : Items[k] # "waiting"
  <2>1. \A k \in 1 .. i - 1 : k \in DOMAIN outbox
    BY <1>3
  <2>2. QED
    BY <1>1, <1>3, <1>5, <2>1 DEF Items
<1>10. Holds[w] = 0
  BY <1>2 DEF Holds
<1>11. QED
  BY <1>6, <1>7, <1>8, <1>9, <1>10 DEF Queue!Take, Queue!Oldest, Items, Holds

\* Writing an outcome back is the queue's Release.
LEMMA MarkReleases ==
    ASSUME IndInv, NEW w \in Workers, worker[w].pc # "idle",
           NEW status \in {"pending", "sent", "failed"}, Mark(w, status)
    PROVE  \E as \in {"waiting"} \cup Final : Queue!Release(w, as)
<1> DEFINE k == worker[w].id
<1>1. /\ k \in DOMAIN outbox /\ k # 0 /\ outbox[k].attempts \in Nat /\ status \in Statuses
  BY HeldRow DEF Statuses
<1>2. /\ outbox' = [outbox EXCEPT ![k] = Row(outbox[k].what, status, outbox[k].attempts)]
      /\ worker' = [worker EXCEPT ![w] = IdleWorker]
  BY DEF Mark
<1> HIDE DEF k
<1>3. /\ DOMAIN outbox' = DOMAIN outbox
      /\ \A i \in DOMAIN outbox : i # k => outbox'[i] = outbox[i]
      /\ outbox'[k].status = status
  BY <1>1, <1>2, RowReplaced DEF IndInv
<1> DEFINE as == ItemStatus(status)
<1>4. as \in {"waiting"} \cup Final
  BY DEF ItemStatus, Final
<1>5. Items' = [Items EXCEPT ![k] = as]
  BY <1>1, <1>3 DEF Items
<1>6. Holds' = [Holds EXCEPT ![w] = 0]
  BY <1>2, IdleWorkerType, Types DEF Holds, IndInv
<1>7. Holds[w] = k
  BY DEF Holds, k
<1> HIDE DEF as
<1>8. Holds[w] # 0 /\ Items' = [Items EXCEPT ![Holds[w]] = as]
  BY <1>1, <1>5, <1>7
<1>9. Queue!Release(w, as)
  BY <1>6, <1>8 DEF Queue!Release, Items, Holds
<1>10. QED
  BY <1>4, <1>9

\* A crash is the queue's Die of the workers of that server.
LEMMA CrashKills ==
    ASSUME NEW s \in Servers, Crash(s)
    PROVE  \E gone \in SUBSET Workers : Queue!Die(gone)
<1> DEFINE gone == {w \in Workers : Home[w] = s}
<1>1. /\ UNCHANGED outbox
      /\ worker' = [w \in Workers |-> IF Home[w] = s THEN IdleWorker ELSE worker[w]]
  BY DEF Crash
<1>2. Items' = Items
  BY <1>1 DEF Items
<1>3. Holds' = [w \in Workers |-> IF w \in gone THEN 0 ELSE Holds[w]]
  BY <1>1, IdleWorkerType DEF Holds
<1>4. Queue!Die(gone)
  BY <1>2, <1>3 DEF Queue!Die, Items, Holds
<1>5. QED
  BY <1>4

\* A boot is the queue's Recover.
LEMMA BootRecovers ==
    ASSUME OneProcess, IndInv, NEW s \in Servers, Boot(s)
    PROVE  Queue!Recover
<1>1. /\ UNCHANGED worker /\ s \notin up
  BY DEF Boot
<1>2. /\ DOMAIN outbox' = DOMAIN outbox
      /\ \A i \in DOMAIN outbox :
           outbox'[i].status = IF outbox[i].status = "running" THEN "pending"
                               ELSE outbox[i].status
  BY RowsReset DEF Boot, IndInv
<1>3. \A w \in Workers : worker[w].id = 0
  BY <1>1, BootFindsIdle DEF IndInv
<1>4. \A i \in DOMAIN outbox : i # 0 /\ outbox[i].status \in Statuses
  BY RowTypes DEF IndInv
<1>5. \A i \in DOMAIN outbox : \A w \in Workers : Holds[w] # i
  BY <1>3, <1>4 DEF Holds
<1>6. \A i \in DOMAIN outbox :
        ItemStatus(outbox'[i].status) =
          IF ItemStatus(outbox[i].status) = "taken" THEN "waiting"
          ELSE ItemStatus(outbox[i].status)
  BY <1>2, <1>4 DEF ItemStatus, Statuses
<1>7. Items' = [i \in DOMAIN Items |->
                  IF Items[i] = "taken" /\ i \notin {Holds[w] : w \in Workers}
                  THEN "waiting" ELSE Items[i]]
  BY <1>2, <1>5, <1>6 DEF Items
<1>8. Holds' = Holds
  BY <1>1 DEF Holds
<1>9. QED
  BY <1>7, <1>8 DEF Queue!Recover, Queue!Held, Items, Holds

\* Every step of the outbox is a step of the queue or leaves it alone.
LEMMA StepsRefine ==
    ASSUME OneProcess, IndInv, [Next]_vars
    PROVE  [Queue!Next]_Queue!qvars
<1>1. CASE UNCHANGED vars
  BY <1>1, QueueUnmoved DEF vars
<1>2. CASE Beside
  <2>1. UNCHANGED <<outbox, worker>>
    BY <1>2, BesideFrame DEF IndInv
  <2>2. QED
    BY <2>1, QueueUnmoved
<1>3. CASE \E h \in Handlers : EnqueueNotification(h)
  BY <1>3, EnqueueSubmits DEF Queue!Next
<1>4. CASE \E s \in Servers : Boot(s) \/ Crash(s)
  BY <1>4, BootRecovers, CrashKills DEF Queue!Next
<1>5. ASSUME NEW w \in Workers,
             \/ BuildPayload(w) \/ PostRefused(w) \/ PostFailed(w)
             \/ PostAccepted(w) \/ PostAnswerLost(w) \/ MarkError(w)
      PROVE  UNCHANGED Queue!qvars
  <2>1. PICK pc \in {"skip", "post", "sent", "refused", "retry"} :
          worker' = [worker EXCEPT ![w].pc = pc]
    BY <1>5 DEF BuildPayload, PostRefused, PostFailed, PostAccepted, PostAnswerLost, MarkError
  <2>2. UNCHANGED outbox
    BY <1>5 DEF BuildPayload, PostRefused, PostFailed, PostAccepted, PostAnswerLost, MarkError
  <2>3. worker \in [Workers -> WorkerType]
    BY Types DEF IndInv
  <2>4. \A x \in Workers : worker'[x].id = worker[x].id
    BY <2>1, <2>3 DEF WorkerType
  <2>5. QED
    BY <2>2, <2>4, QueueStutters
<1>6. ASSUME NEW w \in Workers, ClaimNextNotification(w)
      PROVE  Queue!Next
  BY <1>6, ClaimTakes DEF Queue!Next
<1>7. ASSUME NEW w \in Workers,
             MarkSkipped(w) \/ MarkSent(w) \/ MarkRefused(w) \/ FailureWithBackoff(w)
      PROVE  Queue!Next
  <2>1. PICK status \in {"pending", "sent", "failed"} : Mark(w, status)
    BY <1>7 DEF MarkSkipped, MarkSent, MarkRefused, FailureWithBackoff
  <2>2. worker[w].pc # "idle"
    BY <1>7 DEF MarkSkipped, MarkSent, MarkRefused, FailureWithBackoff
  <2>3. QED
    BY <2>1, <2>2, MarkReleases DEF Queue!Next
<1>8. QED
  BY <1>1, <1>2, <1>3, <1>4, <1>5, <1>6, <1>7, StepKinds

\* The initial states are initial states of the queue.
LEMMA QueueStarts ==
    ASSUME Init
    PROVE  Queue!Init
<1>1. outbox = <<>> /\ \A w \in Workers : worker[w].id = 0
  BY IdleWorkerType DEF Init
<1>2. Items = <<>>
  BY <1>1 DEF Items
<1>3. Holds = [w \in Workers |-> 0]
  BY <1>1 DEF Holds
<1>4. QED
  BY <1>2, <1>3 DEF Queue!Init, Items, Holds

\* The outbox implements WorkQueue, with rows for items and claims for holds:
\* rows are claimed oldest first and by one worker each, an outcome stays, and
\* a restart puts back what the dead workers held and nothing else, with any
\* number of handlers, workers and rows.
THEOREM OutboxRefinesQueue ==
    ASSUME OneProcess
    PROVE  Spec => OutboxIsAQueue
<1>1. Init => Queue!Init
  BY QueueStarts
<1>2. IndInv /\ [Next]_vars => [Queue!Next]_Queue!qvars
  BY StepsRefine
<1>3. QED
  BY Invariance, <1>1, <1>2, PTL DEF Spec, OutboxIsAQueue, Queue!Spec
=============================================================================
