------------------------------- MODULE Access -------------------------------
(***************************************************************************)
(* Who a client is to the server: install tokens, the bearer that an agent *)
(* gets for one, the classifications that go with it, what releases they   *)
(* let it see, and the rows that the server keeps about the client.        *)
(*                                                                         *)
(* A catalogue call is one step, as in Publish; the handler of an exchange *)
(* makes several, and goes on when the agent that called it has gone.  One *)
(* server process; one command at a time on a client's directory, of which *)
(* only state.json matters here (the rest of Install is in ClientInstall). *)
(* A bearer is the number of its client's row, 0 is none.                  *)
(***************************************************************************)
EXTENDS Naturals, Sequences, FiniteSets, SequencesExt

CONSTANTS
    Agents,     \* client directories, each on its workstation
    Tokens,     \* the install tokens there will be
    Versions,
    Labels,     \* sets of classifications that tokens and releases are given
    Public,     \* the classification "public"
    Default,    \* default_client_classifications
    None

Classes == UNION Labels
Latest == "latest"

ASSUME NamesAssumption ==
    /\ None \notin Versions \cup Tokens \cup Agents \cup {Latest}
    /\ Latest \notin Versions

VARIABLES
    tokens,     \* install_tokens, by token; "none" before it is minted
    clients,    \* the rows of clients, in the order they were made
    releases,   \* the rows list-releases returns, last published first
    published,  \* history: all rows there ever were
    reported,   \* clients with a row in client_software_state
    emails,     \* clients with a row in client_emails
    exchanges,  \* running calls of handle-exchange-token
    saved,      \* agent -> what state.json says
    run         \* agent -> locals of its Install

vars == <<tokens, clients, releases, published, reported, emails, exchanges, saved, run>>
catalogue == <<tokens, clients, releases, published, reported, emails>>

Client == [cls : Labels, token : Tokens]
Row == [version : Versions, cls : Labels]

\* The records of exchanges and of run.
Call(pc, t, client, a) == [pc |-> pc, token |-> t, client |-> client, agent |-> a]
Locals(pc, bearer, v) == [pc |-> pc, bearer |-> bearer, version |-> v]
Idle == Locals("idle", 0, None)

\* The types of the tables, the running exchanges and the agents.
TypeOK ==
    /\ tokens \in [Tokens -> [state : {"none", "free", "expired", "used"}, cls : Labels \cup {{}}]]
    /\ clients \in Seq(Client)
    /\ releases \in Seq(Row)
    /\ published \subseteq Row
    /\ reported \subseteq DOMAIN clients
    /\ emails \subseteq DOMAIN clients
    /\ exchanges \subseteq [pc : {"claim", "create", "reply"}, token : Tokens,
                            client : 0..Len(clients), agent : Agents \cup {None}]
    /\ saved \in [Agents -> [bearer : 0..Len(clients), current : Versions \cup {None}]]
    /\ run \in [Agents -> [pc : {"idle", "exchange", "resolve", "manifest", "fetch", "report"},
                           bearer : 0..Len(clients),
                           version : Versions \cup {Latest, None}]]

Init ==
    /\ tokens = [t \in Tokens |-> [state |-> "none", cls |-> {}]]
    /\ clients = <<>>
    /\ releases = <<>>
    /\ published = {}
    /\ reported = {}
    /\ emails = {}
    /\ exchanges = {}
    /\ saved = [a \in Agents |-> [bearer |-> 0, current |-> None]]
    /\ run = [a \in Agents |-> Idle]

----------------------------------------------------------------------------
(* The operators of the server *)

MintInstallToken(t, cls) ==
    /\ tokens[t].state = "none"
    /\ tokens' = [tokens EXCEPT ![t] = [state |-> "free", cls |-> cls]]
    /\ UNCHANGED <<clients, releases, published, reported, emails, exchanges, saved, run>>

\* The time to live, whatever it is, is over.
ExpireInstallToken(t) ==
    /\ tokens[t].state = "free"
    /\ tokens' = [tokens EXCEPT ![t] = [state |-> "expired", cls |-> @.cls]]
    /\ UNCHANGED <<clients, releases, published, reported, emails, exchanges, saved, run>>

PublishRelease(v, cls) ==
    /\ \A i \in DOMAIN releases : releases[i].version # v
    /\ releases' = <<[version |-> v, cls |-> cls]>> \o releases
    /\ published' = published \cup {[version |-> v, cls |-> cls]}
    /\ UNCHANGED <<tokens, clients, reported, emails, exchanges, saved, run>>

\* The GC; the version may be published again, with other classifications.
DropRelease ==
    /\ \E i \in DOMAIN releases : releases' = RemoveAt(releases, i)
    /\ UNCHANGED <<tokens, clients, published, reported, emails, exchanges, saved, run>>

----------------------------------------------------------------------------
(* handle-exchange-token *)

\* The answer reaches the agent only if it still waits for it.
Answer(x, locals) == run' = IF x.agent = None THEN run ELSE [run EXCEPT ![x.agent] = locals]

\* A faulty variant forgets whether the token was used.
NotExpired(t) == tokens[t].state \notin {"none", "expired"}

Claimable(t) == tokens[t].state = "free"

ClaimInstallToken(x) ==
    /\ x.pc = "claim" /\ Claimable(x.token)
    /\ tokens' = [tokens EXCEPT ![x.token] = [state |-> "used", cls |-> @.cls]]
    /\ exchanges' = (exchanges \ {x}) \cup {Call("create", x.token, 0, x.agent)}
    /\ UNCHANGED <<clients, releases, published, reported, emails, saved, run>>

\* 401: the agent's command ends with an error.
RefuseInstallToken(x) ==
    /\ x.pc = "claim" /\ ~Claimable(x.token)
    /\ exchanges' = exchanges \ {x}
    /\ Answer(x, Idle)
    /\ UNCHANGED <<catalogue, saved>>

CreateClient(x) ==
    /\ x.pc = "create"
    /\ clients' = Append(clients, [cls |-> tokens[x.token].cls, token |-> x.token])
    /\ exchanges' = (exchanges \ {x}) \cup {Call("reply", x.token, Len(clients) + 1, x.agent)}
    /\ UNCHANGED <<tokens, releases, published, reported, emails, saved, run>>

\* A faulty variant answers with the last row that was made.
LastBearer(x) == Len(clients)

BearerOf(x) == x.client

Reply(x) ==
    /\ x.pc = "reply"
    /\ exchanges' = exchanges \ {x}
    /\ Answer(x, Locals("resolve", BearerOf(x), run[x.agent].version))
    /\ UNCHANGED <<catalogue, saved>>

\* An error of the catalogue, or of the connection, between the calls.
ExchangeFails(x) ==
    /\ exchanges' = exchanges \ {x}
    /\ Answer(x, Idle)
    /\ UNCHANGED <<catalogue, saved>>

\* The server dies: every exchange, and every command that waits for one.
Crash ==
    /\ exchanges # {}
    /\ exchanges' = {}
    /\ run' = [a \in Agents |-> IF run[a].pc = "exchange" THEN Idle ELSE run[a]]
    /\ UNCHANGED <<catalogue, saved>>

----------------------------------------------------------------------------
(* What a bearer may see *)

\* resolve-identity; a bearer always has a row.
Classifications(bearer) == IF bearer = 0 THEN Default ELSE clients[bearer].cls

\* visible-release-p; a release without classifications is public.
Visible(bearer, r) ==
    (IF r.cls = {} THEN {Public} ELSE r.cls) \cap Classifications(bearer) # {}

----------------------------------------------------------------------------
(* The agent *)

\* A faulty variant: a token that is given is used.
UsesToken(a, t) == t # None

\* A bearer in state.json goes before an install token.
Exchanges(a, t) == saved[a].bearer = 0 /\ t # None

BeginInstall(a, t, v) ==
    /\ run[a].pc = "idle"
    /\ IF Exchanges(a, t)
       THEN /\ run' = [run EXCEPT ![a] = Locals("exchange", 0, v)]
            /\ exchanges' = exchanges \cup {Call("claim", t, 0, a)}
       ELSE /\ run' = [run EXCEPT ![a] = Locals("resolve", saved[a].bearer, v)]
            /\ UNCHANGED exchanges
    /\ UNCHANGED <<catalogue, saved>>

\* The token and the version are flags or variables of the environment; a
\* command may have neither.
InstallCmd(a) ==
    \E t \in Tokens \cup {None}, v \in Versions \cup {Latest} : BeginInstall(a, t, v)

\* The first row that the client may see.
LatestVisible(bearer, v) ==
    \E i \in DOMAIN releases :
        /\ releases[i].version = v /\ Visible(bearer, releases[i])
        /\ \A j \in 1..(i - 1) : ~Visible(bearer, releases[j])

\* An explicit version needs no request.
ResolveVersion(a) ==
    /\ run[a].pc = "resolve"
    /\ \E v \in Versions :
          /\ \/ run[a].version = v
             \/ run[a].version = Latest /\ LatestVisible(run[a].bearer, v)
          /\ run' = [run EXCEPT ![a] = Locals("manifest", @.bearer, v)]
    /\ UNCHANGED <<catalogue, exchanges, saved>>

\* A faulty variant leaves the filter to the listing.
Fetchable(a, r) == r.version = run[a].version

\* The row that handle-get-manifest serves the manifest of.
MayFetch(a, r) == r.version = run[a].version /\ Visible(run[a].bearer, r)

GetManifest(a) ==
    /\ run[a].pc = "manifest"
    /\ \E i \in DOMAIN releases : MayFetch(a, releases[i])
    /\ run' = [run EXCEPT ![a] = Locals("fetch", @.bearer, @.version)]
    /\ UNCHANGED <<catalogue, exchanges, saved>>

\* Whatever ends the command early: no release to see, a key that is not
\* trusted, a download that fails, a kill.  An exchange goes on without it.
Abort(a) ==
    /\ run[a].pc # "idle"
    /\ run' = [run EXCEPT ![a] = Idle]
    /\ exchanges' = {IF x.agent = a THEN Call(x.pc, x.token, x.client, None) ELSE x : x \in exchanges}
    /\ UNCHANGED <<catalogue, saved>>

\* The one save of an install, after the flip.
SaveInstall(a) ==
    /\ run[a].pc = "fetch"
    /\ saved' = [saved EXCEPT ![a] = [bearer |-> run[a].bearer, current |-> run[a].version]]
    /\ run' = [run EXCEPT ![a] = Locals("report", @.bearer, @.version)]
    /\ UNCHANGED <<catalogue, exchanges>>

\* A faulty variant reports before the save.
ReportsEarly(a) == run[a].pc \in {"fetch", "report"}

ReportsNow(a) == run[a].pc = "report"

\* A faulty variant takes any bearer.
ReporterUnchecked(a) == {run[a].bearer}

\* The client of a bearer, if there is one.
Reporter(a) == {run[a].bearer} \ {0}

\* The report is refused to a client without a bearer, which changes nothing;
\* when it is lost, Abort stands for the end of the command.
ReportClientState(a) ==
    /\ ReportsNow(a)
    /\ reported' = reported \cup Reporter(a)
    /\ run' = [run EXCEPT ![a] = Idle]
    /\ UNCHANGED <<tokens, clients, releases, published, emails, exchanges, saved>>

\* set-email and unset-email go by the bearer of state.json alone.
NewEmailClient(a) == run[a].pc = "idle" /\ saved[a].bearer # 0

SetEmail(a) ==
    /\ NewEmailClient(a)
    /\ emails' = emails \cup {saved[a].bearer}
    /\ UNCHANGED <<tokens, clients, releases, published, reported, exchanges, saved, run>>

UnsetEmail(a) ==
    /\ NewEmailClient(a)
    /\ emails' = emails \ {saved[a].bearer}
    /\ UNCHANGED <<tokens, clients, releases, published, reported, exchanges, saved, run>>

----------------------------------------------------------------------------
Exchange(x) ==
    \/ ClaimInstallToken(x) \/ RefuseInstallToken(x) \/ CreateClient(x)
    \/ Reply(x) \/ ExchangeFails(x)

Next ==
    \/ \E t \in Tokens : ExpireInstallToken(t) \/ \E cls \in Labels : MintInstallToken(t, cls)
    \/ \E v \in Versions, cls \in Labels : PublishRelease(v, cls)
    \/ DropRelease
    \/ \E x \in exchanges : Exchange(x)
    \/ Crash
    \/ \E a \in Agents :
          \/ InstallCmd(a)
          \/ ResolveVersion(a) \/ GetManifest(a) \/ SaveInstall(a) \/ ReportClientState(a)
          \/ Abort(a)
          \/ SetEmail(a) \/ UnsetEmail(a)

Spec == Init /\ [][Next]_vars

----------------------------------------------------------------------------
(* Properties *)

\* An install token makes at most one client, whoever presents it, however
\* often, and whatever is interrupted: it is one-shot.
OneClientPerToken ==
    \A i, j \in DOMAIN clients : clients[i].token = clients[j].token => i = j

\* Whoever the server counts as a user or writes to is a client that can
\* speak again: its bearer is in a state.json, never only in the memory of a
\* run that was cut off.
KnownUsersAreReal == reported \cup emails \subseteq {saved[a].bearer : a \in Agents}

\* Two workstations are never one client, so that each counts once.
AgentsAreDistinct ==
    \A a, b \in Agents :
        a # b /\ saved[a].bearer # 0 => saved[b].bearer # saved[a].bearer

\* What an agent has installed was once published for a classification that
\* the identity in its state.json has.
InstalledWasVisible ==
    \A a \in Agents :
        saved[a].current # None =>
            \E r \in published : r.version = saved[a].current /\ Visible(saved[a].bearer, r)

\* Once an agent has an identity in its state.json it keeps it, and with it its
\* row among the users.
IdentityIsKept ==
    [][\A a \in Agents : saved[a].bearer # 0 => saved'[a].bearer = saved[a].bearer]_vars
=============================================================================
