---------------------------- MODULE AccessProofs ----------------------------
(***************************************************************************)
(* Proofs for module Access, for any agents, tokens, versions and          *)
(* classifications.                                                        *)
(*                                                                         *)
(* A bearer goes from the exchange that made it to the command that asked  *)
(* for it, and from there to a state.json.  IndInv says that on this way   *)
(* nobody else has it.                                                     *)
(***************************************************************************)
EXTENDS Access, SequenceTheorems, TLAPS

Rows == DOMAIN clients

Creating == {x \in exchanges : x.pc = "create"}
Replying == {x \in exchanges : x.pc = "reply"}

\* A token that was minted has its classifications, a version that was
\* resolved is one.
Resolved ==
    /\ \A t \in Tokens : tokens[t].state # "none" => tokens[t].cls \in Labels
    /\ \A a \in Agents : run[a].pc \in {"manifest", "fetch", "report"} => run[a].version \in Versions

\* A token is used before its client is made, and by one exchange.
TokensSpent ==
    /\ \A i \in Rows : tokens[clients[i].token].state = "used"
    /\ \A x \in Creating :
          tokens[x.token].state = "used" /\ \A i \in Rows : clients[i].token # x.token
    /\ \A x, y \in Creating : x.token = y.token => x = y

\* An agent waits for one exchange, and only when it has no bearer.
OneCall ==
    /\ \A x \in exchanges : x.agent # None => run[x.agent].pc = "exchange"
    /\ \A x, y \in exchanges : x.agent # None /\ x.agent = y.agent => x = y
    /\ \A a \in Agents : run[a].pc = "exchange" => saved[a].bearer = 0 /\ run[a].bearer = 0

\* A command has the bearer that is saved, or saves it before it reports.
OwnBearer ==
    \A a \in Agents :
        /\ run[a].pc = "idle" => run[a].bearer = 0
        /\ run[a].pc # "idle" /\ saved[a].bearer # 0 => run[a].bearer = saved[a].bearer
        /\ run[a].pc = "report" => run[a].bearer = saved[a].bearer

\* Where the bearers are: in replies that were not sent yet, in the commands
\* and in the state.json of one agent each.
OneHolder ==
    /\ \A x \in Replying : x.client # 0
    /\ \A x, y \in Replying : x.client = y.client => x = y
    /\ \A x \in Replying, a \in Agents :
          run[a].bearer # x.client /\ saved[a].bearer # x.client
    /\ \A a, b \in Agents :
          a # b /\ run[a].bearer # 0 =>
              run[b].bearer # run[a].bearer /\ saved[b].bearer # run[a].bearer

\* What a command fetches, it may see.
FetchedVisible ==
    /\ \A i \in DOMAIN releases : releases[i] \in published
    /\ \A a \in Agents :
          run[a].pc = "fetch" =>
              \E r \in published : r.version = run[a].version /\ Visible(run[a].bearer, r)

IndInv ==
    /\ TypeOK /\ Resolved /\ TokensSpent /\ OneClientPerToken /\ OneCall /\ OwnBearer
    /\ OneHolder /\ AgentsAreDistinct /\ KnownUsersAreReal

----------------------------------------------------------------------------
(* What the steps on sequences do *)

\* RemoveAt leaves out one element and keeps the others in order.
LEMMA RemoveAtElements ==
    ASSUME NEW S, NEW s \in Seq(S), NEW i \in 1..Len(s)
    PROVE  /\ RemoveAt(s, i) \in Seq(S)
           /\ Len(RemoveAt(s, i)) = Len(s) - 1
           /\ \A j \in 1..(Len(s) - 1) : RemoveAt(s, i)[j] = s[IF j < i THEN j ELSE j + 1]
<1> DEFINE left == SubSeq(s, 1, i - 1)
           right == SubSeq(s, i + 1, Len(s))
<1>1. Len(s) \in Nat /\ \A j \in 1..Len(s) : s[j] \in S
    BY ElementOfSeq, LenProperties
<1>2. /\ left \in Seq(S) /\ Len(left) = i - 1
      /\ \A j \in 1..(i - 1) : left[j] = s[j]
    <2>1. \A j \in 1..(i - 1) : s[j] \in S
        BY <1>1
    <2>2. /\ left \in Seq(S) /\ Len(left) = IF 1 <= i - 1 THEN i - 1 - 1 + 1 ELSE 0
          /\ \A j \in 1..(i - 1 - 1 + 1) : left[j] = s[1 + j - 1]
        BY <2>1, <1>1, SubSeqProperties
    <2> QED BY <2>2, <1>1
<1>3. /\ right \in Seq(S) /\ Len(right) = Len(s) - i
      /\ \A j \in 1..(Len(s) - i) : right[j] = s[i + j]
    <2>1. \A j \in (i + 1)..Len(s) : s[j] \in S
        BY <1>1
    <2>2. /\ right \in Seq(S)
          /\ Len(right) = IF i + 1 <= Len(s) THEN Len(s) - (i + 1) + 1 ELSE 0
          /\ \A j \in 1..(Len(s) - (i + 1) + 1) : right[j] = s[i + 1 + j - 1]
        BY <2>1, <1>1, SubSeqProperties
    <2> QED BY <2>2, <1>1
<1> HIDE DEF left, right
<1>4. left \o right \in Seq(S) /\ Len(left \o right) = Len(s) - 1
    <2>1. left \o right \in Seq(S) /\ Len(left \o right) = Len(left) + Len(right)
        BY <1>2, <1>3, ConcatProperties
    <2> QED BY <2>1, <1>1, <1>2, <1>3
<1>5. ASSUME NEW j \in 1..(Len(s) - 1)
      PROVE  (left \o right)[j] = s[IF j < i THEN j ELSE j + 1]
    <2>1. (left \o right)[j] = IF j <= Len(left) THEN left[j] ELSE right[j - Len(left)]
        BY <1>1, <1>2, <1>3
    <2>2. CASE j < i
        BY <2>1, <2>2, <1>1, <1>2
    <2>3. CASE ~(j < i)
        BY <2>1, <2>3, <1>1, <1>2, <1>3
    <2> QED BY <2>2, <2>3
<1>6. RemoveAt(s, i) = left \o right
    BY DEF RemoveAt, left, right
<1> QED BY <1>4, <1>5, <1>6

\* A row is added at the end, and the others stay.
LEMMA RowAdded ==
    ASSUME TypeOK, Resolved, NEW x \in exchanges, CreateClient(x),
           tokens[x.token].state = "used"
    PROVE  /\ clients' \in Seq(Client)
           /\ Len(clients) \in Nat /\ Len(clients') = Len(clients) + 1
           /\ Rows = 1..Len(clients) /\ Rows' = Rows \cup {Len(clients) + 1}
           /\ \A i \in Rows : clients'[i] = clients[i]
           /\ clients'[Len(clients) + 1].cls = tokens[x.token].cls
           /\ clients'[Len(clients) + 1].token = x.token
<1> DEFINE c == [cls |-> tokens[x.token].cls, token |-> x.token]
<1>1. c \in Client
    BY DEF TypeOK, Resolved, Client
<1>2. clients \in Seq(Client) /\ clients' = Append(clients, c)
    BY DEF TypeOK, CreateClient
<1>3. DOMAIN clients = 1..Len(clients) /\ Len(clients) \in Nat
    BY <1>2, LenProperties
<1> HIDE DEF c
<1>4. /\ clients' \in Seq(Client) /\ Len(clients') = Len(clients) + 1
      /\ \A i \in 1..Len(clients) : clients'[i] = clients[i]
      /\ clients'[Len(clients) + 1] = c
    BY <1>1, <1>2, AppendProperties
<1>5. DOMAIN clients' = 1..(Len(clients) + 1)
    BY <1>4, LenProperties
<1> QED BY <1>3, <1>4, <1>5 DEF Rows, c

\* Clients are numbered from 1.
LEMMA RowNumbers ==
    ASSUME TypeOK
    PROVE  /\ Rows = 1..Len(clients) /\ Len(clients) \in Nat /\ 0 \notin Rows
           /\ \A i \in Rows : clients[i].cls \in Labels /\ clients[i].token \in Tokens
<1>1. Rows = 1..Len(clients) /\ Len(clients) \in Nat /\ 0 \notin Rows
    BY LenProperties DEF TypeOK, Rows
<1>2. \A i \in 1..Len(clients) : clients[i] \in Client
    BY ElementOfSeq DEF TypeOK
<1> QED BY <1>1, <1>2 DEF Client

----------------------------------------------------------------------------
(* Types *)

\* A release that is published comes first, one that is dropped is left out.
LEMMA ReleaseRows ==
    ASSUME TypeOK
    PROVE  /\ \A v \in Versions, cls \in Labels : PublishRelease(v, cls) =>
                 /\ releases' \in Seq(Row)
                 /\ \A i \in DOMAIN releases' :
                       \/ releases'[i] = [version |-> v, cls |-> cls]
                       \/ \E j \in DOMAIN releases : releases'[i] = releases[j]
           /\ DropRelease =>
                 /\ releases' \in Seq(Row)
                 /\ \A i \in DOMAIN releases' : \E j \in DOMAIN releases : releases'[i] = releases[j]
<1>1. releases \in Seq(Row) /\ DOMAIN releases = 1..Len(releases) /\ Len(releases) \in Nat
    BY LenProperties DEF TypeOK
<1>2. ASSUME NEW v \in Versions, NEW cls \in Labels, PublishRelease(v, cls)
      PROVE  /\ releases' \in Seq(Row)
             /\ \A i \in DOMAIN releases' :
                   \/ releases'[i] = [version |-> v, cls |-> cls]
                   \/ \E j \in DOMAIN releases : releases'[i] = releases[j]
    <2> DEFINE row == [version |-> v, cls |-> cls]
    <2>1. row \in Row
        BY DEF Row
    <2> HIDE DEF row
    <2>2. /\ <<row>> \in Seq(Row) /\ Len(<<row>>) = 1 /\ <<row>>[1] = row
        BY <2>1
    <2>3. releases' = <<row>> \o releases
        BY <1>2 DEF PublishRelease, row
    <2>4. releases' \in Seq(Row) /\ Len(releases') = 1 + Len(releases)
        BY <2>2, <2>3, <1>1, ConcatProperties
    <2>5. DOMAIN releases' = 1..(1 + Len(releases))
        BY <2>4, LenProperties
    <2>6. ASSUME NEW i \in DOMAIN releases'
          PROVE  releases'[i] = row \/ \E j \in DOMAIN releases : releases'[i] = releases[j]
        <3>1. releases'[i] = IF i <= 1 THEN <<row>>[i] ELSE releases[i - 1]
            BY <2>2, <2>3, <2>5, <1>1
        <3>2. CASE i = 1
            BY <3>1, <3>2, <2>2
        <3>3. CASE i # 1
            BY <3>1, <3>3, <2>5, <1>1
        <3> QED BY <3>2, <3>3
    <2> QED BY <2>4, <2>6 DEF row
<1>3. ASSUME DropRelease
      PROVE  /\ releases' \in Seq(Row)
             /\ \A i \in DOMAIN releases' : \E j \in DOMAIN releases : releases'[i] = releases[j]
    <2>1. PICK k \in 1..Len(releases) : releases' = RemoveAt(releases, k)
        BY <1>1, <1>3 DEF DropRelease
    <2>2. /\ releases' \in Seq(Row) /\ Len(releases') = Len(releases) - 1
          /\ \A j \in 1..(Len(releases) - 1) :
                releases'[j] = releases[IF j < k THEN j ELSE j + 1]
        BY <2>1, <1>1, RemoveAtElements
    <2>3. DOMAIN releases' = 1..(Len(releases) - 1)
        BY <2>2, LenProperties
    <2> QED BY <2>2, <2>3, <1>1
<1> QED BY <1>2, <1>3

\* Every step keeps the types, and what a token or a version was resolved to.
LEMMA TypeStep ==
    ASSUME TypeOK, Resolved, TokensSpent, [Next]_vars
    PROVE  TypeOK' /\ Resolved'
<1> USE RowNumbers DEF Rows, Creating, Client, Row, Idle, Call, Locals
<1>1. CASE UNCHANGED vars
    BY <1>1 DEF vars, TypeOK, Resolved
<1>2. ASSUME NEW t \in Tokens, ExpireInstallToken(t) \/ \E cls \in Labels : MintInstallToken(t, cls)
      PROVE  TypeOK' /\ Resolved'
    <2>1. CASE ExpireInstallToken(t)
        BY <2>1 DEF TypeOK, Resolved, ExpireInstallToken
    <2>2. ASSUME NEW cls \in Labels, MintInstallToken(t, cls)
          PROVE  TypeOK' /\ Resolved'
        BY <2>2 DEF TypeOK, Resolved, MintInstallToken
    <2> QED BY <1>2, <2>1, <2>2
<1>3. ASSUME (\E v \in Versions, cls \in Labels : PublishRelease(v, cls)) \/ DropRelease
      PROVE  TypeOK' /\ Resolved'
    <2>1. releases' \in Seq(Row)
        BY <1>3, ReleaseRows
    <2>2. published' \subseteq Row
        <3>1. ASSUME NEW v \in Versions, NEW cls \in Labels, PublishRelease(v, cls)
              PROVE  published' \subseteq Row
            BY <3>1 DEF TypeOK, PublishRelease
        <3> QED BY <1>3, <3>1 DEF TypeOK, DropRelease
    <2> QED BY <1>3, <2>1, <2>2 DEF TypeOK, Resolved, PublishRelease, DropRelease
<1>4. ASSUME NEW x \in exchanges, ClaimInstallToken(x)
      PROVE  TypeOK' /\ Resolved'
    BY <1>4 DEF TypeOK, Resolved, ClaimInstallToken, Claimable
<1>5. ASSUME NEW x \in exchanges, RefuseInstallToken(x) \/ ExchangeFails(x)
      PROVE  TypeOK' /\ Resolved'
    <2>1. /\ UNCHANGED <<catalogue, saved>> /\ exchanges' \subseteq exchanges
          /\ run' = IF x.agent = None THEN run ELSE [run EXCEPT ![x.agent] = Idle]
        BY <1>5 DEF RefuseInstallToken, ExchangeFails, Answer
    <2> QED BY <2>1 DEF TypeOK, Resolved, catalogue
<1>6. ASSUME NEW x \in exchanges, CreateClient(x)
      PROVE  TypeOK' /\ Resolved'
    <2>1. tokens[x.token].state = "used"
        BY <1>6 DEF TokensSpent, CreateClient
    <2>2. /\ clients' \in Seq(Client)
          /\ Len(clients) \in Nat /\ Len(clients') = Len(clients) + 1
          /\ Rows = 1..Len(clients) /\ Rows' = Rows \cup {Len(clients) + 1}
        BY <1>6, <2>1, RowAdded
    <2> QED BY <1>6, <2>2 DEF TypeOK, Resolved, CreateClient
<1>7. ASSUME NEW x \in exchanges, Reply(x)
      PROVE  TypeOK' /\ Resolved'
    BY <1>7 DEF TypeOK, Resolved, Reply, Answer, BearerOf, catalogue
<1>8. CASE Crash
    BY <1>8 DEF TypeOK, Resolved, Crash, catalogue
<1>9. ASSUME NEW a \in Agents, NEW t \in Tokens \cup {None}, NEW v \in Versions \cup {Latest},
             BeginInstall(a, t, v)
      PROVE  TypeOK' /\ Resolved'
    <2>1. CASE Exchanges(a, t)
        <3>1. Call("claim", t, 0, a) \in [pc : {"claim", "create", "reply"}, token : Tokens,
                              client : 0..Len(clients), agent : Agents \cup {None}]
            BY <2>1 DEF Exchanges
        <3>2. /\ UNCHANGED <<catalogue, saved>> /\ run' = [run EXCEPT ![a] = Locals("exchange", 0, v)]
              /\ exchanges' = exchanges \cup {Call("claim", t, 0, a)}
            BY <1>9, <2>1 DEF BeginInstall
        <3> QED BY <3>1, <3>2 DEF TypeOK, Resolved, catalogue
    <2>2. CASE ~Exchanges(a, t)
        <3>1. /\ UNCHANGED <<catalogue, exchanges, saved>>
              /\ run' = [run EXCEPT ![a] = Locals("resolve", saved[a].bearer, v)]
            BY <1>9, <2>2 DEF BeginInstall
        <3> QED BY <3>1 DEF TypeOK, Resolved, catalogue
    <2> QED BY <2>1, <2>2
<1>10. ASSUME NEW a \in Agents, ResolveVersion(a) \/ GetManifest(a) \/ SaveInstall(a)
       PROVE  TypeOK' /\ Resolved'
    <2>1. CASE ResolveVersion(a)
        BY <2>1 DEF TypeOK, Resolved, ResolveVersion, catalogue
    <2>2. CASE GetManifest(a)
        BY <2>2 DEF TypeOK, Resolved, GetManifest, catalogue
    <2>3. CASE SaveInstall(a)
        BY <2>3 DEF TypeOK, Resolved, SaveInstall, catalogue
    <2> QED BY <1>10, <2>1, <2>2, <2>3
<1>11. ASSUME NEW a \in Agents, Abort(a)
       PROVE  TypeOK' /\ Resolved'
    <2>1. ASSUME NEW x \in exchanges'
          PROVE  /\ x.pc \in {"claim", "create", "reply"} /\ x.token \in Tokens
                 /\ x.client \in 0..Len(clients) /\ x.agent \in Agents \cup {None}
                 /\ x = Call(x.pc, x.token, x.client, x.agent)
        <3>1. PICK y \in exchanges :
                 x = IF y.agent = a THEN Call(y.pc, y.token, y.client, None) ELSE y
            BY <1>11 DEF Abort
        <3> QED BY <3>1 DEF TypeOK
    <2>2. exchanges' \subseteq [pc : {"claim", "create", "reply"}, token : Tokens,
                               client : 0..Len(clients), agent : Agents \cup {None}]
        BY <2>1
    <2>3. UNCHANGED <<catalogue, saved>> /\ run' = [run EXCEPT ![a] = Idle]
        BY <1>11 DEF Abort
    <2> QED BY <2>2, <2>3 DEF TypeOK, Resolved, catalogue
<1>12. ASSUME NEW a \in Agents, ReportClientState(a) \/ SetEmail(a) \/ UnsetEmail(a)
       PROVE  TypeOK' /\ Resolved'
    <2>1. CASE ReportClientState(a)
        BY <2>1 DEF TypeOK, Resolved, ReportClientState, ReportsNow, Reporter
    <2>2. CASE SetEmail(a)
        BY <2>2 DEF TypeOK, Resolved, NewEmailClient, SetEmail
    <2>3. CASE UnsetEmail(a)
        BY <2>3 DEF TypeOK, Resolved, NewEmailClient, UnsetEmail
    <2> QED BY <1>12, <2>1, <2>2, <2>3
<1> QED BY <1>1, <1>2, <1>3, <1>4, <1>5, <1>6, <1>7, <1>8, <1>9, <1>10, <1>11, <1>12
        DEF Next, Exchange, InstallCmd

----------------------------------------------------------------------------
(* Tokens *)

\* What no step undoes: rows stay, and a token that was used stays used.
LEMMA UsedStays ==
    ASSUME TypeOK, TokensSpent, OneClientPerToken, UNCHANGED clients,
           \A t \in Tokens : tokens[t].state = "used" => tokens'[t].state = "used",
           Creating' \subseteq Creating
    PROVE  TokensSpent' /\ OneClientPerToken'
<1>1. \A i \in Rows : clients[i].token \in Tokens
    BY RowNumbers
<1>2. \A x \in Creating : x.token \in Tokens
    BY DEF TypeOK, Creating
<1> QED BY <1>1, <1>2 DEF TokensSpent, OneClientPerToken, Rows

\* Only the claim of a free token opens the way to its row, and the row closes it.
LEMMA TokensStep ==
    ASSUME TypeOK, Resolved, TokensSpent, OneClientPerToken, [Next]_vars
    PROVE  TokensSpent' /\ OneClientPerToken'
<1> DEFINE Later == /\ UNCHANGED clients /\ Creating' \subseteq Creating
                    /\ \A t \in Tokens : tokens[t].state = "used" => tokens'[t].state = "used"
<1>1. CASE UNCHANGED <<tokens, clients, exchanges>>
    BY <1>1, UsedStays DEF Creating
<1>2. ASSUME NEW t \in Tokens, ExpireInstallToken(t) \/ \E cls \in Labels : MintInstallToken(t, cls)
      PROVE  TokensSpent' /\ OneClientPerToken'
    <2>1. Later
        BY <1>2 DEF TypeOK, Creating, ExpireInstallToken, MintInstallToken
    <2> QED BY <2>1, UsedStays
<1>3. ASSUME NEW x \in exchanges, ClaimInstallToken(x)
      PROVE  TokensSpent' /\ OneClientPerToken'
    <2> DEFINE y == Call("create", x.token, 0, x.agent)
    <2>1. /\ x.token \in Tokens /\ tokens[x.token].state = "free"
          /\ \A t \in Tokens : tokens'[t].state = IF t = x.token THEN "used" ELSE tokens[t].state
        BY <1>3 DEF TypeOK, ClaimInstallToken, Claimable
    <2>2. Creating' \subseteq Creating \cup {y} /\ y.token = x.token
        BY <1>3 DEF ClaimInstallToken, Creating, Call
    <2> HIDE DEF y
    <2>3. UNCHANGED clients /\ Rows' = Rows
        BY <1>3 DEF ClaimInstallToken, Rows
    <2>4. \A i \in Rows : clients[i].token \in Tokens
        BY RowNumbers
    <2>5. \A z \in Creating : z.token \in Tokens /\ z.token # x.token
        BY <2>1 DEF TypeOK, Creating, TokensSpent
    <2>6. TokensSpent'
        BY <2>1, <2>2, <2>3, <2>4, <2>5 DEF TokensSpent
    <2> QED BY <2>3, <2>6 DEF OneClientPerToken
<1>4. ASSUME NEW x \in exchanges, CreateClient(x)
      PROVE  TokensSpent' /\ OneClientPerToken'
    <2>1. x \in Creating
        BY <1>4 DEF CreateClient, Creating
    <2>2. tokens[x.token].state = "used" /\ \A i \in Rows : clients[i].token # x.token
        BY <2>1 DEF TokensSpent
    <2>3. /\ Len(clients) \in Nat
          /\ Rows = 1..Len(clients) /\ Rows' = Rows \cup {Len(clients) + 1}
          /\ \A i \in Rows : clients'[i].token = clients[i].token
          /\ clients'[Len(clients) + 1].token = x.token
        <3>1. tokens[x.token].state = "used"
            BY <2>2
        <3>2. /\ Len(clients) \in Nat
              /\ Rows = 1..Len(clients) /\ Rows' = Rows \cup {Len(clients) + 1}
              /\ \A i \in Rows : clients'[i] = clients[i]
              /\ clients'[Len(clients) + 1].token = x.token
            BY <1>4, <3>1, RowAdded
        <3> QED BY <3>2
    <2>4. Creating' = Creating \ {x} /\ UNCHANGED tokens
        BY <1>4 DEF CreateClient, Creating, Call
    <2>5. TokensSpent'
        BY <2>1, <2>2, <2>3, <2>4 DEF TokensSpent
    <2>6. OneClientPerToken'
        BY <2>2, <2>3 DEF OneClientPerToken, Rows
    <2> QED BY <2>5, <2>6
<1>5. ASSUME NEW x \in exchanges, RefuseInstallToken(x) \/ ExchangeFails(x) \/ Reply(x)
      PROVE  TokensSpent' /\ OneClientPerToken'
    <2>1. Later
        BY <1>5 DEF RefuseInstallToken, ExchangeFails, Reply, catalogue, Creating
    <2> QED BY <2>1, UsedStays
<1>6. CASE Crash
    <2>1. Later
        BY <1>6 DEF Crash, catalogue, Creating
    <2> QED BY <2>1, UsedStays
<1>7. ASSUME NEW a \in Agents, NEW t \in Tokens \cup {None}, NEW v \in Versions \cup {Latest},
             BeginInstall(a, t, v)
      PROVE  TokensSpent' /\ OneClientPerToken'
    <2>1. Later
        BY <1>7 DEF BeginInstall, catalogue, Creating, Call
    <2> QED BY <2>1, UsedStays
<1>8. ASSUME NEW a \in Agents, Abort(a)
      PROVE  TokensSpent' /\ OneClientPerToken'
    <2> DEFINE Left(y) == IF y.agent = a THEN Call(y.pc, y.token, y.client, None) ELSE y
    <2>1. UNCHANGED <<tokens, clients>> /\ Rows' = Rows
        BY <1>8 DEF Abort, catalogue, Rows
    <2>2. \A x \in Creating' : \E y \in Creating : x = Left(y) /\ x.token = y.token
        BY <1>8 DEF Abort, Creating, Call
    <2>3. \A x, y \in Creating' : x.token = y.token => x = y
        BY <2>2 DEF TokensSpent
    <2>4. TokensSpent'
        BY <2>1, <2>2, <2>3 DEF TokensSpent
    <2> QED BY <2>1, <2>4 DEF OneClientPerToken
<1> QED BY <1>1, <1>2, <1>3, <1>4, <1>5, <1>6, <1>7, <1>8
        DEF Next, Exchange, InstallCmd, vars, catalogue, PublishRelease, DropRelease, ResolveVersion,
            GetManifest, SaveInstall, ReportClientState, NewEmailClient, SetEmail, UnsetEmail

----------------------------------------------------------------------------
(* Agents and their calls *)

\* An agent that is answered, or gives up its command, waits for nothing else.
LEMMA CallsStep ==
    ASSUME TypeOK, OneCall, OwnBearer, [Next]_vars
    PROVE  OneCall' /\ OwnBearer'
<1> USE DEF OneCall, OwnBearer, Call, Locals, Idle
<1>1. CASE UNCHANGED <<exchanges, saved, run>>
    BY <1>1
<1>2. ASSUME NEW x \in exchanges, ClaimInstallToken(x) \/ CreateClient(x)
      PROVE  OneCall' /\ OwnBearer'
    <2>1. PICK y : exchanges' = (exchanges \ {x}) \cup {y} /\ y.agent = x.agent
        <3>1. CASE ClaimInstallToken(x)
            <4> DEFINE y == Call("create", x.token, 0, x.agent)
            <4>1. exchanges' = (exchanges \ {x}) \cup {y} /\ y.agent = x.agent
                BY <3>1 DEF ClaimInstallToken
            <4> QED BY <4>1
        <3>2. CASE CreateClient(x)
            <4> DEFINE y == Call("reply", x.token, Len(clients) + 1, x.agent)
            <4>1. exchanges' = (exchanges \ {x}) \cup {y} /\ y.agent = x.agent
                BY <3>2 DEF CreateClient
            <4> QED BY <4>1
        <3> QED BY <1>2, <3>1, <3>2
    <2>2. UNCHANGED <<saved, run>>
        BY <1>2 DEF ClaimInstallToken, CreateClient
    <2> QED BY <2>1, <2>2
<1>3. ASSUME NEW x \in exchanges, RefuseInstallToken(x) \/ ExchangeFails(x) \/ Reply(x)
      PROVE  OneCall' /\ OwnBearer'
    <2>1. /\ exchanges' = exchanges \ {x} /\ UNCHANGED saved
          /\ \/ Answer(x, Idle)
             \/ Answer(x, Locals("resolve", BearerOf(x), run[x.agent].version))
        BY <1>3 DEF RefuseInstallToken, ExchangeFails, Reply
    <2>2. CASE x.agent = None
        BY <2>1, <2>2 DEF Answer
    <2>3. CASE x.agent # None
        <3>1. x.agent \in Agents /\ run[x.agent].pc = "exchange" /\ saved[x.agent].bearer = 0
            BY <2>3 DEF TypeOK
        <3>2. /\ \A b \in Agents \ {x.agent} : run'[b] = run[b]
              /\ \/ run'[x.agent].pc = "idle" /\ run'[x.agent].bearer = 0
                 \/ run'[x.agent].pc = "resolve"
            BY <2>1, <2>3, <3>1 DEF TypeOK, Answer
        <3>3. \A y \in exchanges' : y.agent # x.agent
            BY <2>1, <2>3
        <3>4. \A y \in exchanges : y.agent \in Agents \cup {None}
            BY DEF TypeOK
        <3>5. OneCall'
            BY <2>1, <3>1, <3>2, <3>3, <3>4
        <3>6. OwnBearer'
            BY <2>1, <3>1, <3>2
        <3> QED BY <3>5, <3>6
    <2> QED BY <2>2, <2>3
<1>4. CASE Crash
    BY <1>4 DEF TypeOK, Crash
<1>5. ASSUME NEW a \in Agents, NEW t \in Tokens \cup {None}, NEW v \in Versions \cup {Latest},
             BeginInstall(a, t, v)
      PROVE  OneCall' /\ OwnBearer'
    <2>1. run[a].pc = "idle" /\ UNCHANGED saved /\ \A x \in exchanges : x.agent # a
        BY <1>5, NamesAssumption DEF BeginInstall
    <2>2. CASE Exchanges(a, t)
        <3>1. /\ saved[a].bearer = 0 /\ exchanges' = exchanges \cup {Call("claim", t, 0, a)}
              /\ run' = [run EXCEPT ![a] = Locals("exchange", 0, v)]
            BY <1>5, <2>2 DEF BeginInstall, Exchanges
        <3> QED BY <2>1, <3>1 DEF TypeOK
    <2>3. CASE ~Exchanges(a, t)
        <3>1. /\ UNCHANGED exchanges
              /\ run' = [run EXCEPT ![a] = Locals("resolve", saved[a].bearer, v)]
            BY <1>5, <2>3 DEF BeginInstall
        <3> QED BY <2>1, <3>1 DEF TypeOK
    <2> QED BY <2>2, <2>3
<1>6. ASSUME NEW a \in Agents, ResolveVersion(a) \/ GetManifest(a)
      PROVE  OneCall' /\ OwnBearer'
    <2>1. PICK pc, v : /\ run' = [run EXCEPT ![a] = Locals(pc, run[a].bearer, v)]
                       /\ pc \in {"manifest", "fetch"} /\ run[a].pc \in {"resolve", "manifest"}
        BY <1>6 DEF TypeOK, ResolveVersion, GetManifest
    <2>2. UNCHANGED <<exchanges, saved>>
        BY <1>6 DEF ResolveVersion, GetManifest
    <2> QED BY <2>1, <2>2 DEF TypeOK
<1>7. ASSUME NEW a \in Agents, SaveInstall(a)
      PROVE  OneCall' /\ OwnBearer'
    BY <1>7 DEF TypeOK, SaveInstall
<1>8. ASSUME NEW a \in Agents, Abort(a)
      PROVE  OneCall' /\ OwnBearer'
    <2>1. UNCHANGED saved /\ run' = [run EXCEPT ![a] = Idle]
        BY <1>8 DEF Abort
    <2>2. \A x \in exchanges' : x.agent = None \/ (x.agent # a /\ x \in exchanges)
        <3>1. ASSUME NEW x \in exchanges'
              PROVE  x.agent = None \/ (x.agent # a /\ x \in exchanges)
            <4>1. PICK y \in exchanges :
                     x = IF y.agent = a THEN Call(y.pc, y.token, y.client, None) ELSE y
                BY <1>8 DEF Abort
            <4>2. CASE y.agent = a
                BY <4>1, <4>2 DEF Call
            <4>3. CASE y.agent # a
                BY <4>1, <4>3
            <4> QED BY <4>2, <4>3
        <3> QED BY <3>1
    <2> QED BY <2>1, <2>2, NamesAssumption DEF TypeOK
<1>9. ASSUME NEW a \in Agents, ReportClientState(a)
      PROVE  OneCall' /\ OwnBearer'
    BY <1>9 DEF TypeOK, ReportClientState, ReportsNow
<1> QED BY <1>1, <1>2, <1>3, <1>4, <1>5, <1>6, <1>7, <1>8, <1>9
        DEF Next, Exchange, InstallCmd, vars, PublishRelease, DropRelease, ExpireInstallToken,
            MintInstallToken, NewEmailClient, SetEmail, UnsetEmail

----------------------------------------------------------------------------
(* Bearers *)

\* Only the exchange that made a row has its number; it is passed on, once.
LEMMA HolderStep ==
    ASSUME TypeOK, Resolved, TokensSpent, OneCall, OwnBearer, OneHolder, AgentsAreDistinct,
           [Next]_vars
    PROVE  OneHolder' /\ AgentsAreDistinct'
\* Nobody has a bearer that nobody had before.
<1> DEFINE NoNew == /\ Replying' \subseteq Replying /\ UNCHANGED saved
                    /\ \A a \in Agents : run'[a].bearer \in {0, run[a].bearer}
<1>1. ASSUME NoNew PROVE OneHolder' /\ AgentsAreDistinct'
    BY <1>1 DEF OneHolder, AgentsAreDistinct
<1>2. CASE UNCHANGED <<exchanges, saved, run>>
    BY <1>1, <1>2 DEF Replying
<1>3. ASSUME NEW x \in exchanges,
             ClaimInstallToken(x) \/ RefuseInstallToken(x) \/ ExchangeFails(x)
      PROVE  OneHolder' /\ AgentsAreDistinct'
    <2>1. CASE ClaimInstallToken(x)
        BY <1>1, <2>1 DEF Replying, ClaimInstallToken, Call
    <2>2. CASE RefuseInstallToken(x) \/ ExchangeFails(x)
        <3>1. /\ exchanges' \subseteq exchanges /\ UNCHANGED saved
              /\ run' = IF x.agent = None THEN run ELSE [run EXCEPT ![x.agent] = Idle]
            BY <2>2 DEF RefuseInstallToken, ExchangeFails, Answer
        <3>2. \A a \in Agents : run'[a].bearer \in {0, run[a].bearer}
            BY <3>1 DEF TypeOK, Idle, Locals
        <3> QED BY <1>1, <3>1, <3>2 DEF Replying
    <2> QED BY <1>3, <2>1, <2>2
<1>4. ASSUME NEW x \in exchanges, CreateClient(x)
      PROVE  OneHolder' /\ AgentsAreDistinct'
    <2> DEFINE new == Len(clients) + 1
               y == Call("reply", x.token, new, x.agent)
    <2>1. Len(clients) \in Nat
        BY RowNumbers
    <2>2. Replying' \subseteq Replying \cup {y} /\ UNCHANGED <<saved, run>>
        BY <1>4 DEF CreateClient, Replying
    <2>3. /\ y.client = new /\ new # 0 /\ \A z \in Replying : z.client # new
          /\ \A a \in Agents : run[a].bearer # new /\ saved[a].bearer # new
        BY <2>1 DEF TypeOK, Replying, Call
    <2> HIDE DEF y, new
    <2> QED BY <2>2, <2>3 DEF OneHolder, AgentsAreDistinct
<1>5. ASSUME NEW x \in exchanges, Reply(x)
      PROVE  OneHolder' /\ AgentsAreDistinct'
    <2>1. /\ x \in Replying /\ Replying' = Replying \ {x} /\ UNCHANGED saved
          /\ run' = IF x.agent = None THEN run
                    ELSE [run EXCEPT ![x.agent] =
                             Locals("resolve", x.client, run[x.agent].version)]
        BY <1>5 DEF Reply, Replying, Answer, BearerOf
    <2>2. CASE x.agent = None
        BY <1>1, <2>1, <2>2
    <2>3. CASE x.agent # None
        <3>1. /\ x.agent \in Agents
              /\ \A b \in Agents : run'[b].bearer = IF b = x.agent THEN x.client ELSE run[b].bearer
            BY <2>1, <2>3 DEF TypeOK, Locals
        <3>2. saved[x.agent].bearer = 0
            BY <2>3, <3>1 DEF OneCall
        <3> QED BY <2>1, <3>1, <3>2 DEF OneHolder, AgentsAreDistinct
    <2> QED BY <2>2, <2>3
<1>6. CASE Crash
    BY <1>1, <1>6 DEF TypeOK, Replying, Crash, Idle, Locals
<1>7. ASSUME NEW a \in Agents, NEW t \in Tokens \cup {None}, NEW v \in Versions \cup {Latest},
             BeginInstall(a, t, v)
      PROVE  OneHolder' /\ AgentsAreDistinct'
    <2>1. Replying' = Replying /\ UNCHANGED saved /\ run[a].bearer = 0
        BY <1>7 DEF BeginInstall, Replying, Call, OwnBearer
    <2>2. \A b \in Agents : run'[b].bearer \in {0, run[b].bearer}
                            \/ (b = a /\ run'[b].bearer = saved[a].bearer)
        <3>1. PICK pc, b : /\ run' = [run EXCEPT ![a] = Locals(pc, b, v)]
                           /\ b \in {0, saved[a].bearer}
            BY <1>7 DEF BeginInstall
        <3> QED BY <3>1 DEF TypeOK, Locals
    <2>3. \A b \in Agents \ {a} : run'[b].bearer = run[b].bearer
        BY <1>7 DEF TypeOK, BeginInstall
    <2> QED BY <2>1, <2>2, <2>3 DEF OneHolder, AgentsAreDistinct
<1>8. ASSUME NEW a \in Agents, ResolveVersion(a) \/ GetManifest(a)
      PROVE  OneHolder' /\ AgentsAreDistinct'
    <2>1. PICK pc, v : run' = [run EXCEPT ![a] = Locals(pc, run[a].bearer, v)]
        BY <1>8 DEF TypeOK, ResolveVersion, GetManifest
    <2>2. UNCHANGED <<exchanges, saved>>
        BY <1>8 DEF ResolveVersion, GetManifest
    <2>3. \A b \in Agents : run'[b].bearer = run[b].bearer
        BY <2>1 DEF TypeOK, Locals
    <2> QED BY <1>1, <2>2, <2>3 DEF Replying
<1>9. ASSUME NEW a \in Agents, SaveInstall(a)
      PROVE  OneHolder' /\ AgentsAreDistinct'
    <2>1. /\ Replying' = Replying
          /\ \A b \in Agents : run'[b].bearer = run[b].bearer
          /\ \A b \in Agents : saved'[b].bearer = IF b = a THEN run[a].bearer ELSE saved[b].bearer
        BY <1>9 DEF TypeOK, SaveInstall, Locals, Replying
    <2> QED BY <2>1 DEF OneHolder, AgentsAreDistinct
<1>10. ASSUME NEW a \in Agents, Abort(a)
       PROVE  OneHolder' /\ AgentsAreDistinct'
    <2>1. UNCHANGED saved /\ \A b \in Agents : run'[b].bearer \in {0, run[b].bearer}
        BY <1>10 DEF TypeOK, Abort, Idle, Locals
    <2>2. \A x \in Replying' : \E y \in Replying :
             x.client = y.client /\ x = IF y.agent = a THEN Call(y.pc, y.token, y.client, None) ELSE y
        BY <1>10 DEF Abort, Replying, Call
    <2>3. \A x, y \in Replying' : x.client = y.client => x = y
        BY <2>2 DEF OneHolder
    <2> QED BY <2>1, <2>2, <2>3 DEF OneHolder, AgentsAreDistinct
<1>11. ASSUME NEW a \in Agents, ReportClientState(a)
       PROVE  OneHolder' /\ AgentsAreDistinct'
    BY <1>1, <1>11 DEF TypeOK, Replying, ReportClientState, Idle, Locals
<1> QED BY <1>2, <1>3, <1>4, <1>5, <1>6, <1>7, <1>8, <1>9, <1>10, <1>11
        DEF Next, Exchange, InstallCmd, vars, PublishRelease, DropRelease, ExpireInstallToken,
            MintInstallToken, NewEmailClient, SetEmail, UnsetEmail

\* A step that saves a bearer saves it where there was none, or the same.
LEMMA SavedStays ==
    ASSUME TypeOK, OwnBearer, [Next]_vars, NEW a \in Agents, saved[a].bearer # 0
    PROVE  saved'[a].bearer = saved[a].bearer
<1>1. ASSUME NEW b \in Agents, SaveInstall(b)
      PROVE  saved'[a].bearer = saved[a].bearer
    BY <1>1 DEF TypeOK, SaveInstall, OwnBearer
<1> QED BY <1>1
        DEF Next, Exchange, InstallCmd, vars, PublishRelease, DropRelease, ExpireInstallToken, MintInstallToken,
            ClaimInstallToken, RefuseInstallToken, CreateClient, Reply, ExchangeFails, Crash,
            BeginInstall, ResolveVersion, GetManifest, Abort, ReportClientState, NewEmailClient, SetEmail, UnsetEmail

\* Reports and addresses come with the bearer that is saved.
LEMMA KnownStep ==
    ASSUME TypeOK, OwnBearer, KnownUsersAreReal, [Next]_vars
    PROVE  KnownUsersAreReal'
<1> DEFINE Bearers == {saved[a].bearer : a \in Agents}
<1>1. ASSUME NEW c, c \in Bearers, c # 0
      PROVE  c \in Bearers'
    BY <1>1, SavedStays
<1>2. reported' \cup emails' \subseteq reported \cup emails \cup (Bearers \ {0})
    <2>1. ASSUME NEW a \in Agents, ReportClientState(a)
          PROVE  reported' \cup emails' \subseteq reported \cup emails \cup (Bearers \ {0})
        BY <2>1 DEF ReportClientState, ReportsNow, Reporter, OwnBearer
    <2>2. ASSUME NEW a \in Agents, SetEmail(a) \/ UnsetEmail(a)
          PROVE  reported' \cup emails' \subseteq reported \cup emails \cup (Bearers \ {0})
        BY <2>2 DEF NewEmailClient, SetEmail, UnsetEmail
    <2>3. CASE UNCHANGED <<reported, emails>>
        BY <2>3
    <2> QED BY <2>1, <2>2, <2>3
            DEF Next, Exchange, InstallCmd, vars, catalogue, PublishRelease, DropRelease, ExpireInstallToken,
                MintInstallToken, ClaimInstallToken, RefuseInstallToken, CreateClient, Reply,
                ExchangeFails, Crash, BeginInstall, ResolveVersion, GetManifest, SaveInstall, Abort
<1>3. reported \cup emails \subseteq Bearers /\ 0 \notin reported \cup emails
    BY RowNumbers DEF TypeOK, Rows, KnownUsersAreReal
<1>4. reported' \cup emails' \subseteq Bearers'
    BY <1>1, <1>2, <1>3
<1> QED BY <1>4 DEF KnownUsersAreReal

----------------------------------------------------------------------------
(* What is visible *)

\* A client's classifications stay; rows are only added.
LEMMA StillVisible ==
    ASSUME TypeOK, Resolved, TokensSpent, [Next]_vars, NEW b \in 0..Len(clients), NEW r
    PROVE  Visible(b, r)' = Visible(b, r)
<1>1. ASSUME NEW i \in Rows
      PROVE  clients'[i] = clients[i]
    <2>1. ASSUME NEW x \in exchanges, CreateClient(x)
          PROVE  clients'[i] = clients[i]
        <3>1. tokens[x.token].state = "used"
            BY <2>1 DEF TokensSpent, Creating, CreateClient
        <3> QED BY <2>1, <3>1, RowAdded
    <2> QED BY <2>1
            DEF Next, Exchange, InstallCmd, vars, catalogue, PublishRelease, DropRelease, ExpireInstallToken,
                MintInstallToken, ClaimInstallToken, RefuseInstallToken, Reply, ExchangeFails, Crash,
                BeginInstall, ResolveVersion, GetManifest, SaveInstall, Abort, ReportClientState,
                NewEmailClient, SetEmail, UnsetEmail
<1>2. b # 0 => b \in Rows
    BY RowNumbers
<1> QED BY <1>1, <1>2 DEF Visible, Classifications

\* Manifests and saves go by what is visible at their moment, and that stays.
LEMMA VisibleStep ==
    ASSUME TypeOK, Resolved, TokensSpent, FetchedVisible, InstalledWasVisible, [Next]_vars
    PROVE  FetchedVisible' /\ InstalledWasVisible'
<1>1. published \subseteq published'
    BY DEF Next, Exchange, InstallCmd, vars, catalogue, PublishRelease, DropRelease, ExpireInstallToken,
           MintInstallToken, ClaimInstallToken, RefuseInstallToken, CreateClient, Reply, ExchangeFails,
           Crash, BeginInstall, ResolveVersion, GetManifest, SaveInstall, Abort, ReportClientState,
           NewEmailClient, SetEmail, UnsetEmail
<1>2. \A i \in DOMAIN releases' : releases'[i] \in published'
    <2>1. ASSUME NEW v \in Versions, NEW cls \in Labels, PublishRelease(v, cls)
          PROVE  \A i \in DOMAIN releases' : releases'[i] \in published'
        <3>1. published' = published \cup {[version |-> v, cls |-> cls]}
            BY <2>1 DEF PublishRelease
        <3>2. \A i \in DOMAIN releases' :
                 \/ releases'[i] = [version |-> v, cls |-> cls]
                 \/ \E j \in DOMAIN releases : releases'[i] = releases[j]
            BY <2>1, ReleaseRows
        <3> QED BY <3>1, <3>2 DEF FetchedVisible
    <2>2. CASE DropRelease
        <3>1. \A i \in DOMAIN releases' : \E j \in DOMAIN releases : releases'[i] = releases[j]
            BY <2>2, ReleaseRows
        <3> QED BY <1>1, <3>1 DEF FetchedVisible
    <2>3. CASE UNCHANGED releases
        BY <1>1, <2>3 DEF FetchedVisible
    <2> QED BY <2>1, <2>2, <2>3
            DEF Next, Exchange, InstallCmd, vars, catalogue, ExpireInstallToken, MintInstallToken,
                ClaimInstallToken, RefuseInstallToken, CreateClient, Reply, ExchangeFails, Crash,
                BeginInstall, ResolveVersion, GetManifest, SaveInstall, Abort, ReportClientState,
                NewEmailClient, SetEmail, UnsetEmail
\* What was visible to a bearer is so after the step.
<1>3. ASSUME NEW b \in 0..Len(clients), NEW r \in published, Visible(b, r)
      PROVE  r \in published' /\ Visible(b, r)'
    BY <1>1, <1>3, StillVisible
<1>4. ASSUME NEW a \in Agents, run'[a].pc = "fetch"
      PROVE  \E r \in published', b \in 0..Len(clients) :
                /\ r.version = run'[a].version /\ b = run'[a].bearer
                /\ Visible(b, r)'
    <2>1. CASE GetManifest(a)
        <3>1. PICK i \in DOMAIN releases : MayFetch(a, releases[i])
            BY <2>1 DEF GetManifest
        <3>2. run'[a].bearer = run[a].bearer /\ run'[a].version = run[a].version
            BY <2>1 DEF GetManifest, TypeOK, Locals
        <3>3. PICK r \in published, b \in 0..Len(clients) :
                 r = releases[i] /\ b = run[a].bearer
            BY DEF FetchedVisible, TypeOK
        <3>4. Visible(b, r) /\ r.version = run[a].version
            BY <3>1, <3>3 DEF MayFetch
        <3> QED BY <1>3, <3>2, <3>3, <3>4
    <2>2. CASE run'[a] = run[a]
        <3>1. PICK r \in published, b \in 0..Len(clients) :
                 r.version = run[a].version /\ b = run[a].bearer /\ Visible(b, r)
            BY <1>4, <2>2 DEF FetchedVisible, TypeOK
        <3> QED BY <1>3, <2>2, <3>1
    <2>3. ASSUME NEW x \in exchanges, RefuseInstallToken(x) \/ ExchangeFails(x) \/ Reply(x)
          PROVE  run'[a] = run[a]
        BY <1>4, <2>3 DEF TypeOK, RefuseInstallToken, ExchangeFails, Reply, Answer, Idle, Locals
    <2>4. CASE Crash
        BY <1>4, <2>2, <2>4 DEF TypeOK, Crash, Idle, Locals
    <2>5. ASSUME NEW b \in Agents, NEW t \in Tokens \cup {None}, NEW v \in Versions \cup {Latest},
                 BeginInstall(b, t, v)
          PROVE  run'[a] = run[a]
        BY <1>4, <2>5 DEF TypeOK, BeginInstall, Locals
    <2>6. ASSUME NEW b \in Agents, \/ ResolveVersion(b) \/ SaveInstall(b) \/ Abort(b)
                                   \/ ReportClientState(b) \/ (GetManifest(b) /\ a # b)
          PROVE  run'[a] = run[a]
        BY <1>4, <2>6 DEF TypeOK, ResolveVersion, SaveInstall, Abort, ReportClientState, GetManifest,
                          Idle, Locals
    <2> QED BY <2>1, <2>2, <2>3, <2>4, <2>5, <2>6
            DEF Next, Exchange, InstallCmd, vars, PublishRelease, DropRelease, ExpireInstallToken,
                MintInstallToken, ClaimInstallToken, CreateClient, NewEmailClient, SetEmail, UnsetEmail
<1>5. FetchedVisible'
    BY <1>2, <1>4 DEF FetchedVisible, Visible, Classifications
<1>6. ASSUME NEW a \in Agents, saved'[a].current # None
      PROVE  \E r \in published', b \in 0..Len(clients) :
                /\ r.version = saved'[a].current /\ b = saved'[a].bearer
                /\ Visible(b, r)'
    <2>1. CASE SaveInstall(a)
        <3>1. /\ run[a].pc = "fetch"
              /\ saved'[a].bearer = run[a].bearer /\ saved'[a].current = run[a].version
            BY <2>1 DEF SaveInstall, TypeOK
        <3>2. PICK r \in published, b \in 0..Len(clients) :
                 r.version = run[a].version /\ b = run[a].bearer /\ Visible(b, r)
            BY <3>1 DEF FetchedVisible, TypeOK
        <3> QED BY <1>3, <3>1, <3>2
    <2>2. CASE saved'[a] = saved[a]
        <3>1. PICK r \in published, b \in 0..Len(clients) :
                 r.version = saved[a].current /\ b = saved[a].bearer /\ Visible(b, r)
            BY <1>6, <2>2 DEF InstalledWasVisible, TypeOK
        <3> QED BY <1>3, <2>2, <3>1
    <2>3. ASSUME NEW b \in Agents, SaveInstall(b), a # b
          PROVE  saved'[a] = saved[a]
        BY <2>3 DEF TypeOK, SaveInstall
    <2> QED BY <2>1, <2>2, <2>3
            DEF Next, Exchange, InstallCmd, vars, PublishRelease, DropRelease, ExpireInstallToken,
                MintInstallToken, ClaimInstallToken, RefuseInstallToken, CreateClient, Reply,
                ExchangeFails, Crash, BeginInstall, ResolveVersion, GetManifest, Abort,
                ReportClientState, NewEmailClient, SetEmail, UnsetEmail
<1>7. InstalledWasVisible'
    BY <1>6 DEF InstalledWasVisible, Visible, Classifications
<1> QED BY <1>5, <1>7

----------------------------------------------------------------------------
(* The theorems *)

\* An empty catalogue and fresh directories.
LEMMA InitInv == Init => IndInv /\ FetchedVisible /\ InstalledWasVisible
<1> SUFFICES ASSUME Init PROVE IndInv /\ FetchedVisible /\ InstalledWasVisible
    OBVIOUS
<1> USE DEF Init, Idle, Locals
<1>1. /\ clients = <<>> /\ Len(clients) = 0 /\ DOMAIN clients = {}
      /\ releases = <<>> /\ DOMAIN releases = {}
    OBVIOUS
<1>2. TypeOK
    BY <1>1 DEF TypeOK
<1>3. Resolved /\ OneCall /\ OwnBearer /\ KnownUsersAreReal /\ AgentsAreDistinct
    BY DEF Resolved, OneCall, OwnBearer, KnownUsersAreReal, AgentsAreDistinct
<1>4. TokensSpent /\ OneClientPerToken /\ OneHolder
    BY <1>1 DEF TokensSpent, OneClientPerToken, OneHolder, Creating, Replying, Rows
<1>5. FetchedVisible /\ InstalledWasVisible
    BY <1>1 DEF FetchedVisible, InstalledWasVisible
<1> QED BY <1>2, <1>3, <1>4, <1>5 DEF IndInv

\* The lemmas together.
LEMMA IndInvStep == IndInv /\ [Next]_vars => IndInv'
BY TypeStep, TokensStep, CallsStep, HolderStep, KnownStep DEF IndInv

\* What holds in every reachable state.
LEMMA Invariant == Spec => []IndInv
<1> QED BY InitInv, IndInvStep, PTL DEF Spec

\* The catalogue's tables, the calls and the agents keep their types.
THEOREM TypeCorrect == Spec => []TypeOK
<1>1. IndInv => TypeOK
    BY DEF IndInv
<1> QED BY <1>1, Invariant, PTL

\* claim-install-token and create-client, two catalogue calls with anything in
\* between, make one client per token at most.
THEOREM TokensAreOneShot == Spec => []OneClientPerToken
<1>1. IndInv => OneClientPerToken
    BY DEF IndInv
<1> QED BY <1>1, Invariant, PTL

\* The bearer of an exchange goes to one agent: no two state.json have the same.
THEOREM WorkstationsAreDistinct == Spec => []AgentsAreDistinct
<1>1. IndInv => AgentsAreDistinct
    BY DEF IndInv
<1> QED BY <1>1, Invariant, PTL

\* A row of client_software_state or client_emails is about a client whose
\* bearer is in a state.json.
THEOREM NoGhostUsers == Spec => []KnownUsersAreReal
<1>1. IndInv => KnownUsersAreReal
    BY DEF IndInv
<1> QED BY <1>1, Invariant, PTL

\* Install never replaces a bearer that was saved.
THEOREM IdentityStays == Spec => IdentityIsKept
<1>1. IndInv /\ [Next]_vars
        => [\A a \in Agents : saved[a].bearer # 0 => saved'[a].bearer = saved[a].bearer]_vars
    BY SavedStays DEF IndInv
<1> QED BY <1>1, Invariant, PTL DEF Spec, IdentityIsKept

\* The filters of the two requests of an install, however far apart, keep what
\* was never published for a client from being installed by it.
THEOREM OnlyVisibleInstalled == Spec => []InstalledWasVisible
<1>1. IndInv /\ FetchedVisible /\ InstalledWasVisible /\ [Next]_vars
        => (FetchedVisible /\ InstalledWasVisible)'
    BY VisibleStep DEF IndInv
<1> QED BY <1>1, InitInv, Invariant, PTL DEF Spec

=============================================================================
