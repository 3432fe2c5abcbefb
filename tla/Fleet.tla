-------------------------------- MODULE Fleet --------------------------------
(***************************************************************************)
(* Which releases the garbage collector chooses to drop, and what the      *)
(* fleet of clients sees of it: the state reports that tell the server who *)
(* is on which release, the counts and the reachability plan the GC makes  *)
(* of them, and the release that a watching client is given as the latest. *)
(*                                                                         *)
(* A catalogue call is one step, as in Publish.  One software on one       *)
(* platform; a release is its version and has one blob.  The row of a      *)
(* publish and its patch jobs are one step here (their own steps are in    *)
(* Publish), and so is the drop of a release; a patch that is being built, *)
(* by a worker or for a request, is in the catalogue some steps later.     *)
(* One GC run at a time, beside everything else.  An edge is a pair of     *)
(* releases; bsdiff is deterministic, so that the hash and the size of the *)
(* patch from the first to the second are constants.                       *)
(***************************************************************************)
EXTENDS Naturals, Sequences, FiniteSets, SequencesExt

CONSTANTS
    Versions,       \* 0 is none
    Rank,           \* version -> its place in the order of semver<, the same for
                    \* versions that compare equal; 0 when parse-semver rejects it
    Clients,
    Sizes,          \* sizes of patches
    Size,           \* edge -> the size of its patch
    Hash,           \* edge -> the hash of its patch: equal blobs, equal patches
    Cap,            \* fallback_ratio times the size of a blob
    MinUserCount,   \* min_user_count
    MinAge,         \* min_age_days
    Window,         \* window-days
    MaxBuiltEdges,  \* max_built_edges
    MaxTime,        \* bound: the clock
    MaxInstalls,    \* bound: installs of all clients
    MaxPublishes,   \* bound: publishes
    MaxRuns,        \* bound: runs of the GC
    MaxRequests     \* bound: releases marked as uncollectable, patches built on
                    \* demand and failed builds

Edges == {e \in Versions \X Versions : e[1] # e[2]}

ASSUME VersionsAssumption ==
    IsFiniteSet(Versions) /\ 0 \notin Versions /\ Rank \in [Versions -> Nat]
ASSUME ClientsAssumption == IsFiniteSet(Clients)
ASSUME SizesAssumption == Sizes \subseteq Nat \ {0} /\ Size \in [Edges -> Sizes]
ASSUME NumbersAssumption ==
    {Cap, MinUserCount, MinAge, Window, MaxBuiltEdges, MaxTime, MaxInstalls,
     MaxPublishes, MaxRuns, MaxRequests} \subseteq Nat

VARIABLES
    releases,   \* the rows list-releases returns, last published first
    patches,    \* edges whose patch is in the catalogue
    building,   \* edges whose patch a worker or a request is to build
    at,         \* client -> the version it runs
    pending,    \* clients whose state report is under way
    snapshot,   \* client_software_state
    now,        \* the server's clock
    gc,         \* locals of the GC run; since its start: clients that have not
                \* reported (steady) and releases that were pinned; since its
                \* plan: edges that lost their row to another (evicted) (history)
    count       \* how many of them there were (for the bounds)

vars == <<releases, patches, building, at, pending, snapshot, now, gc, count>>

Row == [version : Versions, published_at : 0..MaxTime, uncollectable : BOOLEAN]
NoReport == [rel |-> 0, at |-> 0]

Listed(rows) == {r.version : r \in Range(rows)}
Released == Listed(releases)

\* The knobs of the request (dry_run, ensure_reachability, allow_blob_fallback)
\* are chosen where the run looks at them.
GcPCs == {"idle", "count", "target", "plan", "list", "build", "drop"}
NoGc == [pc |-> "idle", todo |-> <<>>, latest |-> 0,
         candidates |-> <<>>, positions |-> {}, target |-> 0,
         edges |-> {}, known |-> {}, pruned |-> 0, steady |-> {}, pinned |-> {},
         evicted |-> {}]

\* The types, and the keys: one row for a version, one patch for a hash.
TypeOK ==
    /\ releases \in Seq(Row)
    /\ \A i, j \in DOMAIN releases : releases[i].version = releases[j].version => i = j
    /\ patches \subseteq Edges
    /\ \A e, f \in patches : Hash[e] = Hash[f] => e = f
    /\ building \subseteq Edges
    /\ at \in [Clients -> Versions \cup {0}]
    /\ pending \subseteq Clients
    /\ snapshot \in [Clients -> [rel : Versions \cup {0}, at : 0..MaxTime]]
    /\ now \in 0..MaxTime
    /\ gc \in [pc : GcPCs, todo : Seq(Row), latest : Versions \cup {0},
               candidates : Seq(Versions), positions : SUBSET Versions,
               target : Versions \cup {0}, edges : SUBSET Edges,
               known : SUBSET Versions, pruned : Nat, steady : SUBSET Clients,
               pinned : SUBSET Versions, evicted : SUBSET Edges]
    /\ count \in [installs : 0..MaxInstalls, publishes : 0..MaxPublishes, runs : 0..MaxRuns,
                  requests : 0..MaxRequests]

Init ==
    /\ releases = <<>>
    /\ patches = {}
    /\ building = {}
    /\ at = [c \in Clients |-> 0]
    /\ pending = {}
    /\ snapshot = [c \in Clients |-> NoReport]
    /\ now = 0
    /\ gc = NoGc
    /\ count = [installs |-> 0, publishes |-> 0, runs |-> 0, requests |-> 0]

----------------------------------------------------------------------------
(* The choice of a version *)

\* A faulty variant: the one that was published last.
NewestRelease(vs) ==
    IF vs = {} THEN {0} ELSE {Head(SelectSeq(releases, LAMBDA r : r.version \in vs)).version}

\* What the GC spares and plans for is one of these: a highest version among
\* those that parse, or none when none does.
HighestSemver(vs) ==
    LET parseable == {v \in vs : Rank[v] # 0}
    IN  IF parseable = {} THEN {0}
        ELSE {v \in parseable : \A w \in parseable : Rank[w] <= Rank[v]}

\* What handle-latest-release answers: the first row that the client may see.
Latest == Head(releases).version

----------------------------------------------------------------------------
(* The cheapest chain of patches: Dijkstra's search over the edges *)

\* dist and via are defined for the releases reached so far: the cost of the
\* best chain known, and the releases on it.
StartSearch(from) ==
    [dist |-> [v \in {from} |-> 0], via |-> [v \in {from} |-> {from}], visited |-> {}]

\* A faulty variant keeps the first chain that reached a release.
NewlyReached(s, w, cost) == w \notin DOMAIN s.dist

\* The relaxation's condition.
Improves(s, w, cost) == w \notin DOMAIN s.dist \/ cost < s.dist[w]

Relax(graph, s, v) ==
    LET cost(w) == s.dist[v] + graph[<<v, w>>]
        better == {w \in Versions : <<v, w>> \in DOMAIN graph /\ Improves(s, w, cost(w))}
        reached == DOMAIN s.dist \cup better
    IN  [dist |-> [w \in reached |-> IF w \in better THEN cost(w) ELSE s.dist[w]],
         via |-> [w \in reached |-> IF w \in better THEN s.via[v] \cup {w} ELSE s.via[w]],
         visited |-> s.visited \cup {v}]

\* The unvisited release of least cost is next; it ends the search when it is
\* the goal or beyond the cap.
SearchStep(graph, s, to) ==
    LET open == DOMAIN s.dist \ s.visited
        v == CHOOSE v \in open : \A w \in open : s.dist[v] <= s.dist[w]
    IN  IF open = {} \/ v = to \/ s.dist[v] > Cap THEN s ELSE Relax(graph, s, v)

\* shortest-patch-path: the releases on the chain it returns, {} when no chain
\* within the cap leads from one release to the other.
ShortestPatchPath(graph, from, to) ==
    LET search[i \in 0..Cardinality(Versions)] ==
            IF i = 0 THEN StartSearch(from) ELSE SearchStep(graph, search[i - 1], to)
        s == search[Cardinality(Versions)]
    IN  IF to \in DOMAIN s.dist /\ s.dist[to] <= Cap
        THEN [cost |-> s.dist[to], nodes |-> s.via[to]]
        ELSE [cost |-> 0, nodes |-> {}]

\* The edges that touch no release of a set.
Without(edges, excluded) == {e \in edges : {e[1], e[2]} \cap excluded = {}}

Graph(edges) == [e \in edges |-> Size[e]]

\* list-patches-for-software joins the patches with the releases they lead to.
Joined(edges) == {e \in edges : e[2] \in Released}

----------------------------------------------------------------------------
(* The patches of the catalogue *)

\* A faulty variant: a patch of the same hash keeps its row.
NoneEvicted(e) == {}

\* INSERT OR REPLACE: the patch of another edge with the same hash loses its row.
Evicted(e) == {f \in patches \ {e} : Hash[f] = Hash[e]}

StorePatch(e) == patches' = (patches \ Evicted(e)) \cup {e}

\* From the plan to the last drop: what the run keeps, when it has a target.
Planned == gc.pc \in {"list", "build", "drop"} /\ gc.target # 0

EvictedSince(e) == IF Planned THEN gc.evicted \cup Evicted(e) ELSE gc.evicted

----------------------------------------------------------------------------
(* Publishers, workers, operators and clients *)

\* A publish: a row with the next published_at, and a patch to build from each
\* other release.  A version that was dropped may come back.
PublishRelease(v) ==
    /\ v \in Versions \ Released
    /\ releases' = <<[version |-> v, published_at |-> now, uncollectable |-> FALSE]>>
                      \o releases
    /\ building' = building \cup (Released \X {v})
    /\ count.publishes < MaxPublishes
    /\ count' = [count EXCEPT !.publishes = @ + 1]
    /\ UNCHANGED <<patches, at, pending, snapshot, now, gc>>

\* The upgrade endpoint and the admin's reverse patch find any two releases ...
\* (Two builds of one edge at a time are one.)
ResolveOrBuildUpgradePatch(e) ==
    /\ {e[1], e[2]} \subseteq Released /\ e \notin patches \cup building
    /\ building' = building \cup {e}
    /\ count.requests < MaxRequests
    /\ count' = [count EXCEPT !.requests = @ + 1]
    /\ UNCHANGED <<releases, patches, at, pending, snapshot, now, gc>>

\* ... and insert the patch when it is built, as a worker does, without another
\* look at them: a GC may have dropped one meanwhile.
InsertPatch(e) ==
    /\ e \in building
    /\ building' = building \ {e}
    /\ StorePatch(e)
    /\ gc' = [gc EXCEPT !.evicted = EvictedSince(e)]
    /\ UNCHANGED <<releases, at, pending, snapshot, now, count>>

BuildFails(e) ==
    /\ e \in building
    /\ building' = building \ {e}
    /\ count.requests < MaxRequests
    /\ count' = [count EXCEPT !.requests = @ + 1]
    /\ UNCHANGED <<releases, patches, at, pending, snapshot, now, gc>>

MarkUncollectable(v) ==
    /\ \E i \in DOMAIN releases :
          /\ releases[i].version = v /\ ~releases[i].uncollectable
          /\ releases' = [releases EXCEPT ![i].uncollectable = TRUE]
    /\ count.requests < MaxRequests
    /\ count' = [count EXCEPT !.requests = @ + 1]
    /\ UNCHANGED <<patches, building, at, pending, snapshot, now, gc>>

\* A client installs a release and is about to report it ...
Install(c, v) ==
    /\ v \in Released
    /\ at' = [at EXCEPT ![c] = v]
    /\ pending' = pending \cup {c}
    /\ count.installs < MaxInstalls
    /\ count' = [count EXCEPT !.installs = @ + 1]
    /\ UNCHANGED <<releases, patches, building, snapshot, now, gc>>

\* ... the one the operator names or, when it watches, the latest: also when it
\* has none yet.
Watch(c) ==
    /\ releases # <<>>
    /\ Install(c, Latest)

\* The report replaces the row of the client; a report that is lost never comes.
RecordClientSoftwareState(c) ==
    /\ c \in pending
    /\ pending' = pending \ {c}
    /\ snapshot' = [snapshot EXCEPT ![c] = [rel |-> at[c], at |-> now]]
    /\ gc' = [gc EXCEPT !.steady = @ \ {c}]
    /\ UNCHANGED <<releases, patches, building, at, now, count>>

Tick ==
    /\ now < MaxTime
    /\ now' = now + 1
    /\ UNCHANGED <<releases, patches, building, at, pending, snapshot, gc, count>>

----------------------------------------------------------------------------
(* The GC *)

Recent(time) == time + Window >= now

\* A faulty variant: a client that has not reported for long is counted, and
\* the others are not.
CountLostUsers(v) ==
    Cardinality({c \in Clients : snapshot[c].rel = v /\ ~Recent(snapshot[c].at)})

CountUsersAtRelease(v) ==
    Cardinality({c \in Clients : snapshot[c].rel = v /\ Recent(snapshot[c].at)})

BeginGc ==
    /\ gc.pc = "idle"
    /\ \E v \in HighestSemver(Released) :
          gc' = [NoGc EXCEPT
                    !.pc = "count", !.todo = releases, !.latest = v, !.steady = Clients,
                    !.pinned = {r.version : r \in {r \in Range(releases) : r.uncollectable}}]
    /\ count.runs < MaxRuns
    /\ count' = [count EXCEPT !.runs = @ + 1]
    /\ UNCHANGED <<releases, patches, building, at, pending, snapshot, now>>

\* The rows as they were listed, each with the count as it is now.
CountNext ==
    /\ gc.pc = "count" /\ gc.todo # <<>>
    /\ LET r == Head(gc.todo)
           candidate == /\ ~r.uncollectable
                        /\ r.version # gc.latest
                        /\ r.published_at + MinAge <= now
                        /\ CountUsersAtRelease(r.version) <= MinUserCount
       IN  gc' = [gc EXCEPT !.todo = Tail(@),
                            !.candidates = IF candidate THEN Append(@, r.version) ELSE @]
    /\ UNCHANGED <<releases, patches, building, at, pending, snapshot, now, count>>

\* With ensure_reachability, every row of the snapshot, however old; without,
\* the drops come next, or nothing in a dry run.
ListClientSoftwareStates ==
    /\ gc.pc = "count" /\ gc.todo = <<>>
    /\ gc' = [gc EXCEPT !.pc = "target",
                        !.latest = 0,
                        !.positions = {snapshot[c].rel : c \in Clients} \ {0}]
    /\ UNCHANGED <<releases, patches, building, at, pending, snapshot, now, count>>

SkipPlan ==
    /\ gc.pc = "count" /\ gc.todo = <<>>
    /\ gc' \in {[gc EXCEPT !.pc = "drop", !.latest = 0], NoGc}
    /\ UNCHANGED <<releases, patches, building, at, pending, snapshot, now, count>>

Drops == Range(gc.candidates)

\* The plan lists the releases again: a publish in between counts.
ChooseTarget ==
    /\ gc.pc = "target"
    /\ \E v \in HighestSemver(Released \ Drops) :
          gc' = [gc EXCEPT !.pc = "plan", !.target = v]
    /\ UNCHANGED <<releases, patches, building, at, pending, snapshot, now, count>>

\* A faulty variant: a chain in the graph as it is now will do.
FallsBackToday(v) == ShortestPatchPath(Graph(Joined(patches)), v, gc.target).nodes = {}

\* %classify-client: has a client on v only the whole blob left?  Not when its
\* cheapest chain keeps clear of the drops, nor when another one does.
FallsBack(v) ==
    LET before == ShortestPatchPath(Graph(Joined(patches)), v, gc.target).nodes
        after == ShortestPatchPath(Graph(Without(Joined(patches), Drops)), v, gc.target).nodes
    IN  ~(before # {} /\ before \cap Drops = {}) /\ after = {}

\* With no target there is none to build, and the drops go on.
EdgesToBuild ==
    IF gc.target = 0 THEN {}
    ELSE {<<v, gc.target>> :
             v \in {v \in gc.positions \ ({gc.target} \cup Drops) : FallsBack(v)}}

\* Too many edges end the run, unless it allows the blob as a fallback; then
\* none is built before the drops.  A dry run ends here too.
ComputePlan ==
    /\ gc.pc = "plan"
    /\ LET feasible == Cardinality(EdgesToBuild) <= MaxBuiltEdges
       IN  \/ feasible /\ gc' = [gc EXCEPT !.edges = EdgesToBuild, !.pc = "list"]
           \/ gc' = [gc EXCEPT !.pc = "drop", !.positions = {}, !.target = 0]
           \/ gc' = NoGc
    /\ UNCHANGED <<releases, patches, building, at, pending, snapshot, now, count>>

\* execute-reachability-builds takes the software's name from the first drop:
\* without one, no release is known to it.
ListAgain ==
    /\ gc.pc = "list"
    /\ gc' = [gc EXCEPT !.pc = "build",
                        !.known = IF gc.candidates = <<>> THEN {} ELSE Released]
    /\ UNCHANGED <<releases, patches, building, at, pending, snapshot, now, count>>

BuildEdge(e) ==
    /\ gc.pc = "build" /\ e \in gc.edges
    /\ {e[1], e[2]} \subseteq gc.known
    /\ StorePatch(e)
    /\ gc' = [gc EXCEPT !.edges = @ \ {e}, !.evicted = EvictedSince(e)]
    /\ UNCHANGED <<releases, building, at, pending, snapshot, now, count>>

\* A release that is not known, or a build that fails, ends the run.
BuildEdgeFails(e) ==
    /\ gc.pc = "build" /\ e \in gc.edges
    /\ gc' = NoGc
    /\ UNCHANGED <<releases, patches, building, at, pending, snapshot, now, count>>

AllBuilt ==
    /\ gc.pc = "build" /\ gc.edges = {}
    /\ gc' = [gc EXCEPT !.pc = "drop", !.known = {}]
    /\ UNCHANGED <<releases, patches, building, at, pending, snapshot, now, count>>

\* drop-release, candidate by candidate: the row goes, every patch from or to
\* the release, and its patch jobs; a build that has begun goes on.
DropNext ==
    /\ gc.pc = "drop" /\ gc.pruned < Len(gc.candidates)
    /\ LET v == gc.candidates[gc.pruned + 1]
       IN  /\ \E i \in DOMAIN releases :
                 releases[i].version = v /\ releases' = RemoveAt(releases, i)
           /\ patches' = Without(patches, {v})
           /\ \E begun \in SUBSET (building \ Without(building, {v})) :
                 building' = Without(building, {v}) \cup begun
    /\ gc' = [gc EXCEPT !.pruned = @ + 1]
    /\ UNCHANGED <<at, pending, snapshot, now, count>>

EndGc ==
    /\ gc.pc = "drop" /\ gc.pruned = Len(gc.candidates)
    /\ gc' = NoGc
    /\ UNCHANGED <<releases, patches, building, at, pending, snapshot, now, count>>

----------------------------------------------------------------------------
Next ==
    \/ \E v \in Versions : PublishRelease(v) \/ MarkUncollectable(v)
    \/ \E e \in Edges : ResolveOrBuildUpgradePatch(e) \/ InsertPatch(e) \/ BuildFails(e)
    \/ \E c \in Clients :
          \/ \E v \in Versions : Install(c, v)
          \/ Watch(c)
          \/ RecordClientSoftwareState(c)
    \/ Tick
    \/ BeginGc
    \/ CountNext \/ ListClientSoftwareStates \/ SkipPlan
    \/ ChooseTarget \/ ComputePlan
    \/ ListAgain \/ (\E e \in Edges : BuildEdge(e) \/ BuildEdgeFails(e)) \/ AllBuilt
    \/ DropNext \/ EndGc

Spec == Init /\ [][Next]_vars

----------------------------------------------------------------------------
(* Properties *)

\* Sequences of releases in which none comes twice.
Chains == UNION {{s \in [1..n -> Versions] : \A i, j \in 1..n : s[i] = s[j] => i = j} :
                    n \in 1..Cardinality(Versions)}

Leads(graph, s, from, to) ==
    /\ s[1] = from /\ s[Len(s)] = to
    /\ \A i \in 2..Len(s) : <<s[i - 1], s[i]>> \in DOMAIN graph

\* The sizes of the patches along a chain, added up.
ChainCost(graph, s) ==
    LET sum[i \in 1..Len(s)] == IF i = 1 THEN 0 ELSE sum[i - 1] + graph[<<s[i - 1], s[i]>>]
    IN  sum[Len(s)]

\* The costs of the chains of patches from one release to another that visit
\* no release twice: what the search is meant to take the least of.
ChainCosts(graph, from, to) ==
    {ChainCost(graph, s) : s \in {s \in Chains : Leads(graph, s, from, to)}}

\* When a plan is made, shortest-patch-path finds a chain within the cap when
\* there is one, and none cheaper, whatever the sizes of the patches that are
\* there, with the drops and without.
SearchIsCheapest ==
    gc.pc = "plan" =>
        \A edges \in {Joined(patches), Without(Joined(patches), Drops)} : \A graph \in [edges -> Sizes] :
            \A from \in gc.positions \ {gc.target} :
                LET found == ShortestPatchPath(graph, from, gc.target)
                    costs == {n \in ChainCosts(graph, from, gc.target) : n <= Cap}
                IN  IF costs = {} THEN found.nodes = {}
                    ELSE found.cost \in costs /\ \A n \in costs : found.cost <= n

\* The patches that led to a release when the plan was made, or were built
\* since, and of which drop-release takes none: some lost their row to another
\* patch of the same hash.
PatchesKept == Without(Joined(patches \cup gc.evicted), Drops)

\* While a GC that ensured reachability drops releases, each client it found on
\* a release it keeps can still be brought to the target: by a chain within
\* the cap or by the patch that the plan had built, unless one of these patches
\* was replaced by the patch of other releases.  No target, no promise.
PlanKeepsChains ==
    Planned /\ gc.pc = "drop" =>
        \A v \in gc.positions \ ({gc.target} \cup Drops) :
            \/ \E n \in ChainCosts(Graph(PatchesKept), v, gc.target) : n <= Cap
            \/ <<v, gc.target>> \in patches \cup gc.evicted

SteadyUsers(v) == {c \in gc.steady : snapshot[c].rel = v /\ Recent(snapshot[c].at)}
FewSteadyUsers(v) == Cardinality(SteadyUsers(v)) <= MinUserCount

\* A release that goes was not pinned when the GC began, and no more than
\* min_user_count clients were on it all the time since, as far as the server
\* knows of them and within the window.
DropsAreUnused ==
    [][\A v \in Released \ Released' : v \notin gc.pinned /\ FewSteadyUsers(v)]_vars

\* No release whose version parses is dropped unless one at least as high is
\* left, whatever was published meanwhile and in whatever order: the GC never
\* lowers the highest version.  Of versions that do not parse it spares none.
LatestIsKept ==
    [][\A v \in Released \ Released' :
          Rank[v] # 0 => \E w \in Released' : Rank[w] >= Rank[v]]_vars

\* A client that watches follows the latest release and never goes back to an
\* older version: what /releases/latest was changed for in 1.1.0.
WatchNeverDowngrades ==
    [][\A c \in Clients : at[c] # 0 /\ Watch(c) => Rank[at'[c]] >= Rank[at[c]]]_vars
==============================================================================
