# delta-ota in TLA+

delta-ota distributes software releases over the air: a server (Common Lisp,
`server/`) stores releases as content-addressed blobs, builds bsdiff patches
between them and serves signed manifests; a client (Go, `client/`) downloads a
blob or a patch, unpacks it next to the earlier versions and flips a link.
This directory holds a TLA+ model of the parts where the order of events
matters, the TLC configurations that check it, and TLAPS proofs about it.

    tlc -workers 2 -config ClientInstall.cfg MCClientInstall
    tlapm ClientInstallProofs.tla

and likewise with each cfg and each `...Proofs` module.

`PROJECT.json` maps every definition to the source lines it stands for and
lists the runs, the theorems, the hazards and the mutants that show each
property can fail. All paths below are relative to the repository.

## The system

| Component | State it keeps | Operations | Talks to |
|---|---|---|---|
| client install (`client/libota`, `internal/state`, `internal/platform`, `internal/listing`) | `$OTA_HOME/<software>/`: `blobs/`, `distribution-<v>/`, links `current` and `previous` (symlink or `.path` shim), `state.json` | Install (upgrade, watch, doctor --recover), Revert, prune | the server over HTTP; the launcher through the links |
| client download (`internal/transport`) | `<dst>.part` | resumable GET with Range, hash check, rename | server's file routes |
| publish (`server/src/http/server.lisp`) | catalogue row of the release, blob, manifest `.json` and `.sig` | PUT release: store blob, insert row, fan in patches, write the manifest, fan out notifications | patch queue, outbox |
| patch queue and pool (`catalogue/db.lisp`, `workers/pool.lisp`, `workers/patcher.lisp`) | tables `patch_jobs` and `patches`, files `patches/<sha>` | enqueue, claim, build, complete, fail, reset at boot | publishers poll the queue |
| GC (`workers/operations.lisp`, `workers/reachability.lisp`) | none of its own | choose candidates, plan and build edges that keep the survivors reachable, drop releases | everything publish wrote; user counts |
| outbox (`workers/notifications.lisp`) | table `notifications_outbox` | fan-out, claim, POST, mark, back to the queue | the operator's webhook |
| registry (`client_software_state`, `client_emails`) | one row per client and software; one address per client | state report, address | GC counts users, the outbox reads both |
| access (`install_tokens`, `clients`) | tokens and bearers with classifications | mint, claim, exchange, check | every authenticated route |
| upgrade patches on demand, reverse patches | patches | resolve or build | clients, admin |
| signing key and manifests (`http/server.lisp`, `manifest/`, `workers/operations.lisp`) | the key pair of the process, `manifests/<s>/<v>.json` and `.sig` | sign at publish, sign again (`resign`), serve the text in the body and the signature in a header | publish writes both files, GC deletes them |
| client trust, patches and extraction (`client/libota`, `internal/manifest`, `internal/patcher`, `internal/tarx`, `internal/verify`) | the pinned key in `state.json`, the saved blob, the tree | trust gate, signature check, patch or full blob, extraction, `verify`, `doctor` | manifests and files of the server |
| verify-storage, stats, rate limiter, configuration, admin CLI, tar writer | little or none | reports, parsing | |

What is hard in it: each component works through a sequence of file-system
effects and catalogue calls without a transaction around them, and a process
may be killed between any two; handlers, workers and the GC of several server
processes interleave on one data directory; the client's commands each start
from whatever the last interrupted one left; downloads resume from files that
may have lost their tail; the webhook's answer can be lost.

What makes each component correct:

- *client install*: a link is never ambiguous; the two links are never both lost;
  the trees `state.json` names survive all but their own reinstall; the next install
  repairs whatever was interrupted; the server never hears of a version that is not
  saved; prune never takes what is in use.
- *download*: what is renamed has the promised hash; a client that keeps trying
  gets the file.
- *publish, queue, pool, GC*: a job is run by one worker; every job and every
  publish ends; a patch row joins existing releases; a done job has its patch;
  a manifest lists patches that were built, matches its row, and is not
  replaced; a row has its blob.
- *outbox*: a row is posted by one worker; the recorded outcome is what
  happened, and final; attempts are bounded; a duplicate has a cause; every
  notification ends.
- *access*: a token makes one client; workstations are distinct clients and stay
  the same ones; only a client that can speak again is counted or written to;
  nobody installs what was never published for it.
- *registry and GC's choice*: no release is dropped that the counts say is used;
  the highest version stays; the plan keeps a way to its target.
- *signed manifests, trust and extraction*: the two files of a manifest fit each
  other; a pinned key is replaced only by one the user trusts; what is installed
  is what was published; the complaints of `verify` have known causes; an agent
  that watches gets the latest release.

The list of hazards with their source lines is in `PROJECT.json`.

## The modules

### ClientInstall

One software's directory, one agent process at a time. A variable per kind of
file (`blobs`, `dist`, `current`, `previous`, `state`), `snapshot` for the
server's row about this client, and the running command's locals (`pc`, `op`,
`target`, `mem`, `todo`). Each file-system effect of Install
(`libota.go:83-251`), Revert and prune is an action; `Abort` ends the command
after any of them, as an error return, a kill or a power cut does. A link is a
record of its two forms, because `SwapCurrentToPrevious` and `SetCurrent`
handle the symlink and the shim with separate calls, and either may be the one
that works. A distribution is absent, partial or whole. `RemoveDist` and `MakeDist` are
the two calls at `libota.go:191-192`: between them the directory is absent, or still
there when RemoveAll failed, whose error is ignored; a partial one is what RemoveAll
or Extract leaves when interrupted. The history variable `torn` holds the versions
whose tree an install began to remove and none has extracted since: `CommittedKept`
says that of the versions `state.json` names only these can be other than whole.
Version strings are model values.
`RetentionKeepsBase` says in which cases `pruneOldArtefacts` leaves the blob that
the next patch starts from.

### Download

`downloadHashed` (`transport.go:411-522`): open the `.part` file, find a safe
resume point by scanning its tail for zeros, send the Range request, write what
comes, hash, rename. Bytes are values of a small alphabet with zero as the byte
that a file system leaves in a lost page. The server's Range handling
(`server.lisp:767-889`) is an action per answer. `StreamEndsEarly` is a stream cut
short that the client cannot tell from a complete one: the server's
`unwind-protect` closes the connection in order. `Republish` gives the version
another content between two attempts, so that the `.part` file may be the start of
something else; `HashPrefix` is the hash of what is resumed from. Agents share the
file system through inodes, so that a rename under an open file behaves as POSIX
says; the run has one agent.

### Publish

The publish handler with a patch pool (`%publish-finalize-and-emit`,
`%fan-in-via-pool`, `%tail-patch-jobs`), the queue, the workers, boot, and the
GC's `drop-release` file by file. A catalogue call is one step (it holds the
process's lock and one SQLite transaction), a file operation is one step. Any
server process may be killed between two steps. The SHA-256 of a patch is the
pair of blobs it was made from, because bsdiff is deterministic; so two edges
between equal blobs have one hash, which `patches` has as its primary key. The
GC's choice of candidates is arbitrary, except that it spares a latest release:
properties of Publish must not depend on who uses what. `count.lost` is history: the
jobs whose failure could not be recorded (`pool.lisp:159-168`) and that no boot has
put back since.

### Outbox

`enqueue-publish-notifications` for publish and announce, the table
`notifications_outbox`, the worker's `%notif-dispatch` with its outcomes, the
retry counting and the reset at boot. `webhook` is a history variable: what the
operator's webhook took or refused, whether or not the server learned of it.

### WorkQueue

What the two durable queues of the server promise, without their tables: items are
taken in the order in which they came, by one worker each; an item that is finished
is never taken again and keeps its outcome; the death of workers costs no item,
because what they held, and nothing else, goes back to the queue. Publish and Outbox
each instantiate it (`Queue == INSTANCE WorkQueue WITH ...`): the items are the rows
in the order of their insertion, with pending mapped to waiting, running to taken
and the outcomes to themselves; a worker holds the row it has claimed and not yet
marked. Both are checked to implement it (`JobsAreAQueue`, `OutboxIsAQueue`) with
one server process. With two they do not: a second server's boot resets rows that
live workers hold.

### Fleet

`gc-software` as it chooses what to drop, call by call: the listing, a count per
release, the snapshot, the plan of `reachability.lisp` with its search
(`ShortestPatchPath` follows the code's Dijkstra step by step), the builds, the
drops. Beside it run publishes in any version order, pins, and clients that
install, watch and report late or never. Patches are built beside it too: a publish
and a request on demand (`ResolveOrBuildUpgradePatch`) put an edge into `building`,
and some steps later `InsertPatch` inserts it or `BuildFails` gives up; a drop may
come in between, and the row then dangles, as it does in the code. The search
therefore looks at the rows `Joined` with the releases they lead to, as
`list-patches-for-software` does. `StorePatch` is INSERT OR REPLACE on the hash:
`Evicted` are the edges that lose their row to another between equal blobs.

Versions are ordered by `Rank`: the same for versions that `semver<` takes to be
equal, 0 for those that `parse-semver` rejects. `HighestSemver` is the set of the
answers `highest-semver-release` may give, {0} when no version parses; the run then
spares no latest, or has no target. The knobs of a GC request are chosen where the
run looks at them, which gives the same behaviours with fewer states. `gc.steady`,
`gc.pinned` and `gc.evicted` are history: who has not reported and what was pinned
since the run began, and which edges lost their row since its plan. It composes at
the level of the catalogue what Publish (publish, drop) and ClientInstall (install,
report) have in steps.

### Access

How a workstation becomes a client. An operator mints tokens, `handle-exchange-token`
claims one and creates the client's row in two catalogue calls (`ClaimInstallToken`,
`CreateClient`) and then answers (`Reply`); it runs on when the agent has given up,
and an error or a crash may end it between any two. The agent's Install is cut down
to what concerns its identity: it exchanges a token only when `state.json` has no
bearer, resolves the version, fetches the manifest, saves bearer and version
together (`libota.go:211-228`) and reports. What a request may see depends on the
classifications of its bearer's row at that moment. The clock is abstracted to
`ExpireInstallToken`, which may come at any time while a token is free. A bearer is
the number of its client's row. As in ClientInstall, one command at a time runs on
a client's directory; two first installs at once, each with its own token, would
save one bearer over the other.

### Delivery

From the publisher's archive to the client's tree, with what the other modules leave
out: contents, signatures and keys. On the server, a publish writes the text of a
manifest (`WriteJson`) and then its signature (`WriteSig`), and again when it has
patches to list (`FanIn`); `ota-server resign` is a process of its own that reads
and signs file by file; a new key is loaded by a restart. The client asks for a
manifest, whose signature (`GetHeaders`) and text (`GetBody`) are read by the server
one after the other, passes `checkTrust` and the signature check, picks a patch from
the version it has or the blob, removes the old tree, extracts entry by entry,
flips, saves and prunes. A transfer that is cut off (`TransferStops`) leaves a
`.part` file, of which the name, the length and the content it began as count: one
that is as long as what is asked for is answered 416 for ever (`Stuck`), a shorter
one of another content ends in a hash mismatch and is removed (`FailWithout`).
`RemoveDist` may leave any files of the old tree behind, as the code ignores the
error; what is left is history in `run.left`, and the extraction writes over it.
`Verify` is `ota-agent verify` as the set of checks that fail, `Recover` is `doctor
--recover`. A signature is the pair of a key and the text signed; a patch is the
pair of blobs it was made from and applies to the first only; an archive is a
sequence of entries, of which `Extract` skips those that are no regular file and
lets a later one replace an earlier one of the same name; at an unsafe name it stops
(`ExtractRefuses`). `published`, `spoiled` and `home.torn` are history.
`InstalledIsPublished` says that the tree an install records is its archive's, over
nothing but what this run's RemoveAll failed on. `AlarmsAreReal` names the causes of
five checks of `verify`: blob hash, manifest fetch, manifest signature, distribution
directory and current link; it says nothing of "pubkey trusted", which is by
definition about the user's own list, nor of a client without a current version, and
it is about releases that anyone may see, as `verify` sends no bearer.
`SignedUnlessSpoiled` is about the two files.

It composes, in fewer steps, what Publish, ClientInstall and Download have in
detail; its own detail is the order of the manifest's writes and reads, and what the
trees hold. A file cut in half is not represented: a tree has a file or not.
`BeginResign` comes only under another key than the first, as the last step of a
rotation; a restart with the same key matters only when it cuts a handler off, and
is left out otherwise. `:if-exists :supersede` makes a file appear when it is
complete; a torn one would be a failing signature too.

MC modules give the constants their values. Each component has its proofs in a
module of its own (`ClientInstallProofs`, `DownloadProofs` and so on); DataLemmas has
the facts about sequences and numbers that several of them need.

## The runs

| Run | Instance | Shows |
|---|---|---|
| ClientInstall | 3 versions, history of 4, prune depths 0 and 1 | all safety properties of the client's files |
| Download | one agent; a tar of 5 bytes, a shorter one, two patches of 3; a scan window of 2, 5 faults (power cuts, streams cut short, new contents), fairness | what is renamed is the file of the manifest; it arrives unless the `.part` is as long already |
| Publish | one server, two publishers, two workers, two versions, one with two possible contents, 2 crashes, 2 errors, a GC | `patch_jobs` implements WorkQueue; patches and what manifests list |
| PublishShared | two servers, two platforms, three versions, a shared blob, crash, two errors, GC, fairness | rows, blobs, manifests; every job and publish ends, but for a lost failure |
| PublishRetry | a publish, a crash, a retry | *violation*: 200 for a release with no manifest |
| PublishGcBlob | GC in a running server | *violation*: a row whose blob is gone |
| Fleet | a client, three releases in any order: one version that does not parse, two that compare equal, two with the same blob; dear and cheap patches; a pin, a patch on demand or a failed build; a clock of one tick | what GC may drop; one row per version and per patch hash; the highest version stays; what the plan promises; the search finds the cheapest chain in every graph that a plan meets |
| FleetDowngrade | two clients, three releases with versions in order | *violation*: watch goes back to an older version |
| Outbox | one client, two releases, two workers, a crash, an error, a lost answer, an announce, a client's report, fairness | the table implements WorkQueue; outcomes, attempts, duplicates; every notification ends |
| Delivery | two versions, one with two contents, archives with a link, a repeated and an unsafe name; two keys; 3 publishes, 2 of drop, restart, resign, change of trust, recover, failing RemoveAll, abort; contents of length 1 and 2; fairness of the client | what is installed was published; the pin; the signatures; `verify`; upgrades arrive unless a named reason stands against it |
| DeliveryPatchGone | same | *violation*: a patch that is gone is not made up for by the full blob |
| Access | two agents, two tokens, tokens and releases for everybody or for testers, a version that goes and comes back, any step cut off | one client per token, distinct and lasting identities, no ghosts among the users, nothing installed that was never visible |

### Bounds

Every counter that the code leaves unbounded is bounded by a constant whose name
starts with `Max`; a bound stops new requests, crashes or errors, never a step of
the code. They are large enough for the interesting cases: a history of 4 over 3
versions lets a version come back after another one (reinstall, revert, upgrade
again), which is what confuses retention and prune; a `.part` file of up to 5 bytes
with a window of 2 has a tail inside the window, one that straddles it and one
beyond it; two publishers and two workers are enough for every conflict, since each
conflict in the code is between two parties, and two crashes interrupt a recovery
from a crash; `max_attempts` is 2 so that there is a first, a repeated and a last
attempt. In Fleet three releases are the fewest with a chain that is cheaper than a
direct patch, one tick makes a release old enough to go and a report too old to
count, and three publishes are all releases once, or two of them and one that comes
back. One client is enough, since no property but `PlanKeepsChains` relates two of
them; the theorems are for any number. Three larger instances were checked besides,
without a violation: two clients on two releases with two GC runs (1.1 million
states), one client with two installs (5.5 million), and, started with three
releases of which two clients run the first two, whose blobs are equal, the case
where the GC's own second build evicts its first (0.2 million); without the
exception for evicted patches `PlanKeepsChains` is violated there. In Access
publishes need no bound: a release that comes back is as new as one that was never
there. In Delivery three publishes are two versions and one of them anew with
another content, and two incidents are enough for a rotation with its resign, or for
a drop and an interrupted install; lengths 1 and 2 give a `.part` that is resumed,
one that is complete, and one that is too long for the content that came after it; a
patch built on another content of the version the client has, the second part of
`PatchUnusable`, needs one publish more than the bounds allow. Two agents and two
tokens let two exchanges overlap, on one token and on two, and one agent hold two
tokens. Symmetry is declared on interchangeable values in runs without liveness
properties only.

### Fairness

Only the code's own scheduling is assumed fair, and weakly: a running agent that
is retried goes on (`watch`, the resume loop, or the user), a server thread that
can step does, systemd restarts a dead server (`Restart=on-failure`,
`server/etc/ota-server.service`), and a POST ends because its timeouts are set.
Nothing forces a fault, a crash, a lost answer or a new request to happen or to
stop except its bound: liveness is about finitely many faults. In Delivery
only the client's steps are fair (`watch` ticks for ever, a command that has begun
goes on); the server's may stop anywhere. In PublishShared
two catalogue errors are allowed, so that a job may fail and then `fail-patch-job`
itself, which is only logged (`pool.lisp:159-168`): the job stays running and its
publisher waits until some process boots. `JobsFinish` and `PublishEnds` name that
exception (`count.lost`) and no other.

### What the documents say and the code does not do

The *violation* runs above each check one sentence of the repository's documents
that the code does not keep; `PROJECT.json` quotes it. Other disagreements met
while modelling, which the same modules exhibit but which have no run of their
own:

- `docs/ota-specifications.org:624`: "Failure at any state leaves `current`
  pointing at the previous working release." `FlipCurrent` (`state.go:127-137`)
  renames `current` away first; killed in between, there is none. What does hold
  is `LinksUsable`.
- `docs/delta-ota-user-manual.org:446`: "the shim never sees a half-installed
  tree". A reinstall of the current version removes it in place (`libota.go:191`); cut
  off there, the directory is absent or partial, and a revert to a previous one left
  like that flips to it.
- RemoveAll's error is ignored (`libota.go:191`): files of the old tree that cannot be
  removed and that the new archive does not name stay in the new distribution.
- `docs/ota-specifications.org:628-636` keeps the blobs of current and previous;
  `pruneOldArtefacts` (`libota.go:293`) keeps those of the last two entries of
  the history, in which a version can occur twice: installing v1, v2 and v1 again
  with `doctor --recover` deletes the blob of v1, which is current; v1, v2, a revert
  and v3 deletes the one of `previous`. `RetentionKeepsBase` has the exact condition.
- `docs/operations.org:540` promises that prune never touches current and previous.
  It reads both from `state.json` (`listing.go:303`); after a run killed between the
  flip and the save it deletes the directory that the link `current` names.
- ADR-0008: "the final SHA-256 of the bytes on disk MUST still match". The hash is
  of the bytes one agent has read or received, not of the file: with two agents of
  one user writing to a `.part` (`transport.go:478`), one can rename a file that is
  not the blob. `Integrity` is checked for one agent.
- ADR-0007: a restart in the middle of a fan-in "does not lose work". The jobs
  are run again, but the manifest that should list them is not rewritten.
- ADR-0007 and ADR-0012 on two servers on one catalogue: a second server's start
  resets the rows that a live worker of the first is working on
  (`db.lisp:907`, `db.lisp:1063`), so that both run them. `JobsAreAQueue` and
  `OutboxIsAQueue` are checked for one server.
- `insert-patch` is INSERT OR REPLACE on a table keyed by the hash: a second
  edge between equal blobs evicts the first from `patches`. `DoneJobsHaveEdges`
  is checked for distinct contents. In Fleet a publish, a request or the GC's own
  build may take away so the patch that a plan relied on: with two kept releases of
  equal blobs, the second edge that is built to the target evicts the first.
  `PlanKeepsChains` excepts the evicted patches.
- ADR-0008 on downloads: "the resume loop handles arbitrary numbers". A patch,
  unlike a tar, may end in a byte that is not zero; its complete `.part`, left by a
  kill before the rename, is then asked for from its end, and every retry is
  answered 416. So is every retry when the `.part` was begun for a longer content
  that the version had before. `DownloadedUnlessComplete` says that a `.part` as
  long as the file or longer is the only exception, and `UpgradesArrive` has it as
  `Wedged`.
- `docs/operations.org:615`: "GC is idempotent and safe to schedule from cron".
  When nothing is to be dropped, `execute-reachability-builds` derives the
  software's name from an empty list and fails on the first edge of the plan
  (`reachability.lisp:258-276`): a client whose only patch is dearer than the cap
  is enough. And the plan reads the snapshot without the window that the counts
  have, so that a client last heard of on a release that GC has dropped since
  makes every later run fail until it reports again. In Fleet `BuildEdgeFails` is
  then the only step.
- ADR-0011 counts a chain of patches as a way to the target. The client follows
  none: it takes a patch only from its own version, listed in the target's
  manifest (`pickPatch`, `libota.go:263`), where a patch built by GC or on demand
  is not listed. `PlanKeepsChains` is about what the plan promises, not about what
  the client downloads.
- When no version of a software parses, `docs/operations.org:581` calls the newest
  the latest; and `docs/operations.org:595` says that the GC drops releases that are
  "not the latest in their software". The GC spares none then, and a plan has no
  target, so that nothing is built and all candidates are dropped. `LatestIsKept`
  and `PlanKeepsChains` are about versions that parse and plans with a target.
- With two platforms, `highest-semver-release` and the plan's target ignore the
  platform: a lower version that is the latest of its own platform is a candidate,
  and the plan may build a patch between platforms. Fleet has one platform.
- A release dropped by GC leaves its patches listed in the manifests of later
  releases; republishing it, as `docs/operations.org:1034` advises, does not
  bring them back.
- A manifest's path has no platform (`server.lisp:931`): the same version on a
  second platform overwrites it. PublishShared gives each platform versions of
  its own.
- ADR-0012: the "outbox pattern guarantees at-least-once delivery". The rows of a
  publish are inserted at its end, not in the transaction of its release
  (`server.lisp:990`), and a retry, answered from the row, inserts none: a
  publisher killed in between leaves clients that are never told.
- `docs/delta-ota-user-manual.org:66-68`: rotating the bearer "requires re-running
  install with a fresh install token". While `state.json` has a bearer, Install
  ignores the token it is given (`libota.go:109-111`), which is what
  `IdentityIsKept` says; only removing the state rotates it.
- `docs/delta-ota-user-manual.org:341`: when an initial install drops, "the next
  =install= invocation reuses the partial bytes". The bearer is saved at the end of
  the install only (`libota.go:226`), and by then the token is spent: the same
  command again is refused with 401 (`RefuseInstallToken`), and needs a new token.
- The user manual calls the rotation of the signing key free of downtime. From the
  restart with the new key until `resign` reaches a manifest, its signature does not
  verify, and a client that has pinned the old key refuses the new one until its
  user lists it as trusted; the flag `--trust-new-key` of the documents does not
  exist. `PinChangesAreSanctioned` and `UpgradesArrive` say what holds instead.
- `docs/ota-implementation-plan.org:616` has `verify` hash the installed files. It
  looks only whether the directory is there and is not empty. It also ignores the
  pin, sends no bearer, and takes the current version from `state.json` without
  comparing it with the link.
- `reorderFlags` (`client/agent/main.go:94`) takes the word after a boolean flag for
  its value, so that the flags after it are not read: `install --latest foo --server
  URL` ignores the server.
- The shared library (`cmd/libota-shared/main.go`) keeps one last error for all
  threads of the host program, and its comment names JSON keys (`server_url`,
  `ota_home`) that do not match the untagged fields of `Config`.
- `announce` tells every client on another release, not only those on an older
  one (`notifications.lisp:293` against `server.lisp:1833`).
- The race of PublishGcBlob has a twin: a worker, or a request on demand
  (`server.lisp:1915-1958`), that is building a patch from a release while GC drops it
  inserts a dangling row, in Publish and in Fleet. `NoDanglingPatches` and
  `RowHasBlob` are therefore checked with GC running while the servers are down
  (`ota-server gc`); the endpoint `POST /v1/admin/software/<s>/gc` runs it in a
  live server.

## The proofs

`ClientInstallProofs` proves, for every finite or infinite set of versions and
every bound on the history, that `Spec` implies `TypeOK`, `LinksUsable`,
`CommittedKept`, `InstallRepairs`, `SnapshotNeverAhead`, `DistLossIsDeliberate` and
`RetentionKeepsBase`. The assumptions are those on the constants, named in
ClientInstall. None of the invariants is inductive alone: what a command will do
depends on what it loaded and on how far it came. `IndInv` adds

- `PcMatchesOp`: which steps belong to which command;
- `MemIsState`: the State in memory is the one on disk until the command saves;
- `RemovalBegun`: between removal and extraction the target is `torn`;
- `TargetWhole`: from the flip on, the target's tree is whole;
- `FlipProgress`: what the links are between the steps of a flip;
- `Saved`: after the save, state.json names the target;
- `NamedInHistory`: state.json names only versions of its history, which is why
  a report is never ahead;
- `TodoUnnamed`: prune's list has nothing that state.json names.

The lemmas go action by action for each part; the theorems follow with PTL.
`RetentionKeepsBase` needs `RetentionInv` besides: the blob of the version being
installed is stored from the transfer to the flip (`TargetStored`), and after a
save the last two entries of a history without repetition have theirs
(`LastTwoKept`).

`FleetProofs` proves, for every finite set of clients, every finite set of versions
with any ranks, all sizes and hashes of the patches and all values of the knobs, that
`Spec` implies `TypeOK`, `DropsAreUnused`, `LatestIsKept`, `SearchIsCheapest` and
`PlanKeepsChains`. The two action properties rest on `GcInv`, which carries what the
run established at its first call to its last:

- `CountingOK`: the rows still to be counted say correctly what was pinned, and
  if any of them or of the candidates parses, the latest found at the start is a
  release, no candidate, and at least as high; a publish in between only adds rows;
- `SparedDrops`: what was counted of a candidate holds until it is dropped,
  because reports and the clock only take steady users away;
- `HigherIsLeft`: for each candidate that parses, a release that is no candidate
  is at least as high.

`OnlyCandidatesGo` adds that no other step takes a release. Lemmas on sequences
(what Append, Tail and RemoveAt do to the rows) come first in the module.

`ShortestPathIsShortest` is about shortest-patch-path alone: for every graph whose
patches have a size, every cap, start and goal, a chain it returns is a chain of the
graph without repetition, within the cap and of the cost it states; it returns one if
there is one; and none costs less. The argument is Dijkstra's. `SearchInv` is kept by
each step of the search:

- each release reached has a chain of the cost and through the releases noted for
  it, of which all but the last were visited (`ReachedByChain`);
- a visited release has handed its cost on along every patch that starts there, and
  costs no more than any that is still open (`Settled`). That patches have a size is
  what keeps a visited release from being reached more cheaply later.

The search has stopped after as many steps as there are versions, because until then
each step visits one more. A chain to the goal then has a first release that is not
visited; it is open and costs no more than the chain up to there, so that the nearest
open release, which is not beyond the cap, is the goal. What a chain costs is a
recursive function of it; `CostAlong` and `CostIs` say that it is the last of the
running sums, and `RecursionExists` and `StepwiseInduction` of DataLemmas, stated
about sets instead of operators, do for recursion and induction what the library's
rules cannot do here.

`PlanIsKept` follows the plan to the last drop with `PlanInv`: from the moment it is
made, every release that a client is on and that stays has a chain clear of the
candidates, or its patch, or the patch is on the list to be built (`PlanHolds`), where
a patch that lost its row since counts as there (`gc.evicted`). Beside it
`TargetStays` says that the target is never a candidate, `AllIsBuilt` that nothing is
left to build when the drops begin, `NoTarget` that a run without a plan has none.
`SameCost` carries the cost of a chain over to the catalogue as it changes: patches
come, and only those of candidates go or those that are evicted.

`AccessProofs` proves, for all sets of agents, tokens, versions and
classifications, that `Spec` implies `TypeOK`, `OneClientPerToken`,
`AgentsAreDistinct`, `KnownUsersAreReal`, `InstalledWasVisible` and
`IdentityIsKept`. The one assumption is that the names in use differ. The inductive
invariant `IndInv` adds

- `TokensSpent`: between claim and row one exchange at most has a token, which is
  used and has no row;
- `OneCall`: an agent waits for one exchange, and only without a bearer;
- `OwnBearer`: the bearer a command carries is the saved one, or will be;
- `OneHolder`: a row's number is in one reply, or with one agent;
- `Resolved`: what a claimed token and a resolved version are.

`InstalledWasVisible` needs `FetchedVisible` besides: between the manifest and the
save, what was fetched was published for the bearer of the command, whose
classifications do not change.

`DownloadProofs` proves, for contents of any length, any window and any number of
faults, that `Spec` implies `Integrity`. The hypothesis `OneAgent` is that of the
run; without it the theorem is false, as the section above says. `IndInv` adds
`HashedIsOnDisk`, the reason why the check of the hash is one of the file: what the
hasher was fed is what the `.part` holds, from the request to the rename, although
the file is opened again after the prefix was hashed; and `OpenIsPart`, that the
open file is the `.part` and is written at its end. `SafeResumePoint` is about
`safeResumeSize` itself: it keeps a prefix, drops zeros only, and no more of them
than its window.

`OutboxProofs` proves, for any clients, releases, handlers, workers and bounds, that
`Spec` implies `TypeOK`, `OutcomeIsTrue`, `DuplicatesHaveACause` and
`OutboxIsAQueue`, under `OneProcess`: at most one server process, for the reset at boot
takes the rows of a second one's live workers. `IndInv` adds

- `FanOutsNamed`: a fan-out has its release, and its client when it is about to
  tell one;
- `QueueInv`: a busy worker is in the live process and its row is running, at the
  attempt it believes and in nobody else's hands; a row that may be claimed again has
  attempts left, but for those a crash used up;
- `Reported`: what a worker is about to record is what the webhook did;
- `UniqueRows`: a release, a client and a reason have one row, so that the webhook's
  history of a notification is that of its row;
- `NoSurplus`: the count of `DuplicatesHaveACause`, one lower for a row that is
  still open and whose worker has not just had it taken.

`PublishProofs` proves seven properties of Publish under those of four hypotheses
that each needs; the runs have the same.

| Hypothesis | Why | Theorems that need it |
|---|---|---|
| `Offline`: GC only while no server runs | PublishGcBlob refutes `RowHasBlob` without it | all |
| `OneReleasePerVersion`: no version on two platforms | a drop deletes by the version, which would take the other platform's files | `NoDanglingPatches`, `DoneJobsHaveEdges`, `ListedPatchesBuilt` |
| `DistinctContents`: no blob in two releases | equal blobs have one patch, whose row is replaced | `DoneJobsHaveEdges`, `ListedPatchesBuilt` |
| `OneProcess` | as for Outbox | `JobsAreAQueue`, `ListedPatchesBuilt` |

`TypeOK`, `RowHasBlob` and `ManifestMatchesRow` need the first alone and hold for any
number of servers. The inductive invariant comes in layers, each preserved given
the ones before:

- `BaseInv` (types, rows, blobs, manifests): a publisher's blob stays stored between
  its put and its insert, and its row stays once inserted (`Uploaded`), a drop deletes
  a blob that no row has (`LastUse`), and manifests are filed under their version and
  deleted before the row (`Filed`);
- `GraphInv` (jobs and patches): a job that is not deleted joins releases that
  exist (`JobsJoin`), a worker's job is not deleted (`WorkOnLive`), and a drop has
  removed what it removes in its order (`DropOrder`);
- `EdgeInv`: a job about to be completed has its row (`Inserted`);
- `Holding`, `BuiltFiles`, `DropsOwn`, `ListsOwn`: one worker per job, a file per
  built patch until a drop of its own releases, and a finished job for whatever a
  publisher or a manifest lists.

The refinements of WorkQueue (`OutboxRefinesQueue`, `PatchJobsRefineQueue`) go step by
step: `Init` maps to the empty queue, an insert to `Submit`, a claim to `Take` of the
oldest waiting item, a mark to `Release`, a crash to `Die`, the reset at boot to
`Recover`, the deletion of a release's jobs to `Withdraw`; all else stutters.

`DeliveryProofs` proves for all keys, versions, archives and bounds that `Spec`
implies `PinChangesAreSanctioned`, `TypeOK`, `SignedUnlessSpoiled`,
`InstalledIsPublished` and `AlarmsAreReal`. The hypotheses are the assumptions on the
constants. For the first, `PinInv` is inductive: the home directory has its
fields (`HomeShape`), and the key of a run that is past its checks is one that
`checkTrust` accepts (`KeyAccepted`); the latter is needed because the pin is
written at the save, several steps after the check, and it holds on because nothing
changes pin or trusted keys while a command runs. For the others:

- `Signed`: what a handler is about to sign is what it wrote, and every other pair of
  files fits;
- `Sourced`: every blob that a handler, a manifest, a run or the home directory
  names for a version was published as that version; for a patch this is where
  "applies to one blob only" comes in;
- `Unpacked`: the extraction begins with what the removal left, and from its end to
  the save the tree is the archive's over that;
- `Filled`: a recorded version has files, unless its tree was torn or its archive has
  none;
- `Linked`: it has its link, unless a command was cut off;
- `Fetchable`: what is recorded or being installed can be fetched, unless there was a
  drop.

`Unpacked` needs `ExtractMakesTheTree`: writing the entries one by one, a later one
over an earlier one of its name, makes the tree of the archive over the files that
were there. `Extracted` is a recursive function, and the induction is on the least
number of entries for which the claim fails (`LeastNumber` of DataLemmas), because
the library's induction rules take an operator that the provers here cannot
instantiate. The proof attempt also showed that `AlarmsAreReal` had left out a cause:
an archive without files installs as an empty tree, which `verify` reports.

Each inductive invariant was checked by TLC on the instance of its run before it was
proved. Every invariant and every safety property of a step that a passing run
checks is now stated by a theorem. Not proved, only model-checked: every liveness
property (`DownloadedUnlessComplete`, `JobsFinish`, `PublishEnds`,
`NotificationsEnd`, `UpgradesArrive`: liveness under fairness is out of the prover's
reach); and what the violation runs show.

## What is not modelled

The bytes of manifests, signatures, tar archives and patches: a signature is what it
signs and by which key, a patch what it was made from, an archive a list of entries.
The order of two agents' steps on one client directory: no command takes a lock, and
Download's note above says what follows. fsync: Download's power cut loses the tail
of a `.part` file, not of a renamed blob. The synchronous publish path of a server
without a patch pool, which the production server does not use, and the progress it
streams. Commands that only print (`list`, `show`, the anchors of `doctor`) and the
server's read-only reports (verify-storage, stats). The rate limiter, a token bucket
in one process's wall clock: a request it refuses is one that never came. The tarball
producer, configuration, routing and page rendering, which keep no state. The admin
command line, which only sends requests, and the operators' scripts. The shared
library, which wraps functions modelled elsewhere. The vendored bsdiff, compression
and tar code.

## Plan

1. ClientInstall, Download, Publish, Outbox, Fleet, Access with their runs; the
   client's invariants, the safety of the GC's choice and Access proved. *(done)*
2. Delivery (signatures, trust, contents, verify), WorkQueue with its two
   refinements, new contents and cut streams in Download, retention in
   ClientInstall. *(done)*
3. Proofs: that Outbox and Publish implement WorkQueue; the invariants of Outbox,
   Publish, Download and Delivery; `RetentionKeepsBase`; Fleet's search and what
   the plan takes from it. *(done)*
4. Two server processes claiming one token: the SELECT and the UPDATE of
   `claim-install-token` are separate statements, one step only under the lock of
   one process.
