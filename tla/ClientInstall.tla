--------------------------- MODULE ClientInstall ---------------------------
(***************************************************************************)
(* The client side of delta-ota: libota's Install (also Upgrade, watch and *)
(* doctor --recover, which all call it) and Revert, and the agent's prune  *)
(* command, working on one software's directory $OTA_HOME/<software>.      *)
(*                                                                         *)
(* One agent process runs at a time.  Each file-system effect is a step of *)
(* its own, and the run may stop after any of them (an error return, a     *)
(* killed process, a power cut): see Abort.  What a run keeps in memory is *)
(* then lost and only the files remain.                                    *)
(*                                                                         *)
(* Abstractions.  A blob is present or absent: its bytes are the subject   *)
(* of module Download.  Patch files are left out, no step reads one that   *)
(* it has not just downloaded and verified.  A distribution is "whole"     *)
(* when every file of its version's archive is there, "absent" without a   *)
(* directory, and "partial" in between; what else lies in the directory is *)
(* the subject of module Delivery.  Tokens and the trusted key are fields  *)
(* of state.json that do not touch the files modelled here.                *)
(***************************************************************************)
EXTENDS Naturals, Sequences, FiniteSets

CONSTANTS
    Versions,       \* the version strings the server may offer
    NoVersion,      \* Go's "" and the absence of a link
    MaxHistory,     \* bound: runs of Install that may extend state.History
    ArchiveDepths   \* values given to prune's --archive-depth

ASSUME NoVersionAssumption == NoVersion \notin Versions
ASSUME MaxHistoryAssumption == MaxHistory \in Nat
ASSUME ArchiveDepthsAssumption == ArchiveDepths \subseteq Nat

VARIABLES
    blobs,      \* versions with a verified blobs/<version>.blob
    dist,       \* version -> condition of distribution-<version>
    current,    \* the link `current`, in its two possible forms
    previous,   \* the link `previous`, likewise
    state,      \* state.json
    snapshot,   \* current_release_id in the server's row for this client
    pc,         \* next step of the running agent, "idle" when none runs
    op,         \* the command it runs
    target,     \* the version being installed or reverted to
    mem,        \* the State loaded at the start of the command
    todo,       \* distributions the prune command still has to delete
    torn        \* history: versions whose tree an install began to remove,
                \* and that no install has extracted to the end since

disk == <<blobs, dist, current, previous, state>>
proc == <<pc, op, target, mem, todo>>
vars == <<blobs, dist, current, previous, state, snapshot,
          pc, op, target, mem, todo, torn>>

MaybeVersion == Versions \cup {NoVersion}

\* A link name can exist as a symlink and as a `.path` shim file.
Link == [sym : MaybeVersion, shim : MaybeVersion]
NoLink == [sym |-> NoVersion, shim |-> NoVersion]

\* The fields of the Go struct State that name versions.
State == [Current : MaybeVersion, Previous : MaybeVersion,
          History : Seq(Versions)]
EmptyState == [Current |-> NoVersion, Previous |-> NoVersion,
               History |-> <<>>]

\* The path a link leads to: the symlink if there is one, else the shim.
ReadCurrent(link) == IF link.sym # NoVersion THEN link.sym ELSE link.shim

\* v was current at some time, as far as state.json records.
HistoryHas(st, v) == \E i \in 1..Len(st.History) : st.History[i] = v

PCs == {"idle", "transfer", "remove", "mkdir", "extract", "swap",
        "swapRename", "set", "save", "pruneOld", "report", "delete"}
Ops == {"none", "install", "revert", "prune"}

\* Links, directories and state.json name versions that were asked for.
TypeOK ==
    /\ blobs \in SUBSET Versions
    /\ dist \in [Versions -> {"absent", "partial", "whole"}]
    /\ current \in Link
    /\ previous \in Link
    /\ state \in State
    /\ snapshot \in MaybeVersion
    /\ pc \in PCs
    /\ op \in Ops
    /\ target \in MaybeVersion
    /\ mem \in State
    /\ todo \in SUBSET Versions
    /\ torn \in SUBSET Versions

Init ==
    /\ blobs = {}
    /\ dist = [v \in Versions |-> "absent"]
    /\ current = NoLink
    /\ previous = NoLink
    /\ state = EmptyState
    /\ snapshot = NoVersion
    /\ pc = "idle"
    /\ op = "none"
    /\ target = NoVersion
    /\ mem = EmptyState
    /\ todo = {}
    /\ torn = {}

\* The process ends: its memory is gone, the files stay.
Exit ==
    /\ pc' = "idle"
    /\ op' = "none"
    /\ target' = NoVersion
    /\ mem' = EmptyState
    /\ todo' = {}

----------------------------------------------------------------------------
(* Install *)

\* Load state.json, authenticate, resolve `latest`, fetch and verify the
\* manifest.  The version is whatever the user or the server says: it may be
\* the one already installed, which is what every tick of `ota-agent watch`
\* asks for while nothing new is published.
BeginInstall(v) ==
    /\ pc = "idle"
    /\ Len(state.History) < MaxHistory
    /\ pc' = "transfer"
    /\ op' = "install"
    /\ target' = v
    /\ mem' = state
    /\ UNCHANGED <<disk, snapshot, todo, torn>>

\* The manifest offers an acceptable patch from the current version and the
\* old blob is on disk: download the patch and rebuild the new blob.
ApplyPatch ==
    /\ pc = "transfer"
    /\ mem.Current \notin {NoVersion, target}
    /\ mem.Current \in blobs
    /\ blobs' = blobs \cup {target}
    /\ pc' = "remove"
    /\ UNCHANGED <<dist, current, previous, state, snapshot, op, target, mem, todo, torn>>

\* No usable patch: download the full blob.
DownloadBlob ==
    /\ pc = "transfer"
    /\ blobs' = blobs \cup {target}
    /\ pc' = "remove"
    /\ UNCHANGED <<dist, current, previous, state, snapshot, op, target, mem, todo, torn>>

\* A faulty variant: a tree that is already there is taken as it is.
RemoveDistIfAbsent ==
    /\ pc = "remove"
    /\ torn' = torn \cup {target}
    /\ pc' = IF dist[target] = "absent" THEN "mkdir" ELSE "swap"
    /\ UNCHANGED <<blobs, dist, current, previous, state, snapshot, op, target, mem, todo>>

\* RemoveAll(distribution-<version>): its error is ignored, so the run goes on
\* whether nothing, a part or all of the old tree is gone.
RemoveDist ==
    /\ pc = "remove"
    /\ \/ dist' = dist
       \/ /\ dist[target] # "absent"
          /\ \E rest \in {"absent", "partial"} : dist' = [dist EXCEPT ![target] = rest]
    /\ torn' = torn \cup {target}
    /\ pc' = "mkdir"
    /\ UNCHANGED <<blobs, current, previous, state, snapshot, op, target, mem, todo>>

\* MkdirAll makes the directory if it is not there.
MakeDist ==
    /\ pc = "mkdir"
    /\ dist' = [dist EXCEPT ![target] = IF @ = "absent" THEN "partial" ELSE @]
    /\ pc' = "extract"
    /\ UNCHANGED <<blobs, current, previous, state, snapshot, op, target, mem, todo, torn>>

\* Open the blob, extract it over what is in the directory, close it.
Extract ==
    /\ pc = "extract"
    /\ target \in blobs
    /\ dist' = [dist EXCEPT ![target] = "whole"]
    /\ torn' = torn \ {target}
    /\ pc' = "swap"
    /\ UNCHANGED <<blobs, current, previous, state, snapshot, op, target, mem, todo>>

\* The run stops inside Extract, which creates files anew over what is there.
AbortExtract ==
    /\ pc = "extract"
    /\ target \in blobs
    /\ dist' = [dist EXCEPT ![target] = "partial"]
    /\ Exit
    /\ UNCHANGED <<blobs, current, previous, state, snapshot, torn>>

----------------------------------------------------------------------------
(* FlipCurrent: SwapCurrentToPrevious, then SetCurrent *)

\* Nothing is installed at `current`: there is nothing to swap.
SwapNothing ==
    /\ pc = "swap"
    /\ current = NoLink
    /\ pc' = "set"
    /\ UNCHANGED <<disk, snapshot, op, target, mem, todo, torn>>

\* A faulty variant: the shim form of `previous` is forgotten.
SwapClearSymlinkOnly ==
    /\ pc = "swap"
    /\ current # NoLink
    /\ previous' = [previous EXCEPT !.sym = NoVersion]
    /\ pc' = "swapRename"
    /\ UNCHANGED <<blobs, dist, current, state, snapshot, op, target, mem, todo, torn>>

\* `current` exists: remove both forms of `previous` ...
SwapClear ==
    /\ pc = "swap"
    /\ current # NoLink
    /\ previous' = NoLink
    /\ pc' = "swapRename"
    /\ UNCHANGED <<blobs, dist, current, state, snapshot, op, target, mem, todo, torn>>

\* ... and rename `current`, in the form it has, to `previous`.
SwapRename ==
    /\ pc = "swapRename"
    /\ IF current.sym # NoVersion
       THEN /\ previous' = [previous EXCEPT !.sym = current.sym]
            /\ current' = [current EXCEPT !.sym = NoVersion]
       ELSE /\ previous' = [previous EXCEPT !.shim = current.shim]
            /\ current' = [current EXCEPT !.shim = NoVersion]
    /\ pc' = "set"
    /\ UNCHANGED <<blobs, dist, state, snapshot, op, target, mem, todo, torn>>

\* Remove both forms of `current`, then rename a fresh symlink into place;
\* where the host refuses symlinks, write the shim instead.
SetCurrent ==
    /\ pc = "set"
    /\ \/ current' = [sym |-> target, shim |-> NoVersion]
       \/ current' = [sym |-> NoVersion, shim |-> target]
    /\ pc' = "save"
    /\ UNCHANGED <<blobs, dist, previous, state, snapshot, op, target, mem, todo, torn>>

----------------------------------------------------------------------------
(* The end of Install and of Revert *)

\* A faulty variant: the history takes the version that was current before,
\* the empty string on a first install.
InstalledOldVersion(st, v) ==
    IF st.Current = v
    THEN st
    ELSE [Current  |-> v,
          Previous |-> IF st.Current # NoVersion THEN st.Current ELSE st.Previous,
          History  |-> Append(st.History, st.Current)]

\* state.json as Install leaves it: a new version is pushed on the history,
\* reinstalling the current one changes nothing.
Installed(st, v) ==
    IF st.Current = v
    THEN st
    ELSE [Current  |-> v,
          Previous |-> IF st.Current # NoVersion THEN st.Current ELSE st.Previous,
          History  |-> Append(st.History, v)]

\* Save writes a temporary file and renames it over state.json.
SaveInstall ==
    /\ pc = "save"
    /\ op = "install"
    /\ state' = Installed(mem, target)
    /\ pc' = "pruneOld"
    /\ UNCHANGED <<blobs, dist, current, previous, snapshot, op, target, mem, todo, torn>>

\* A faulty variant: one entry too few is kept.
PruneOneTooMany ==
    /\ pc = "pruneOld"
    /\ LET h == state.History
       IN  blobs' = IF Len(h) < 3 THEN blobs ELSE blobs \ {h[Len(h) - 1]}
    /\ pc' = "report"
    /\ UNCHANGED <<dist, current, previous, state, snapshot, op, target, mem, todo, torn>>

\* Local retention drops the blob of the third-last entry of the history.
\* (It also names distribution-<older>.archived, which nothing creates.)
PruneOldArtefacts ==
    /\ pc = "pruneOld"
    /\ LET h == state.History
       IN  blobs' = IF Len(h) < 3 THEN blobs ELSE blobs \ {h[Len(h) - 2]}
    /\ pc' = "report"
    /\ UNCHANGED <<dist, current, previous, state, snapshot, op, target, mem, todo, torn>>

\* Revert flips to the version state.json calls previous ...
BeginRevert ==
    /\ pc = "idle"
    /\ state.Previous # NoVersion
    /\ pc' = "swap"
    /\ op' = "revert"
    /\ target' = state.Previous
    /\ mem' = state
    /\ UNCHANGED <<disk, snapshot, todo, torn>>

\* ... and exchanges Current and Previous; the history is left alone.
SaveRevert ==
    /\ pc = "save"
    /\ op = "revert"
    /\ state' = [mem EXCEPT !.Current = mem.Previous, !.Previous = mem.Current]
    /\ pc' = "report"
    /\ UNCHANGED <<blobs, dist, current, previous, snapshot, op, target, mem, todo, torn>>

\* A faulty variant: the report goes out before state.json is saved.
ReportBeforeSave ==
    /\ pc \in {"save", "report"}
    /\ snapshot' \in {snapshot, target}
    /\ Exit
    /\ UNCHANGED <<disk, torn>>

\* Best effort: the PUT reaches the server or is lost; the run ends well
\* either way.
ReportClientState ==
    /\ pc = "report"
    /\ snapshot' \in {snapshot, target}
    /\ Exit
    /\ UNCHANGED <<disk, torn>>

----------------------------------------------------------------------------
(* ota-agent prune *)

ScanDistributions == {v \in Versions : dist[v] # "absent"}

\* A faulty variant: only the current version is on the keep-list.
PruneCandidatesWithoutPrevious(depth) ==
    LET spare == ScanDistributions \ {state.Current}
    IN  {spare \ extras : extras \in {e \in SUBSET spare :
            \/ Cardinality(e) = depth
            \/ e = spare /\ Cardinality(e) < depth}}

\* The distributions prune would delete: those on disk that state.json does
\* not name, less the `depth` most recent ones (by mtime: any of them here).
PruneCandidates(depth) ==
    LET spare == ScanDistributions \ {state.Current, state.Previous}
    IN  {spare \ extras : extras \in {e \in SUBSET spare :
            \/ Cardinality(e) = depth
            \/ e = spare /\ Cardinality(e) < depth}}

BeginPrune(depth) ==
    /\ pc = "idle"
    /\ todo' \in PruneCandidates(depth) \ {{}}
    /\ pc' = "delete"
    /\ op' = "prune"
    /\ UNCHANGED <<disk, snapshot, target, mem, torn>>

DeleteDistribution(v) ==
    /\ pc = "delete"
    /\ v \in todo
    /\ dist' = [dist EXCEPT ![v] = "absent"]
    /\ IF todo = {v}
       THEN Exit
       ELSE todo' = todo \ {v} /\ UNCHANGED <<pc, op, target, mem>>
    /\ UNCHANGED <<blobs, current, previous, state, snapshot, torn>>

\* The process stops inside RemoveAll.
AbortDelete(v) ==
    /\ pc = "delete"
    /\ v \in todo
    /\ dist' = [dist EXCEPT ![v] = "partial"]
    /\ Exit
    /\ UNCHANGED <<blobs, current, previous, state, snapshot, torn>>

----------------------------------------------------------------------------

\* Any step may fail and return its error, and the process may die between
\* any two: the effects so far remain.
Abort ==
    /\ pc # "idle"
    /\ Exit
    /\ UNCHANGED <<disk, snapshot, torn>>

Next ==
    \/ \E v \in Versions : BeginInstall(v)
    \/ ApplyPatch
    \/ DownloadBlob
    \/ RemoveDist
    \/ MakeDist
    \/ Extract
    \/ AbortExtract
    \/ SwapNothing
    \/ SwapClear
    \/ SwapRename
    \/ SetCurrent
    \/ SaveInstall
    \/ PruneOldArtefacts
    \/ BeginRevert
    \/ SaveRevert
    \/ ReportClientState
    \/ \E depth \in ArchiveDepths : BeginPrune(depth)
    \/ \E v \in Versions : DeleteDistribution(v)
    \/ \E v \in Versions : AbortDelete(v)
    \/ Abort

Spec == Init /\ [][Next]_vars

----------------------------------------------------------------------------
(* Properties that hold in every run, whatever was interrupted *)

\* A link name never exists as symlink and shim at once, so ReadCurrent,
\* which prefers the symlink, can never return an outdated path
\* (platform.go: "whatever was last written wins").
NoMixedKinds ==
    \A link \in {current, previous} :
        link.sym = NoVersion \/ link.shim = NoVersion

\* Once an installation is recorded in state.json, at least one of `current`
\* and `previous` exists on disk: no sequence of interrupted flips loses both
\* (SwapCurrentToPrevious removes `previous` only when `current` exists).
SomeLinkSurvives ==
    state.Current # NoVersion => current # NoLink \/ previous # NoLink

\* What the launcher follows is there and unambiguous after any sequence of
\* interrupted flips, on hosts with symlinks, without, and where that changed.
LinksUsable == NoMixedKinds /\ SomeLinkSurvives

\* Of a version that state.json names, current or previous, every file of its
\* tree is there, unless a reinstall of that very version began to remove the
\* tree and none has extracted it to the end since (libota.go:191 removes the
\* tree in place, even of the version that runs): nothing else, no prune, no
\* install of another version, no revert, cut off wherever, harms a tree that
\* Revert may be about to flip to.
CommittedKept ==
    \A v \in {state.Current, state.Previous} \ {NoVersion} :
        dist[v] # "whole" => v \in torn

\* An install that gets as far as saving state.json repairs whatever earlier
\* interrupted runs left: link and state.json agree and the tree is whole.
InstallRepairs ==
    op = "install" /\ pc \in {"pruneOld", "report"} =>
        /\ state.Current = target
        /\ ReadCurrent(current) = target
        /\ dist[target] = "whole"

\* The server never credits the client with a release that was not committed
\* to its state.json first, whichever reports are lost and wherever a run is
\* cut short: the GC counts users by this row.
SnapshotNeverAhead ==
    snapshot # NoVersion => HistoryHas(state, snapshot)

\* Local retention leaves the blob of the version just installed, the base of
\* the next patch, and that of the previous one, after whatever interrupted
\* and repeated runs, provided that no version was installed twice and that
\* state.Previous is the history's last entry but one, as it is unless a
\* revert came between: pruneOldArtefacts goes by the history alone.
RetentionKeepsBase ==
    LET h == state.History
        n == Len(h)
    IN  (/\ op = "install" /\ pc = "report" /\ n >= 2
         /\ \A i, j \in 1..n : h[i] = h[j] => i = j
         /\ state.Current = h[n] /\ state.Previous = h[n - 1])
           => {state.Current, state.Previous} \subseteq blobs

\* A whole distribution stops being whole only by the install of that very
\* version, or by prune when state.json does not name it: an install never
\* harms the trees of other versions.
DistLossIsDeliberate ==
    [][\A v \in Versions :
         dist[v] = "whole" /\ dist'[v] # "whole" =>
            \/ op = "install" /\ v = target
            \/ op = "prune" /\ v \notin {state.Current, state.Previous}]_vars

=============================================================================
