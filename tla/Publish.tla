------------------------------ MODULE Publish ------------------------------
(***************************************************************************)
(* The server side of a release's life: the publish handler, the catalogue *)
(* rows it writes (releases, patch_jobs, patches), the files next to them  *)
(* (blobs, patches, manifests), the pool of bsdiff workers, and the        *)
(* garbage collector's drop-release.                                       *)
(*                                                                         *)
(* A call into the catalogue is one step: with-catalogue holds the lock of *)
(* the process and BEGIN IMMEDIATE, or the single statement, serialises    *)
(* processes.  Every file operation is a step of its own.  Several server  *)
(* processes may share a data directory (ADR-0006), each with its handlers *)
(* and workers; a process can be killed between any two steps.             *)
(*                                                                         *)
(* Abstractions.  One software.  A blob is its SHA-256; bsdiff is          *)
(* deterministic, so a patch's SHA-256 is the pair of blobs it was made    *)
(* from.  A signature is modelled by the manifest it signs.  Versions are  *)
(* numbers in semver order.  Classifications, channels, the audit log and  *)
(* the progress events do not influence the steps below; the notification  *)
(* fan-out at the end of a publish is left to its own outbox.              *)
(***************************************************************************)
EXTENDS Naturals, Sequences, FiniteSets

CONSTANTS
    Platforms,      \* pairs (os, arch)
    Versions,       \* version numbers, in semver order
    Blobs,          \* blob SHA-256s
    Offered,        \* release -> blobs an operator may upload for it
    Servers,        \* server processes on the data directory
    Publishers,     \* request handlers
    Workers,        \* patch-pool threads
    Home,           \* the process a handler or a worker belongs to
    OnlineGc,       \* may the GC run while a server is up?
    MaxRequests,    \* bound: publish requests
    MaxCrashes,     \* bound: killed processes
    MaxErrors,      \* bound: steps that return an error
    MaxGcs,         \* bound: GC runs
    None            \* NULL, or no such file

Releases == Platforms \X Versions
PatchShas == Blobs \X Blobs

ASSUME VersionsAssumption == Versions \subseteq Nat
ASSUME OfferedAssumption == Offered \in [Releases -> SUBSET Blobs]
ASSUME HomeAssumption == Home \in [Publishers \cup Workers -> Servers]
ASSUME NoneAssumption == None \notin Blobs \cup Releases
ASSUME BoundsAssumption ==
    /\ OnlineGc \in BOOLEAN
    /\ {MaxRequests, MaxCrashes, MaxErrors, MaxGcs} \subseteq Nat

VARIABLES
    row,        \* releases: release -> blob_sha256, None when there is no row
    jobs,       \* patch_jobs by AUTOINCREMENT id; deleted rows stay as such
    patches,    \* rows of the table patches
    blobs,      \* files blobs/<sha>
    patchFiles, \* files patches/<sha>
    json,       \* files manifests/<software>/<version>.json
    sig,        \* files manifests/<software>/<version>.sig
    up,         \* server processes that run
    pub,        \* publisher -> locals of its request
    worker,     \* worker -> locals of its loop
    gc,         \* locals of the GC run, and the releases whose drop was cut
                \* short and not completed since (history)
    count       \* requests, crashes, errors and GC runs so far (for the bounds),
                \* and the jobs whose failure was not recorded and that no boot
                \* has put back since (history)

catalogue == <<row, jobs, patches>>
files == <<blobs, patchFiles, json, sig>>
vars == <<row, jobs, patches, blobs, patchFiles, json, sig,
          up, pub, worker, gc, count>>

\* patches_in holds the version and the patch of each successful job.
Manifest == [rel : Releases, blob : Blobs, patches_in : SUBSET (Versions \X PatchShas)]

Statuses == {"pending", "running", "done", "failed", "deleted"}
Job == [from : Releases, to : Releases, from_blob : Blobs, to_blob : Blobs,
        status : Statuses]
Patch == [sha : PatchShas, from : Releases, to : Releases]

WithStatus(job, status) == [job EXCEPT !.status = status]

\* Locals of a publish: the release and its blob, the releases still to be
\* enqueued, the patches for the manifest.
Request(pc, rel, blob, priors, built) ==
    [pc |-> pc, rel |-> rel, blob |-> blob, priors |-> priors, built |-> built]

\* Locals of a GC run: the releases still to be dropped; of the one being
\* dropped its blob and the patches from and to it.
Run(pc, todo, rel, blob, shas, torn) ==
    [pc |-> pc, todo |-> todo, rel |-> rel, blob |-> blob, shas |-> shas, torn |-> torn]

NoRequest == Request("idle", None, None, {}, {})
IdleWorker == [pc |-> "idle", job |-> 0]
NoGc(torn) == Run("idle", {}, None, None, {}, torn)

PubPCs == {"idle", "put", "insert", "json", "sig", "list", "enqueue", "tail",
           "json2", "sig2", "answer200", "answer201", "answer409"}
WorkerPCs == {"idle", "build", "insert", "complete", "fail"}
GcPCs == {"idle", "plan", "next", "patchFiles", "patchRows", "jobRows", "json", "sig",
          "row", "refcount", "blob"}

\* The types, and that a worker's job is a row of patch_jobs.
TypeOK ==
    /\ row \in [Releases -> Blobs \cup {None}]
    /\ jobs \in Seq(Job)
    /\ patches \subseteq Patch
    /\ blobs \subseteq Blobs
    /\ patchFiles \subseteq PatchShas
    /\ json \in [Versions -> Manifest \cup {None}]
    /\ sig \in [Versions -> Manifest \cup {None}]
    /\ up \subseteq Servers
    /\ pub \in [Publishers -> [pc : PubPCs, rel : Releases \cup {None},
                               blob : Blobs \cup {None},
                               priors : SUBSET (Releases \X Blobs),
                               built : SUBSET (Versions \X PatchShas)]]
    /\ worker \in [Workers -> [pc : WorkerPCs, job : Nat]]
    /\ \A w \in Workers : worker[w].pc # "idle" => worker[w].job \in DOMAIN jobs
    /\ gc \in [pc : GcPCs, todo : SUBSET (Releases \X Blobs),
               rel : Releases \cup {None}, blob : Blobs \cup {None},
               shas : SUBSET PatchShas, torn : SUBSET Releases]
    /\ count \in [requests : 0..MaxRequests, crashes : 0..MaxCrashes,
                  errors : 0..MaxErrors, gcs : 0..MaxGcs, lost : SUBSET Nat]

Init ==
    /\ row = [r \in Releases |-> None]
    /\ jobs = <<>>
    /\ patches = {}
    /\ blobs = {}
    /\ patchFiles = {}
    /\ json = [v \in Versions |-> None]
    /\ sig = [v \in Versions |-> None]
    /\ up = {}
    /\ pub = [p \in Publishers |-> NoRequest]
    /\ worker = [w \in Workers |-> IdleWorker]
    /\ gc = NoGc({})
    /\ count = [requests |-> 0, crashes |-> 0, errors |-> 0, gcs |-> 0, lost |-> {}]

Existing == {r \in Releases : row[r] # None}

\* The version in a release id <software>/<os>-<arch>/<version>, which alone
\* names the manifest files and is what delete-release goes by.
Version(r) == r[2]

Killed == count.crashes < MaxCrashes /\ count' = [count EXCEPT !.crashes = @ + 1]
Error == count.errors < MaxErrors /\ count' = [count EXCEPT !.errors = @ + 1]

----------------------------------------------------------------------------
(* Server processes *)

\* A faulty variant: the stale rows are left as they are.
BootWithoutReset(s) ==
    /\ s \notin up
    /\ OnlineGc \/ gc.pc = "idle"
    /\ up' = up \cup {s}
    /\ UNCHANGED <<catalogue, files, pub, worker, gc, count>>

\* serve: reset-stale-running-jobs, then start the pool and the listener.
Boot(s) ==
    /\ s \notin up
    /\ OnlineGc \/ gc.pc = "idle"
    /\ up' = up \cup {s}
    /\ jobs' = [i \in DOMAIN jobs |->
                  IF jobs[i].status = "running"
                  THEN WithStatus(jobs[i], "pending") ELSE jobs[i]]
    /\ count' = [count EXCEPT !.lost = {}]
    /\ UNCHANGED <<row, patches, files, pub, worker, gc>>

\* The process dies, and with it everything its threads hold in memory.
Crash(s) ==
    /\ s \in up
    /\ Killed
    /\ up' = up \ {s}
    /\ pub' = [p \in Publishers |-> IF Home[p] = s THEN NoRequest ELSE pub[p]]
    /\ worker' = [w \in Workers |-> IF Home[w] = s THEN IdleWorker ELSE worker[w]]
    /\ UNCHANGED <<catalogue, files, gc>>

----------------------------------------------------------------------------
(* handle-admin-publish-release *)

\* A request arrives; its body is streamed into a temporary file.
BeginPublish(p, r, b) ==
    /\ pub[p].pc = "idle"
    /\ Home[p] \in up
    /\ count.requests < MaxRequests
    /\ count' = [count EXCEPT !.requests = @ + 1]
    /\ pub' = [pub EXCEPT ![p] = Request("put", r, b, {}, {})]
    /\ UNCHANGED <<catalogue, files, up, worker, gc>>

\* put-blob-from-file: rename into the CAS, or drop the upload when the blob
\* is already there.
PutBlob(p) ==
    /\ pub[p].pc = "put"
    /\ blobs' = blobs \cup {pub[p].blob}
    /\ pub' = [pub EXCEPT ![p].pc = "insert"]
    /\ UNCHANGED <<catalogue, patchFiles, json, sig, up, worker, gc, count>>

\* A faulty variant: the row is replaced when the version is published again.
InsertOrReplaceRelease(p) ==
    /\ pub[p].pc = "insert"
    /\ row' = [row EXCEPT ![pub[p].rel] = pub[p].blob]
    /\ pub' = [pub EXCEPT ![p].pc = "json"]
    /\ UNCHANGED <<jobs, patches, files, up, worker, gc, count>>

\* insert-release-if-new, and what the handler makes of its answer.
InsertReleaseIfNew(p) ==
    /\ pub[p].pc = "insert"
    /\ LET old == row[pub[p].rel]
       IN  /\ row' = IF old = None THEN [row EXCEPT ![pub[p].rel] = pub[p].blob] ELSE row
           /\ pub' = [pub EXCEPT ![p].pc =
                        IF old = None THEN "json"
                        ELSE IF old = pub[p].blob THEN "answer200" ELSE "answer409"]
    /\ UNCHANGED <<jobs, patches, files, up, worker, gc, count>>

TheManifest(p, built) ==
    [rel |-> pub[p].rel, blob |-> pub[p].blob, patches_in |-> built]

\* %publish-finalize-and-emit writes the manifest, then its signature; after
\* the fan-in it does so again with patches_in.
WriteJson(p) ==
    /\ pub[p].pc \in {"json", "json2"}
    /\ json' = [json EXCEPT ![Version(pub[p].rel)] = TheManifest(p, pub[p].built)]
    /\ pub' = [pub EXCEPT ![p].pc = IF @ = "json" THEN "sig" ELSE "sig2"]
    /\ UNCHANGED <<catalogue, blobs, patchFiles, sig, up, worker, gc, count>>

WriteSig(p) ==
    /\ pub[p].pc \in {"sig", "sig2"}
    /\ sig' = [sig EXCEPT ![Version(pub[p].rel)] = TheManifest(p, pub[p].built)]
    /\ pub' = [pub EXCEPT ![p].pc = IF @ = "sig" THEN "list" ELSE "answer201"]
    /\ UNCHANGED <<catalogue, blobs, patchFiles, json, up, worker, gc, count>>

\* A faulty variant: releases that have no row are listed as well.
ListPriorsUnfiltered(p) ==
    /\ pub[p].pc = "list"
    /\ LET r == pub[p].rel
           priors == {<<q, row[q]>> : q \in {q \in Releases : q[1] = r[1] /\ q # r}}
       IN  pub' = [pub EXCEPT ![p] = Request(IF priors = {} THEN "answer201" ELSE "enqueue",
                                             r, @.blob, priors, @.built)]
    /\ UNCHANGED <<catalogue, files, up, worker, gc, count>>

\* enqueue-patches-for-release reads the releases of the same platform ...
ListPriors(p) ==
    /\ pub[p].pc = "list"
    /\ LET r == pub[p].rel
           priors == {<<q, row[q]>> : q \in {q \in Existing : q[1] = r[1] /\ q # r}}
       IN  pub' = [pub EXCEPT ![p] = Request(IF priors = {} THEN "answer201" ELSE "enqueue",
                                             r, @.blob, priors, @.built)]
    /\ UNCHANGED <<catalogue, files, up, worker, gc, count>>

JobExists(from, to) ==
    \E i \in DOMAIN jobs : /\ jobs[i].from = from
                           /\ jobs[i].to = to
                           /\ jobs[i].status # "deleted"

\* ... and inserts one job for each of them, unless there is one (UNIQUE).
EnqueuePatchJob(p) ==
    /\ pub[p].pc = "enqueue"
    /\ \E prior \in pub[p].priors :
         /\ jobs' = IF JobExists(prior[1], pub[p].rel)
                    THEN jobs
                    ELSE Append(jobs, [from |-> prior[1], to |-> pub[p].rel,
                                       from_blob |-> prior[2], to_blob |-> pub[p].blob,
                                       status |-> "pending"])
         /\ pub' = [pub EXCEPT ![p] = Request(IF @.priors = {prior} THEN "tail" ELSE @.pc,
                                              @.rel, @.blob, @.priors \ {prior}, @.built)]
    /\ UNCHANGED <<row, patches, files, up, worker, gc, count>>

JobsTo(r) == {i \in DOMAIN jobs : jobs[i].to = r /\ jobs[i].status # "deleted"}

\* A faulty variant: only the jobs still waiting for a worker are awaited.
TailNotPending(p) ==
    /\ pub[p].pc = "tail"
    /\ LET mine  == JobsTo(pub[p].rel)
           built == {<<Version(jobs[i].from), <<jobs[i].from_blob, jobs[i].to_blob>> >> :
                        i \in {i \in mine : jobs[i].status # "failed"}}
       IN  /\ \A i \in mine : jobs[i].status # "pending"
           /\ pub' = [pub EXCEPT ![p] = Request(IF built = {} THEN "answer201" ELSE "json2",
                                                @.rel, @.blob, @.priors, built)]
    /\ UNCHANGED <<catalogue, files, up, worker, gc, count>>

\* %tail-patch-jobs: wait until every job is done or failed, collect the
\* patches of those that are done.
TailPatchJobs(p) ==
    /\ pub[p].pc = "tail"
    /\ LET mine  == JobsTo(pub[p].rel)
           built == {<<Version(jobs[i].from), <<jobs[i].from_blob, jobs[i].to_blob>> >> :
                        i \in {i \in mine : jobs[i].status = "done"}}
       IN  /\ \A i \in mine : jobs[i].status \notin {"pending", "running"}
           /\ pub' = [pub EXCEPT ![p] = Request(IF built = {} THEN "answer201" ELSE "json2",
                                                @.rel, @.blob, @.priors, built)]
    /\ UNCHANGED <<catalogue, files, up, worker, gc, count>>

\* The response is sent and the handler's locals are gone.
Answer(p) ==
    /\ pub[p].pc \in {"answer200", "answer201", "answer409"}
    /\ pub' = [pub EXCEPT ![p] = NoRequest]
    /\ UNCHANGED <<catalogue, files, up, worker, gc, count>>

\* An error in the fan-in is caught and logged: the publish goes on without
\* patches.  An error elsewhere ends the request with a 500.
PublishError(p) ==
    /\ pub[p].pc # "idle"
    /\ Error
    /\ pub' = [pub EXCEPT ![p] =
                 IF pub[p].pc \in {"list", "enqueue", "tail"}
                 THEN Request("answer201", @.rel, @.blob, {}, @.built)
                 ELSE NoRequest]
    /\ UNCHANGED <<catalogue, files, up, worker, gc>>

----------------------------------------------------------------------------
(* The worker pool *)

\* A faulty variant: SELECT and UPDATE without BEGIN IMMEDIATE, so that a
\* second worker still reads the row as pending.
ClaimAnyUnfinished(w) ==
    /\ worker[w].pc = "idle"
    /\ Home[w] \in up
    /\ \E i \in DOMAIN jobs :
         /\ jobs[i].status \in {"pending", "running"}
         /\ jobs' = [jobs EXCEPT ![i] = WithStatus(@, "running")]
         /\ worker' = [worker EXCEPT ![w] = [pc |-> "build", job |-> i]]
    /\ UNCHANGED <<row, patches, files, up, pub, gc, count>>

\* claim-next-patch-job: the oldest pending row becomes running.
ClaimNextPatchJob(w) ==
    /\ worker[w].pc = "idle"
    /\ Home[w] \in up
    /\ \E i \in DOMAIN jobs :
         /\ jobs[i].status = "pending"
         /\ \A k \in 1 .. i - 1 : jobs[k].status # "pending"
         /\ jobs' = [jobs EXCEPT ![i] = WithStatus(@, "running")]
         /\ worker' = [worker EXCEPT ![w] = [pc |-> "build", job |-> i]]
    /\ UNCHANGED <<row, patches, files, up, pub, gc, count>>

\* build-patch-from-blobs: both blobs must be there; the patch is moved into
\* the CAS.
BuildPatch(w) ==
    /\ worker[w].pc = "build"
    /\ LET j == jobs[worker[w].job]
       IN  IF {j.from_blob, j.to_blob} \subseteq blobs
           THEN /\ patchFiles' = patchFiles \cup {<<j.from_blob, j.to_blob>>}
                /\ worker' = [worker EXCEPT ![w].pc = "insert"]
           ELSE /\ worker' = [worker EXCEPT ![w].pc = "fail"]
                /\ UNCHANGED patchFiles
    /\ UNCHANGED <<catalogue, blobs, json, sig, up, pub, gc, count>>

\* bsdiff, a file operation or the catalogue reports an error.
BuildError(w) ==
    /\ worker[w].pc \in {"build", "insert", "complete"}
    /\ Error
    /\ worker' = [worker EXCEPT ![w].pc = "fail"]
    /\ UNCHANGED <<catalogue, files, up, pub, gc>>

\* INSERT OR REPLACE: a row with the same sha256 (primary key) or with the
\* same from and to (unique) gives way to the new one.
WithPatch(sha, from, to) ==
    {t \in patches : t.sha # sha /\ <<t.from, t.to>> # <<from, to>>}
        \cup {[sha |-> sha, from |-> from, to |-> to]}

InsertPatch(w) ==
    /\ worker[w].pc = "insert"
    /\ LET j == jobs[worker[w].job]
       IN  patches' = WithPatch(<<j.from_blob, j.to_blob>>, j.from, j.to)
    /\ worker' = [worker EXCEPT ![w].pc = "complete"]
    /\ UNCHANGED <<row, jobs, files, up, pub, gc, count>>

\* UPDATE ... WHERE id: whatever the status is by now; a deleted row stays so.
Finish(w, status) ==
    /\ jobs' = [jobs EXCEPT ![worker[w].job] =
                  IF @.status = "deleted" THEN @ ELSE WithStatus(@, status)]
    /\ worker' = [worker EXCEPT ![w] = IdleWorker]
    /\ UNCHANGED <<row, patches, files, up, pub, gc, count>>

\* A faulty variant: the job is completed before its patch is recorded.
CompleteBeforeInsert(w) == worker[w].pc \in {"insert", "complete"} /\ Finish(w, "done")

CompletePatchJob(w) == worker[w].pc = "complete" /\ Finish(w, "done")

\* A faulty variant: the failure is only logged.
FailPatchJobSilently(w) ==
    /\ worker[w].pc = "fail"
    /\ worker' = [worker EXCEPT ![w] = IdleWorker]
    /\ UNCHANGED <<catalogue, files, up, pub, gc, count>>

FailPatchJob(w) == worker[w].pc = "fail" /\ Finish(w, "failed")

\* fail-patch-job itself reports an error: it is logged, the worker goes on
\* and the row stays "running".
FailureLost(w) ==
    /\ worker[w].pc = "fail"
    /\ count.errors < MaxErrors
    /\ count' = [count EXCEPT !.errors = @ + 1, !.lost = @ \cup {worker[w].job}]
    /\ worker' = [worker EXCEPT ![w] = IdleWorker]
    /\ UNCHANGED <<catalogue, files, up, pub, gc>>

----------------------------------------------------------------------------
(* gc-software and drop-release *)

\* Some release has the highest version; with two platforms there may be two,
\* and the sort returns one of them.
Latest == {r \in Existing : \A q \in Existing : Version(q) <= Version(r)}

\* The candidates.  Pins, ages and user counts may spare any release; the
\* latest is always spared.  Dry runs change nothing.
BeginGc ==
    /\ gc.pc = "idle"
    /\ OnlineGc \/ up = {}
    /\ count.gcs < MaxGcs
    /\ count' = [count EXCEPT !.gcs = @ + 1]
    /\ \E keep \in Latest : \E drop \in (SUBSET (Existing \ {keep})) \ {{}} :
         gc' = Run("plan", {<<r, row[r]>> : r \in drop}, None, None, {}, gc.torn)
    /\ UNCHANGED <<catalogue, files, up, pub, worker>>

\* execute-reachability-builds: before the first drop, a direct patch to the
\* latest release for some releases that keep clients.  (The file and its row
\* in one step: no step tells a file that has no row yet from no file.)
BuildEdge(f, t) ==
    /\ gc.pc = "plan"
    /\ f \in Existing /\ t \in Latest /\ f # t
    /\ {f, t} \cap {c[1] : c \in gc.todo} = {}
    /\ {row[f], row[t]} \subseteq blobs
    /\ patchFiles' = patchFiles \cup {<<row[f], row[t]>>}
    /\ patches' = WithPatch(<<row[f], row[t]>>, f, t)
    /\ UNCHANGED <<row, jobs, blobs, json, sig, up, pub, worker, gc, count>>

Touching(r) == {t \in patches : r \in {t.from, t.to}}

\* The next candidate, with the blob it had when the run began, and the
\* patches from and to it.
DropNext(c) ==
    /\ gc.pc \in {"plan", "next"}
    /\ c \in gc.todo
    /\ LET shas == {t.sha : t \in Touching(c[1])}
       IN  gc' = Run(IF shas = {} THEN "patchRows" ELSE "patchFiles",
                     gc.todo \ {c}, c[1], c[2], shas, gc.torn)
    /\ UNCHANGED <<catalogue, files, up, pub, worker, count>>

\* 1. Their files, one by one, and the rows.
DropPatchFile(sha) ==
    /\ gc.pc = "patchFiles"
    /\ sha \in gc.shas
    /\ patchFiles' = patchFiles \ {sha}
    /\ gc' = Run(IF gc.shas = {sha} THEN "patchRows" ELSE gc.pc,
                 gc.todo, gc.rel, gc.blob, gc.shas \ {sha}, gc.torn)
    /\ UNCHANGED <<catalogue, blobs, json, sig, up, pub, worker, count>>

DropPatchRows ==
    /\ gc.pc = "patchRows"
    /\ patches' = patches \ Touching(gc.rel)
    /\ gc' = [gc EXCEPT !.pc = "jobRows"]
    /\ UNCHANGED <<row, jobs, files, up, pub, worker, count>>

\* A faulty variant, the code before v1.5: the jobs stay.
KeepJobRows ==
    /\ gc.pc = "jobRows"
    /\ gc' = [gc EXCEPT !.pc = "json"]
    /\ UNCHANGED <<catalogue, files, up, pub, worker, count>>

\* 1b. The jobs.
DropJobRows ==
    /\ gc.pc = "jobRows"
    /\ jobs' = [i \in DOMAIN jobs |->
                  IF gc.rel \in {jobs[i].from, jobs[i].to}
                  THEN WithStatus(jobs[i], "deleted") ELSE jobs[i]]
    /\ gc' = [gc EXCEPT !.pc = "json"]
    /\ UNCHANGED <<row, patches, files, up, pub, worker, count>>

\* 2. The manifest files of the version.
DropJson ==
    /\ gc.pc = "json"
    /\ json' = [json EXCEPT ![Version(gc.rel)] = None]
    /\ gc' = [gc EXCEPT !.pc = "sig"]
    /\ UNCHANGED <<catalogue, blobs, patchFiles, sig, up, pub, worker, count>>

DropSig ==
    /\ gc.pc = "sig"
    /\ sig' = [sig EXCEPT ![Version(gc.rel)] = None]
    /\ gc' = [gc EXCEPT !.pc = "row"]
    /\ UNCHANGED <<catalogue, blobs, patchFiles, json, up, pub, worker, count>>

\* 3. The rows with this version, on every platform.
DropRow ==
    /\ gc.pc = "row"
    /\ row' = [r \in Releases |-> IF Version(r) = Version(gc.rel) THEN None ELSE row[r]]
    /\ gc' = [gc EXCEPT !.pc = "refcount"]
    /\ UNCHANGED <<jobs, patches, files, up, pub, worker, count>>

DropDone == Run(IF gc.todo = {} THEN "idle" ELSE "next",
                gc.todo, None, None, {}, gc.torn \ {gc.rel})

\* A faulty variant: the blob goes without looking for other users.
CountNoRefs ==
    /\ gc.pc = "refcount"
    /\ gc' = [gc EXCEPT !.pc = "blob"]
    /\ UNCHANGED <<catalogue, files, up, pub, worker, count>>

\* 4. The blob, if no row refers to it.
CountReleasesUsingBlob ==
    /\ gc.pc = "refcount"
    /\ gc' = IF \E r \in Releases : row[r] = gc.blob
             THEN DropDone ELSE [gc EXCEPT !.pc = "blob"]
    /\ UNCHANGED <<catalogue, files, up, pub, worker, count>>

DropBlob ==
    /\ gc.pc = "blob"
    /\ blobs' = blobs \ {gc.blob}
    /\ gc' = DropDone
    /\ UNCHANGED <<catalogue, patchFiles, json, sig, up, pub, worker, count>>

\* The GC process is killed, or an error ends its run.
GcStops ==
    /\ gc.pc # "idle"
    /\ Killed
    /\ gc' = NoGc(gc.torn \cup ({gc.rel} \ {None}))
    /\ UNCHANGED <<catalogue, files, up, pub, worker>>

----------------------------------------------------------------------------

PublishStep(p) ==
    \/ PutBlob(p) \/ InsertReleaseIfNew(p)
    \/ WriteJson(p) \/ WriteSig(p)
    \/ ListPriors(p) \/ EnqueuePatchJob(p) \/ TailPatchJobs(p)
    \/ Answer(p)

WorkerStep(w) ==
    \/ ClaimNextPatchJob(w)
    \/ BuildPatch(w) \/ InsertPatch(w)
    \/ CompletePatchJob(w) \/ FailPatchJob(w)

GcStep ==
    \/ \E c \in gc.todo : DropNext(c)
    \/ \E sha \in gc.shas : DropPatchFile(sha)
    \/ DropPatchRows \/ DropJobRows
    \/ DropJson \/ DropSig
    \/ DropRow
    \/ CountReleasesUsingBlob \/ DropBlob

Next ==
    \/ \E s \in Servers : Boot(s) \/ Crash(s)
    \/ \E p \in Publishers :
         \/ \E r \in Releases : \E b \in Offered[r] : BeginPublish(p, r, b)
         \/ PublishStep(p)
         \/ PublishError(p)
    \/ \E w \in Workers : WorkerStep(w) \/ BuildError(w) \/ FailureLost(w)
    \/ BeginGc
    \/ \E f, t \in Releases : BuildEdge(f, t)
    \/ GcStep
    \/ GcStops

Spec == Init /\ [][Next]_vars

\* A dead server is restarted (systemd), its threads run, idle workers wake
\* every second even when a signal was lost.
FairSpec ==
    /\ Spec
    /\ \A s \in Servers : WF_vars(Boot(s))
    /\ \A p \in Publishers : WF_vars(PublishStep(p))
    /\ \A w \in Workers : WF_vars(WorkerStep(w))
    /\ WF_vars(GcStep)

----------------------------------------------------------------------------
(* What holds whenever the GC runs with the servers down *)

\* Every row of releases has its blob on disk, so that GET /v1/blobs/<sha>
\* serves what a manifest names: uploads are deduplicated against the CAS,
\* drop-release counts the users of a blob before it deletes it, and either
\* may be interrupted anywhere.  (docs/operations.org: "The blob is only
\* deleted when no surviving release references it.")
RowHasBlob ==
    \A r \in Existing : row[r] \in blobs

\* A manifest on disk describes a row of the catalogue with the same blob:
\* the handler writes it only after it has won the insert, drop-release
\* deletes it before the row, and so "idempotent + conflict cases never
\* overwrite an existing manifest with one for a different blob"
\* (handle-admin-publish-release).
ManifestMatchesRow ==
    \A v \in Versions : json[v] # None => row[json[v].rel] = json[v].blob

\* A job is waiting, taken, or has the end that the table says; a worker holds
\* the job it has claimed.
ItemStatus(status) ==
    IF status = "pending" THEN "waiting" ELSE IF status = "running" THEN "taken" ELSE status

Queue == INSTANCE WorkQueue WITH
    Outcomes <- {"done", "failed"},
    items <- [i \in DOMAIN jobs |-> ItemStatus(jobs[i].status)],
    holds <- [w \in Workers |-> worker[w].job]

\* With one server process, patch_jobs is a work queue: jobs are claimed
\* oldest first and by one worker each ("BEGIN IMMEDIATE around
\* claim-next-patch-job ensures no row is claimed by two workers", ADR-0007),
\* a job once done or failed stays so, a restart puts back the jobs of the
\* threads that died, and drop-release withdraws none that is being built.
JobsAreAQueue == Queue!Spec

\* A patch row joins two releases that exist: workers, the GC and crashes
\* between them leave no dangling row behind (drop-release).
NoDanglingPatches ==
    \A t \in patches : {t.from, t.to} \subseteq Existing

\* Releases whose drop is under way or was cut short.
Dropping == gc.torn \cup {gc.rel}

\* A done job has its edge in the table patches, which is where the
\* reachability layer of the GC and the upgrade endpoint look for it: the
\* join of list-patches-for-software "captures every edge in the software's
\* upgrade graph".  Edges of a release being dropped are exempt.
DoneJobsHaveEdges ==
    \A i \in DOMAIN jobs :
        jobs[i].status = "done" /\ Dropping \cap {jobs[i].from, jobs[i].to} = {} =>
            \E t \in patches : t.from = jobs[i].from /\ t.to = jobs[i].to

\* A manifest lists only patches that were built and stored: each one has its
\* finished job, and its file, unless drop-release took them away since.
ListedPatchesBuilt ==
    \A v \in Versions : json[v] # None =>
        \A e \in json[v].patches_in :
            LET to == json[v].rel
                from == <<to[1], e[1]>>
            IN  \E i \in DOMAIN jobs :
                  /\ jobs[i].from = from /\ jobs[i].to = to
                  /\ <<jobs[i].from_blob, jobs[i].to_blob>> = e[2]
                  /\ \/ jobs[i].status = "deleted"
                     \/ jobs[i].status = "done" /\ e[2] \in patchFiles
                     \/ jobs[i].status = "done" /\ Dropping \cap {from, to} # {}

\* Every job ends: it is done, failed or deleted with its release, whatever
\* process died while it ran (reset-stale-running-jobs).  The exception is a
\* job whose failure could not be recorded either (%run-job logs that and goes
\* on): it stays "running" until some process boots.
JobsFinish ==
    []<>(\A i \in DOMAIN jobs :
           jobs[i].status \in {"done", "failed", "deleted"} \/ i \in count.lost)

\* Every request that was accepted is answered or dies with its handler: the
\* tail loop of %tail-patch-jobs, which has no time limit, waits for ever only
\* for a job whose failure was lost, and then no process has booted since.
PublishEnds ==
    \A p \in Publishers :
        []<>(\/ pub[p].pc = "idle"
             \/ \E i \in JobsTo(pub[p].rel) :
                   jobs[i].status = "running" /\ i \in count.lost)

----------------------------------------------------------------------------
(* What the documents say and the code does not do *)

\* What GET .../manifest needs to return something a client accepts.
Served(r) == json[Version(r)] # None /\ sig[Version(r)] = json[Version(r)]
                /\ json[Version(r)].rel = r

\* docs/operations.org: on a retry of the same publish "the prior 201 is
\* what's on the server".  After a handler that died between the insert and
\* the manifest, the retry is told 200 and nothing writes the manifest.
AcceptedIsServed ==
    \A p \in Publishers : pub[p].pc = "answer200" => Served(pub[p].rel)

=============================================================================
