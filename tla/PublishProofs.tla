--------------------------- MODULE PublishProofs ---------------------------
(* Proofs about Publish with the GC run while the servers are down, for any *)
(* numbers of releases, handlers and workers and any bounds.                *)
EXTENDS Publish, DataLemmas, TLAPS

\* The GC runs only while no server does.
Offline == ~OnlineGc

\* One server process on the data directory.
OneProcess == \A s, t \in Servers : s = t

\* No version is published for two platforms: manifest files and
\* delete-release go by the version alone.
OneReleasePerVersion ==
    \A q, r \in Releases :
        Offered[q] # {} /\ Offered[r] # {} /\ Version(q) = Version(r) => q = r

\* No two releases have the same contents: the primary key of patches is the
\* patch's SHA-256, and one of two edges between equal blobs gives way.
DistinctContents ==
    \A q, r \in Releases : Offered[q] \cap Offered[r] # {} => q = r

RequestType == [pc : PubPCs, rel : Releases \cup {None}, blob : Blobs \cup {None},
                priors : SUBSET (Releases \X Blobs), built : SUBSET (Versions \X PatchShas)]
WorkerType == [pc : WorkerPCs, job : Nat]
RunType == [pc : GcPCs, todo : SUBSET (Releases \X Blobs),
            rel : Releases \cup {None}, blob : Blobs \cup {None},
            shas : SUBSET PatchShas, torn : SUBSET Releases]
CountType == [requests : 0..MaxRequests, crashes : 0..MaxCrashes,
              errors : 0..MaxErrors, gcs : 0..MaxGcs,
              lost : SUBSET Nat]

----------------------------------------------------------------------------
(* The first invariant: rows, blobs and manifests *)

\* Threads run in live processes, and the GC while there is none.
Alive ==
    /\ \A p \in Publishers :
         pub[p].pc # "idle" => /\ Home[p] \in up /\ pub[p].rel \in Releases
                               /\ pub[p].blob \in Offered[pub[p].rel]
    /\ \A w \in Workers :
         IF worker[w].pc = "idle" THEN worker[w].job = 0 ELSE Home[w] \in up
    /\ gc.pc # "idle" => up = {}

\* A drop has its release, with a blob that was offered for it.
DropNamed ==
    /\ \A c \in gc.todo : c[2] \in Offered[c[1]]
    /\ gc.pc \notin {"idle", "plan", "next"} =>
         gc.rel \in Releases /\ gc.blob \in Offered[gc.rel]

RowsOffered == \A r \in Existing : row[r] \in Offered[r]

\* The upload of a request is in the CAS, and a request that won the insert
\* has its row.
Winners == {"json", "sig", "list", "enqueue", "tail", "json2", "sig2", "answer201"}

Uploaded ==
    \A p \in Publishers :
        /\ pub[p].pc \notin {"idle", "put"} => pub[p].blob \in blobs
        /\ pub[p].pc \in Winners => row[pub[p].rel] = pub[p].blob

\* drop-release deletes the blob when no row has it.
LastUse == gc.pc = "blob" => \A r \in Releases : row[r] # gc.blob

\* Manifests are filed under the version, and drop-release removes the file
\* before the row.
Filed ==
    /\ \A v \in Versions : json[v] # None => Version(json[v].rel) = v
    /\ gc.pc \in {"sig", "row"} => json[Version(gc.rel)] = None

BaseInv ==
    TypeOK /\ Alive /\ DropNamed /\ RowsOffered /\ Uploaded /\ LastUse /\ Filed
        /\ RowHasBlob /\ ManifestMatchesRow

----------------------------------------------------------------------------
(* The second invariant: jobs and patch rows *)

\* A job that is not deleted joins two releases that exist; it and every patch
\* row names blobs of its two releases.
JobsJoin ==
    \A i \in DOMAIN jobs :
        /\ jobs[i].from_blob \in Offered[jobs[i].from] /\ jobs[i].to_blob \in Offered[jobs[i].to]
        /\ jobs[i].from[1] = jobs[i].to[1]
        /\ jobs[i].status # "deleted" => {jobs[i].from, jobs[i].to} \subseteq Existing

PatchesOffered ==
    \A t \in patches : t.sha[1] \in Offered[t.from] /\ t.sha[2] \in Offered[t.to]

\* The releases a publish has still to enqueue are there.
PriorsExist ==
    \A p \in Publishers :
        /\ pub[p].pc # "enqueue" => pub[p].priors = {}
        /\ \A prior \in pub[p].priors :
             row[prior[1]] = prior[2] /\ prior[1][1] = pub[p].rel[1]

\* No job is deleted while a worker has it.
WorkOnLive ==
    \A w \in Workers : worker[w].pc # "idle" => jobs[worker[w].job].status # "deleted"

\* drop-release has the patches gone before the jobs, and both before the row.
DropOrder ==
    /\ gc.pc \in {"jobRows", "json", "sig", "row"} => Touching(gc.rel) = {}
    /\ gc.pc \in {"json", "sig", "row", "refcount", "blob"} =>
         \A i \in DOMAIN jobs :
            gc.rel \in {jobs[i].from, jobs[i].to} => jobs[i].status = "deleted"

GraphInv ==
    JobsJoin /\ PatchesOffered /\ PriorsExist /\ WorkOnLive /\ DropOrder /\ NoDanglingPatches

\* The edge of a job that a worker is about to complete.
Inserted ==
    \A w \in Workers : worker[w].pc = "complete" =>
        \E t \in patches : /\ t.from = jobs[worker[w].job].from
                           /\ t.to = jobs[worker[w].job].to

\* A release is being dropped between DropNext and the end of its drop.
Between == gc.pc \in {"idle", "plan", "next"} => gc.rel = None

EdgeInv == Inserted /\ Between /\ DoneJobsHaveEdges

----------------------------------------------------------------------------
(* The third invariant: workers and what manifests list *)

\* With one process, a worker's job is running and nobody else's.
Holding ==
    /\ \A w \in Workers : worker[w].pc # "idle" => jobs[worker[w].job].status = "running"
    /\ \A w, x \in Workers :
         worker[w].pc # "idle" /\ worker[x].pc # "idle" /\ worker[w].job = worker[x].job => w = x

ShaOf(job) == <<job.from_blob, job.to_blob>>

\* A built patch has its file until the drop of one of its releases.
BuiltFiles ==
    /\ \A w \in Workers :
         worker[w].pc \in {"insert", "complete"} => ShaOf(jobs[worker[w].job]) \in patchFiles
    /\ \A i \in DOMAIN jobs :
         jobs[i].status = "done" =>
            \/ ShaOf(jobs[i]) \in patchFiles
            \/ Dropping \cap {jobs[i].from, jobs[i].to} # {}

\* The files that a drop removes are of patches from or to its release.
DropsOwn ==
    \A sha \in gc.shas : \E f, t \in Releases :
        gc.rel \in {f, t} /\ sha[1] \in Offered[f] /\ sha[2] \in Offered[t]

\* The patch of a finished job, for the manifest of the release to.
Listed(to, e) ==
    \E i \in DOMAIN jobs :
        /\ jobs[i].from = <<to[1], e[1]>> /\ jobs[i].to = to
        /\ ShaOf(jobs[i]) = e[2]
        /\ jobs[i].status \in {"done", "deleted"}

ListsOwn ==
    /\ \A p \in Publishers : \A e \in pub[p].built : Listed(pub[p].rel, e)
    /\ \A v \in Versions : json[v] # None => \A e \in json[v].patches_in : Listed(json[v].rel, e)

----------------------------------------------------------------------------
(* Types *)

\* The type invariant, in the form the provers use.
LEMMA Types ==
    ASSUME TypeOK
    PROVE  /\ row \in [Releases -> Blobs \cup {None}]
           /\ jobs \in Seq(Job)
           /\ patches \subseteq Patch /\ blobs \subseteq Blobs /\ patchFiles \subseteq PatchShas
           /\ json \in [Versions -> Manifest \cup {None}]
           /\ sig \in [Versions -> Manifest \cup {None}]
           /\ up \subseteq Servers
           /\ pub \in [Publishers -> RequestType]
           /\ worker \in [Workers -> WorkerType]
           /\ \A w \in Workers : worker[w].pc # "idle" => worker[w].job \in DOMAIN jobs
           /\ gc \in RunType
           /\ count \in CountType
BY DEF TypeOK, RequestType, WorkerType, RunType, CountType

\* The conjuncts that make the type invariant after a step.
LEMMA TypesAgain ==
    ASSUME row' \in [Releases -> Blobs \cup {None}],
           jobs' \in Seq(Job),
           patches' \subseteq Patch, blobs' \subseteq Blobs, patchFiles' \subseteq PatchShas,
           json' \in [Versions -> Manifest \cup {None}],
           sig' \in [Versions -> Manifest \cup {None}],
           up' \subseteq Servers,
           pub' \in [Publishers -> RequestType],
           worker' \in [Workers -> WorkerType],
           \A w \in Workers : worker'[w].pc # "idle" => worker'[w].job \in DOMAIN jobs',
           gc' \in RunType,
           count' \in CountType
    PROVE  TypeOK'
BY DEF TypeOK, RequestType, WorkerType, RunType, CountType

\* A step that moves at most one counter below its bound keeps their type.
LEMMA Counted ==
    ASSUME TypeOK,
           \/ UNCHANGED count
           \/ count.requests < MaxRequests /\ count' = [count EXCEPT !.requests = @ + 1]
           \/ count.crashes < MaxCrashes /\ count' = [count EXCEPT !.crashes = @ + 1]
           \/ count.errors < MaxErrors /\ count' = [count EXCEPT !.errors = @ + 1]
           \/ count.gcs < MaxGcs /\ count' = [count EXCEPT !.gcs = @ + 1]
    PROVE  count' \in CountType
<1>1. /\ count \in CountType
      /\ MaxRequests \in Nat /\ MaxCrashes \in Nat /\ MaxErrors \in Nat /\ MaxGcs \in Nat
  BY BoundsAssumption, Types
<1>2. CASE UNCHANGED count
  BY <1>1, <1>2
<1>3. CASE count.requests < MaxRequests /\ count' = [count EXCEPT !.requests = @ + 1]
  BY <1>1, <1>3 DEF CountType
<1>4. CASE count.crashes < MaxCrashes /\ count' = [count EXCEPT !.crashes = @ + 1]
  BY <1>1, <1>4 DEF CountType
<1>5. CASE count.errors < MaxErrors /\ count' = [count EXCEPT !.errors = @ + 1]
  BY <1>1, <1>5 DEF CountType
<1>6. CASE count.gcs < MaxGcs /\ count' = [count EXCEPT !.gcs = @ + 1]
  BY <1>1, <1>6 DEF CountType
<1>7. QED
  BY <1>2, <1>3, <1>4, <1>5, <1>6

\* The records of the model.
LEMMA JobFields ==
    ASSUME NEW j \in Job
    PROVE  /\ j.from \in Releases /\ j.to \in Releases
           /\ j.from_blob \in Blobs /\ j.to_blob \in Blobs /\ j.status \in Statuses
           /\ ShaOf(j) \in PatchShas
BY DEF Job, PatchShas, ShaOf

\* Giving a job another status changes nothing else of it.
LEMMA StatusChanged ==
    ASSUME NEW j \in Job, NEW status \in Statuses
    PROVE  /\ WithStatus(j, status) \in Job
           /\ WithStatus(j, status).status = status
           /\ WithStatus(j, status).from = j.from /\ WithStatus(j, status).to = j.to
           /\ WithStatus(j, status).from_blob = j.from_blob
           /\ WithStatus(j, status).to_blob = j.to_blob
BY DEF WithStatus, Job

\* What the constructor of a publish request returns, field by field.
LEMMA RequestFields ==
    ASSUME NEW pc, NEW rel, NEW blob, NEW priors, NEW built
    PROVE  /\ Request(pc, rel, blob, priors, built).pc = pc
           /\ Request(pc, rel, blob, priors, built).rel = rel
           /\ Request(pc, rel, blob, priors, built).blob = blob
           /\ Request(pc, rel, blob, priors, built).priors = priors
           /\ Request(pc, rel, blob, priors, built).built = built
           /\ /\ pc \in PubPCs /\ rel \in Releases \cup {None} /\ blob \in Blobs \cup {None}
              /\ priors \in SUBSET (Releases \X Blobs)
              /\ built \in SUBSET (Versions \X PatchShas)
              => Request(pc, rel, blob, priors, built) \in RequestType
BY DEF Request, RequestType

\* A publisher without a request.
LEMMA NoRequestFields ==
    /\ NoRequest \in RequestType /\ NoRequest.pc = "idle"
    /\ NoRequest.priors = {} /\ NoRequest.built = {}
BY DEF NoRequest, Request, RequestType, PubPCs

\* A worker without a job.
LEMMA IdleWorkerFields ==
    IdleWorker \in WorkerType /\ IdleWorker.pc = "idle" /\ IdleWorker.job = 0
BY DEF IdleWorker, WorkerType, WorkerPCs

\* What the constructor of a collection run returns, field by field.
LEMMA RunFields ==
    ASSUME NEW pc, NEW todo, NEW rel, NEW blob, NEW shas, NEW torn
    PROVE  /\ Run(pc, todo, rel, blob, shas, torn).pc = pc
           /\ Run(pc, todo, rel, blob, shas, torn).todo = todo
           /\ Run(pc, todo, rel, blob, shas, torn).rel = rel
           /\ Run(pc, todo, rel, blob, shas, torn).blob = blob
           /\ Run(pc, todo, rel, blob, shas, torn).shas = shas
           /\ Run(pc, todo, rel, blob, shas, torn).torn = torn
           /\ /\ pc \in GcPCs /\ todo \in SUBSET (Releases \X Blobs)
              /\ rel \in Releases \cup {None} /\ blob \in Blobs \cup {None}
              /\ shas \in SUBSET PatchShas /\ torn \in SUBSET Releases
              => Run(pc, todo, rel, blob, shas, torn) \in RunType
BY DEF Run, RunType

\* The typed fields of a publish request.
LEMMA PubFields ==
    ASSUME TypeOK, NEW p \in Publishers
    PROVE  /\ pub[p] \in RequestType
           /\ pub[p].pc \in PubPCs /\ pub[p].rel \in Releases \cup {None}
           /\ pub[p].blob \in Blobs \cup {None}
           /\ pub[p].priors \in SUBSET (Releases \X Blobs)
           /\ pub[p].built \in SUBSET (Versions \X PatchShas)
<1>1. pub[p] \in RequestType
  BY Types
<1>2. QED
  BY <1>1 DEF RequestType

\* The typed fields of a collection run.
LEMMA GcFields ==
    ASSUME TypeOK
    PROVE  /\ gc.pc \in GcPCs /\ gc.todo \in SUBSET (Releases \X Blobs)
           /\ gc.rel \in Releases \cup {None} /\ gc.blob \in Blobs \cup {None}
           /\ gc.shas \in SUBSET PatchShas /\ gc.torn \in SUBSET Releases
BY Types DEF RunType

\* A run that only moves on keeps its other fields.
LEMMA GcMoves ==
    ASSUME TypeOK, NEW pc \in GcPCs, gc' = [gc EXCEPT !.pc = pc]
    PROVE  /\ gc' \in RunType /\ gc'.pc = pc
           /\ gc'.todo = gc.todo /\ gc'.rel = gc.rel /\ gc'.blob = gc.blob
           /\ gc'.shas = gc.shas /\ gc'.torn = gc.torn
BY Types DEF RunType

\* A request that only moves on keeps its other fields.
LEMMA PubMoves ==
    ASSUME TypeOK, NEW p \in Publishers, NEW pc \in PubPCs, pub' = [pub EXCEPT ![p].pc = pc]
    PROVE  /\ pub' = [pub EXCEPT ![p] = pub'[p]]
           /\ pub'[p] \in RequestType /\ pub'[p].pc = pc
           /\ pub'[p].rel = pub[p].rel /\ pub'[p].blob = pub[p].blob
           /\ pub'[p].priors = pub[p].priors /\ pub'[p].built = pub[p].built
BY Types DEF RequestType

\* A worker that only moves on keeps its job.
LEMMA WorkerMoves ==
    ASSUME TypeOK, NEW w \in Workers, NEW pc \in WorkerPCs, worker' = [worker EXCEPT ![w].pc = pc]
    PROVE  /\ worker' \in [Workers -> WorkerType]
           /\ worker'[w].pc = pc /\ worker'[w].job = worker[w].job
           /\ \A x \in Workers : x # w => worker'[x] = worker[x]
BY Types DEF WorkerType

----------------------------------------------------------------------------
(* Rows of patch_jobs *)

\* The typed fields of a job row.
LEMMA JobTypes ==
    ASSUME TypeOK, NEW i \in DOMAIN jobs
    PROVE  /\ jobs[i] \in Job /\ i \in Nat /\ i >= 1 /\ i # 0
           /\ jobs[i].from \in Releases /\ jobs[i].to \in Releases
           /\ jobs[i].from_blob \in Blobs /\ jobs[i].to_blob \in Blobs
           /\ jobs[i].status \in Statuses /\ ShaOf(jobs[i]) \in PatchShas
<1>1. jobs[i] \in Job /\ i \in Nat /\ i >= 1
  BY Types, ElementType
<1>2. QED
  BY <1>1, JobFields

\* All that a step may do to the jobs there are: another status.
SameJobs ==
    /\ jobs' \in Seq(Job)
    /\ DOMAIN jobs \subseteq DOMAIN jobs'
    /\ \A i \in DOMAIN jobs : /\ jobs'[i].from = jobs[i].from /\ jobs'[i].to = jobs[i].to
                              /\ jobs'[i].from_blob = jobs[i].from_blob
                              /\ jobs'[i].to_blob = jobs[i].to_blob
                              /\ jobs[i].status = "deleted" => jobs'[i].status = "deleted"

\* Untouched rows are the same jobs.
LEMMA UnchangedJobs ==
    ASSUME TypeOK, UNCHANGED jobs
    PROVE  SameJobs /\ DOMAIN jobs' = DOMAIN jobs
BY Types DEF SameJobs

\* UPDATE patch_jobs SET status WHERE id.
LEMMA JobReplaced ==
    ASSUME TypeOK, NEW k \in DOMAIN jobs, NEW status \in Statuses, jobs[k].status # "deleted",
           jobs' = [jobs EXCEPT ![k] = WithStatus(jobs[k], status)]
    PROVE  /\ SameJobs /\ DOMAIN jobs' = DOMAIN jobs
           /\ jobs'[k].status = status
           /\ \A i \in DOMAIN jobs : i # k => jobs'[i] = jobs[i]
<1> DEFINE e == WithStatus(jobs[k], status)
<1>1. jobs \in Seq(Job) /\ jobs[k] \in Job
  BY Types, JobTypes
<1>2. /\ e \in Job /\ e.status = status /\ e.from = jobs[k].from /\ e.to = jobs[k].to
      /\ e.from_blob = jobs[k].from_blob /\ e.to_blob = jobs[k].to_blob
  BY <1>1, StatusChanged
<1> HIDE DEF e
<1>3. jobs' = [jobs EXCEPT ![k] = e]
  BY DEF e
<1>4. /\ jobs' \in Seq(Job) /\ DOMAIN jobs' = DOMAIN jobs /\ jobs'[k] = e
      /\ \A i \in DOMAIN jobs : i # k => jobs'[i] = jobs[i]
  BY <1>1, <1>2, <1>3, ReplacedElement
<1>5. QED
  BY <1>2, <1>4 DEF SameJobs

\* UPDATE patch_jobs SET status WHERE some condition.
LEMMA JobsUpdated ==
    ASSUME TypeOK, NEW where, NEW status \in Statuses,
           \A i \in where : i \in DOMAIN jobs
                            /\ (jobs[i].status = "deleted" => status = "deleted"),
           jobs' = [i \in DOMAIN jobs |->
                      IF i \in where THEN WithStatus(jobs[i], status) ELSE jobs[i]]
    PROVE  /\ SameJobs /\ DOMAIN jobs' = DOMAIN jobs
           /\ \A i \in DOMAIN jobs :
                jobs'[i].status = IF i \in where THEN status ELSE jobs[i].status
<1>1. ASSUME NEW i \in DOMAIN jobs
      PROVE  /\ jobs'[i] \in Job
             /\ jobs'[i].from = jobs[i].from /\ jobs'[i].to = jobs[i].to
             /\ jobs'[i].from_blob = jobs[i].from_blob /\ jobs'[i].to_blob = jobs[i].to_blob
             /\ jobs'[i].status = IF i \in where THEN status ELSE jobs[i].status
  <2>1. jobs[i] \in Job
    BY JobTypes
  <2>2. CASE i \in where
    <3>1. jobs'[i] = WithStatus(jobs[i], status)
      BY <2>2
    <3>2. QED
      BY <2>1, <2>2, <3>1, StatusChanged
  <2>3. CASE i \notin where
    BY <2>1, <2>3
  <2>4. QED
    BY <2>2, <2>3
<1>2. jobs \in Seq(Job)
  BY Types
<1>3. jobs' = [i \in DOMAIN jobs |-> jobs'[i]]
  OBVIOUS
<1>4. jobs' \in Seq(Job) /\ DOMAIN jobs' = DOMAIN jobs
  BY <1>1, <1>2, <1>3, MappedSequence
<1>5. QED
  BY <1>1, <1>4 DEF SameJobs

----------------------------------------------------------------------------
(* What the steps of the workers and of the processes do *)

\* The columns of the jobs stay, and so do all other workers.
WorkerChanges(w) ==
    /\ SameJobs /\ DOMAIN jobs' = DOMAIN jobs
    /\ worker' \in [Workers -> WorkerType]
    /\ \A x \in Workers : x # w => worker'[x] = worker[x]
    /\ patches' \subseteq Patch /\ patchFiles \subseteq patchFiles' /\ patchFiles' \subseteq PatchShas
    /\ count' \in CountType
    /\ UNCHANGED <<row, blobs, json, sig, up, pub, gc>>

\* What claiming a job changes, and what it leaves alone.
LEMMA ClaimEffect ==
    ASSUME TypeOK, NEW w \in Workers, ClaimNextPatchJob(w)
    PROVE  /\ WorkerChanges(w) /\ UNCHANGED <<patches, patchFiles>>
           /\ worker[w].pc = "idle" /\ Home[w] \in up
           /\ \E i \in DOMAIN jobs :
                /\ jobs[i].status = "pending" /\ \A k \in 1 .. i - 1 : jobs[k].status # "pending"
                /\ jobs'[i].status = "running"
                /\ \A k \in DOMAIN jobs : k # i => jobs'[k] = jobs[k]
                /\ worker'[w].pc = "build" /\ worker'[w].job = i
<1>1. PICK i \in DOMAIN jobs :
        /\ jobs[i].status = "pending" /\ \A k \in 1 .. i - 1 : jobs[k].status # "pending"
        /\ jobs' = [jobs EXCEPT ![i] = WithStatus(jobs[i], "running")]
        /\ worker' = [worker EXCEPT ![w] = [pc |-> "build", job |-> i]]
  BY DEF ClaimNextPatchJob
<1>2. /\ worker[w].pc = "idle" /\ Home[w] \in up
      /\ UNCHANGED <<row, patches, blobs, patchFiles, json, sig, up, pub, gc, count>>
  BY DEF ClaimNextPatchJob, files
<1>3. "running" \in Statuses
  BY DEF Statuses
<1>4. /\ SameJobs /\ DOMAIN jobs' = DOMAIN jobs /\ jobs'[i].status = "running"
      /\ \A k \in DOMAIN jobs : k # i => jobs'[k] = jobs[k]
  BY <1>1, <1>3, JobReplaced
<1> DEFINE e == [pc |-> "build", job |-> i]
<1>5. e \in WorkerType /\ e.pc = "build" /\ e.job = i
  BY JobTypes DEF WorkerType, WorkerPCs
<1>6. worker' = [worker EXCEPT ![w] = e]
  BY <1>1
<1> HIDE DEF e
<1>7. /\ worker' \in [Workers -> WorkerType] /\ worker'[w] = e
      /\ \A x \in Workers : x # w => worker'[x] = worker[x]
  BY <1>5, <1>6, Types
<1>8. WorkerChanges(w)
  BY <1>2, <1>4, <1>7, Types DEF WorkerChanges
<1>9. QED
  BY <1>1, <1>2, <1>4, <1>5, <1>7, <1>8

\* A worker's pc moves on and nothing else changes but patchFiles and patches.
LEMMA MoveEffect ==
    ASSUME TypeOK, NEW w \in Workers, NEW pc \in WorkerPCs,
           worker' = [worker EXCEPT ![w].pc = pc],
           patches' \subseteq Patch, patchFiles \subseteq patchFiles', patchFiles' \subseteq PatchShas,
           count' \in CountType,
           UNCHANGED <<jobs, row, blobs, json, sig, up, pub, gc>>
    PROVE  /\ WorkerChanges(w)
           /\ worker'[w].pc = pc /\ worker'[w].job = worker[w].job
BY WorkerMoves, UnchangedJobs DEF WorkerChanges

\* What building a patch changes, and what it leaves alone.
LEMMA BuildEffect ==
    ASSUME TypeOK, NEW w \in Workers, BuildPatch(w)
    PROVE  /\ WorkerChanges(w) /\ UNCHANGED <<jobs, patches>>
           /\ worker[w].pc = "build" /\ worker'[w].job = worker[w].job
           /\ \/ worker'[w].pc = "fail" /\ UNCHANGED patchFiles
              \/ /\ worker'[w].pc = "insert"
                 /\ patchFiles' = patchFiles \cup {ShaOf(jobs[worker[w].job])}
<1>1. /\ worker[w].pc = "build"
      /\ UNCHANGED <<row, jobs, patches, blobs, json, sig, up, pub, gc, count>>
  BY DEF BuildPatch, catalogue
<1>2. /\ worker[w].job \in DOMAIN jobs /\ "insert" \in WorkerPCs /\ "fail" \in WorkerPCs
  BY <1>1, Types DEF WorkerPCs
<1>3. ShaOf(jobs[worker[w].job]) \in PatchShas
  BY <1>2, JobTypes
<1>4. CASE worker' = [worker EXCEPT ![w].pc = "fail"] /\ UNCHANGED patchFiles
  BY <1>1, <1>2, <1>4, MoveEffect, Types
<1>5. CASE /\ worker' = [worker EXCEPT ![w].pc = "insert"]
           /\ patchFiles' = patchFiles \cup {ShaOf(jobs[worker[w].job])}
  BY <1>1, <1>2, <1>3, <1>5, MoveEffect, Types
<1>6. QED
  BY <1>4, <1>5 DEF BuildPatch, ShaOf

\* What a failed build changes, and what it leaves alone.
LEMMA BuildErrorEffect ==
    ASSUME TypeOK, NEW w \in Workers, BuildError(w)
    PROVE  /\ WorkerChanges(w) /\ UNCHANGED <<jobs, patches, patchFiles>>
           /\ worker[w].pc # "idle" /\ worker'[w].job = worker[w].job /\ worker'[w].pc = "fail"
<1>1. /\ worker[w].pc # "idle" /\ worker' = [worker EXCEPT ![w].pc = "fail"]
      /\ count' \in CountType /\ "fail" \in WorkerPCs
      /\ UNCHANGED <<row, jobs, patches, blobs, patchFiles, json, sig, up, pub, gc>>
  BY Counted DEF BuildError, Error, catalogue, files, WorkerPCs
<1>2. QED
  BY <1>1, MoveEffect, Types

\* What INSERT OR REPLACE INTO patches leaves behind.
LEMMA PatchInserted ==
    ASSUME TypeOK, NEW sha \in PatchShas, NEW f \in Releases, NEW t \in Releases,
           patches' = WithPatch(sha, f, t)
    PROVE  /\ patches' \subseteq Patch
           /\ \A q \in patches' :
                q \in patches \/ (q.sha = sha /\ q.from = f /\ q.to = t)
           /\ \E q \in patches' : q.sha = sha /\ q.from = f /\ q.to = t
           /\ \A q \in patches : \/ q \in patches'
                                 \/ q.sha = sha
                                 \/ q.from = f /\ q.to = t
<1> DEFINE e == [sha |-> sha, from |-> f, to |-> t]
<1>1. e \in Patch /\ e.sha = sha /\ e.from = f /\ e.to = t
  BY DEF Patch
<1>2. patches' = {q \in patches : q.sha # sha /\ <<q.from, q.to>> # <<f, t>>} \cup {e}
  BY DEF WithPatch
<1> HIDE DEF e
<1>3. patches' \subseteq Patch
  BY <1>1, <1>2, Types
<1>4. \A q \in patches' : q \in patches \/ q = e
  BY <1>2
<1>5. e \in patches'
  BY <1>2
<1>6. ASSUME NEW q \in patches, q \notin patches'
      PROVE  q.sha = sha \/ (q.from = f /\ q.to = t)
  BY <1>2, <1>6
<1>7. QED
  BY <1>1, <1>3, <1>4, <1>5, <1>6

\* What inserting a patch row changes, and what it leaves alone.
LEMMA InsertEffect ==
    ASSUME TypeOK, NEW w \in Workers, InsertPatch(w)
    PROVE  LET j == jobs[worker[w].job]
           IN  /\ WorkerChanges(w) /\ UNCHANGED <<jobs, patchFiles>>
               /\ worker[w].pc = "insert" /\ worker'[w].job = worker[w].job
               /\ worker'[w].pc = "complete"
               /\ worker[w].job \in DOMAIN jobs
               /\ patches' = WithPatch(ShaOf(j), j.from, j.to)
<1> DEFINE j == jobs[worker[w].job]
<1>1. /\ worker[w].pc = "insert"
      /\ worker' = [worker EXCEPT ![w].pc = "complete"]
      /\ patches' = WithPatch(ShaOf(j), j.from, j.to)
      /\ UNCHANGED <<row, jobs, blobs, patchFiles, json, sig, up, pub, gc, count>>
  BY DEF InsertPatch, files, ShaOf
<1>2. /\ worker[w].job \in DOMAIN jobs /\ "complete" \in WorkerPCs
  BY <1>1, Types DEF WorkerPCs
<1>3. j.from \in Releases /\ j.to \in Releases /\ ShaOf(j) \in PatchShas
  BY <1>2, JobTypes
<1> HIDE DEF j
<1>4. patches' \subseteq Patch
  BY <1>1, <1>3, PatchInserted
<1>5. WorkerChanges(w) /\ worker'[w].pc = "complete" /\ worker'[w].job = worker[w].job
  BY <1>1, <1>2, <1>4, MoveEffect, Types
<1>6. QED
  BY <1>1, <1>2, <1>5 DEF j

\* What writing back a job's outcome changes, and what it leaves alone.
LEMMA FinishEffect ==
    ASSUME TypeOK, NEW w \in Workers, worker[w].pc # "idle", NEW status \in Statuses,
           Finish(w, status)
    PROVE  /\ WorkerChanges(w) /\ UNCHANGED <<patches, patchFiles>>
           /\ worker'[w].pc = "idle" /\ worker'[w].job = 0
           /\ worker[w].job \in DOMAIN jobs
           /\ jobs'[worker[w].job].status =
                IF jobs[worker[w].job].status = "deleted" THEN "deleted" ELSE status
           /\ \A i \in DOMAIN jobs : i # worker[w].job => jobs'[i] = jobs[i]
<1> DEFINE k == worker[w].job
<1>1. /\ worker' = [worker EXCEPT ![w] = IdleWorker]
      /\ jobs' = [jobs EXCEPT ![k] = IF jobs[k].status = "deleted" THEN jobs[k]
                                     ELSE WithStatus(jobs[k], status)]
      /\ UNCHANGED <<row, patches, blobs, patchFiles, json, sig, up, pub, gc, count>>
  BY DEF Finish, files
<1>2. k \in DOMAIN jobs /\ jobs \in Seq(Job) /\ worker \in [Workers -> WorkerType]
  BY Types
<1>3. /\ worker' \in [Workers -> WorkerType] /\ worker'[w].pc = "idle" /\ worker'[w].job = 0
      /\ \A x \in Workers : x # w => worker'[x] = worker[x]
  BY <1>1, <1>2, IdleWorkerFields
<1> HIDE DEF k
<1>4. /\ SameJobs /\ DOMAIN jobs' = DOMAIN jobs
      /\ jobs'[k].status = IF jobs[k].status = "deleted" THEN "deleted" ELSE status
      /\ \A i \in DOMAIN jobs : i # k => jobs'[i] = jobs[i]
  <2>1. CASE jobs[k].status = "deleted"
    <3>1. jobs' = jobs
      BY <1>1, <1>2, <2>1
    <3>2. QED
      BY <2>1, <3>1, UnchangedJobs
  <2>2. CASE jobs[k].status # "deleted"
    <3>1. jobs' = [jobs EXCEPT ![k] = WithStatus(jobs[k], status)]
      BY <1>1, <2>2
    <3>2. QED
      BY <1>2, <2>2, <3>1, JobReplaced
  <2>3. QED
    BY <2>1, <2>2
<1>5. WorkerChanges(w)
  BY <1>1, <1>3, <1>4, Types DEF WorkerChanges
<1>6. QED
  BY <1>1, <1>2, <1>3, <1>4, <1>5 DEF k

\* What losing a failure changes, and what it leaves alone.
LEMMA FailureLostEffect ==
    ASSUME TypeOK, NEW w \in Workers, FailureLost(w)
    PROVE  /\ WorkerChanges(w) /\ UNCHANGED <<jobs, patches, patchFiles>>
           /\ worker'[w].pc = "idle" /\ worker'[w].job = 0
           /\ worker' = [worker EXCEPT ![w] = IdleWorker]
<1>1. /\ worker' = [worker EXCEPT ![w] = IdleWorker] /\ count.errors < MaxErrors
      /\ count' = [count EXCEPT !.errors = @ + 1, !.lost = @ \cup {worker[w].job}]
      /\ UNCHANGED <<row, jobs, patches, blobs, patchFiles, json, sig, up, pub, gc>>
  BY DEF FailureLost, catalogue, files
<1>2. count' \in CountType
  <2>1. count \in CountType /\ MaxErrors \in Nat /\ worker[w].job \in Nat
    BY Types, BoundsAssumption DEF WorkerType
  <2>2. count.errors + 1 \in 0..MaxErrors /\ count.lost \cup {worker[w].job} \in SUBSET Nat
    BY <1>1, <2>1 DEF CountType
  <2>3. QED
    BY <1>1, <2>1, <2>2 DEF CountType
<1>3. /\ worker' \in [Workers -> WorkerType] /\ worker'[w].pc = "idle" /\ worker'[w].job = 0
      /\ \A x \in Workers : x # w => worker'[x] = worker[x]
  BY <1>1, Types, IdleWorkerFields
<1>4. QED
  BY <1>1, <1>2, <1>3, UnchangedJobs, Types DEF WorkerChanges

\* What booting a server changes, and what it leaves alone.
LEMMA BootEffect ==
    ASSUME TypeOK, NEW s \in Servers, Boot(s)
    PROVE  /\ UNCHANGED <<row, patches, blobs, patchFiles, json, sig, pub, worker, gc>>
           /\ count' \in CountType
           /\ s \notin up /\ up' = up \cup {s} /\ (OnlineGc \/ gc.pc = "idle")
           /\ SameJobs /\ DOMAIN jobs' = DOMAIN jobs
           /\ \A i \in DOMAIN jobs :
                jobs'[i].status = IF jobs[i].status = "running" THEN "pending"
                                  ELSE jobs[i].status
<1> DEFINE where == {i \in DOMAIN jobs : jobs[i].status = "running"}
<1>1. /\ UNCHANGED <<row, patches, blobs, patchFiles, json, sig, pub, worker, gc>>
      /\ count' = [count EXCEPT !.lost = {}]
      /\ s \notin up /\ up' = up \cup {s} /\ (OnlineGc \/ gc.pc = "idle")
      /\ jobs' = [i \in DOMAIN jobs |->
                    IF jobs[i].status = "running"
                    THEN WithStatus(jobs[i], "pending") ELSE jobs[i]]
  BY DEF Boot, files
<1>2. jobs' = [i \in DOMAIN jobs |->
                 IF i \in where THEN WithStatus(jobs[i], "pending") ELSE jobs[i]]
  BY <1>1
<1>3. /\ "pending" \in Statuses
      /\ \A i \in where : i \in DOMAIN jobs
                          /\ (jobs[i].status = "deleted" => "pending" = "deleted")
  BY DEF Statuses
<1>4. /\ SameJobs /\ DOMAIN jobs' = DOMAIN jobs
      /\ \A i \in DOMAIN jobs :
           jobs'[i].status = IF i \in where THEN "pending" ELSE jobs[i].status
  <2> HIDE DEF where
  <2> QED
    BY <1>2, <1>3, JobsUpdated
<1>5. count' \in CountType
  BY <1>1, Types DEF CountType
<1>6. QED
  BY <1>1, <1>4, <1>5

\* What the crash of a server changes, and what it leaves alone.
LEMMA CrashEffect ==
    ASSUME TypeOK, NEW s \in Servers, Crash(s)
    PROVE  /\ UNCHANGED <<row, jobs, patches, blobs, patchFiles, json, sig, gc>>
           /\ up' = up \ {s} /\ count' \in CountType /\ SameJobs /\ s \in up
           /\ pub' \in [Publishers -> RequestType] /\ worker' \in [Workers -> WorkerType]
           /\ \A p \in Publishers : pub'[p] = IF Home[p] = s THEN NoRequest ELSE pub[p]
           /\ \A w \in Workers : worker'[w] = IF Home[w] = s THEN IdleWorker ELSE worker[w]
<1>1. /\ UNCHANGED <<row, jobs, patches, blobs, patchFiles, json, sig, gc>>
      /\ up' = up \ {s} /\ count' \in CountType /\ s \in up
      /\ pub' = [p \in Publishers |-> IF Home[p] = s THEN NoRequest ELSE pub[p]]
      /\ worker' = [w \in Workers |-> IF Home[w] = s THEN IdleWorker ELSE worker[w]]
  BY Counted DEF Crash, Killed, catalogue, files
<1>2. QED
  BY <1>1, Types, UnchangedJobs, NoRequestFields, IdleWorkerFields

----------------------------------------------------------------------------
(* What the steps of a publish do *)

PubChanges(p) ==
    /\ pub' \in [Publishers -> RequestType]
    /\ \A q \in Publishers : q # p => pub'[q] = pub[q]
    /\ count' \in CountType
    /\ UNCHANGED <<patches, patchFiles, up, worker, gc>>

SameRequest(p) ==
    /\ pub'[p].rel = pub[p].rel /\ pub'[p].blob = pub[p].blob
    /\ pub'[p].priors = pub[p].priors /\ pub'[p].built = pub[p].built

\* Replacing one request is a change of that publisher alone.
LEMMA RequestReplaced ==
    ASSUME TypeOK, NEW p \in Publishers, NEW e \in RequestType, pub' = [pub EXCEPT ![p] = e],
           count' \in CountType, UNCHANGED <<patches, patchFiles, up, worker, gc>>
    PROVE  PubChanges(p) /\ pub'[p] = e
BY Types DEF PubChanges

\* So is moving one request on.
LEMMA RequestMoves ==
    ASSUME TypeOK, NEW p \in Publishers, NEW pc \in PubPCs, pub' = [pub EXCEPT ![p].pc = pc],
           UNCHANGED <<patches, patchFiles, up, worker, gc, count>>
    PROVE  PubChanges(p) /\ pub'[p].pc = pc /\ SameRequest(p)
<1>1. count' \in CountType /\ pub \in [Publishers -> RequestType]
  BY Types
<1>2. /\ pub'[p] \in RequestType /\ pub'[p].pc = pc /\ SameRequest(p)
  BY PubMoves DEF SameRequest
<1>3. /\ pub' \in [Publishers -> RequestType]
      /\ \A q \in Publishers : q # p => pub'[q] = pub[q]
  BY <1>1, <1>2
<1>4. QED
  BY <1>1, <1>2, <1>3 DEF PubChanges

\* What accepting a publication changes, and what it leaves alone.
LEMMA BeginEffect ==
    ASSUME TypeOK, NEW p \in Publishers, NEW r \in Releases, NEW b \in Offered[r],
           BeginPublish(p, r, b)
    PROVE  /\ PubChanges(p) /\ UNCHANGED <<row, jobs, blobs, json, sig>>
           /\ Home[p] \in up /\ pub[p].pc = "idle"
           /\ pub'[p].pc = "put" /\ pub'[p].rel = r /\ pub'[p].blob = b
           /\ pub'[p].priors = {} /\ pub'[p].built = {}
<1> DEFINE e == Request("put", r, b, {}, {})
<1>1. b \in Blobs /\ "put" \in PubPCs
  BY OfferedAssumption DEF PubPCs
<1>2. /\ e \in RequestType /\ e.pc = "put" /\ e.rel = r /\ e.blob = b
      /\ e.priors = {} /\ e.built = {}
  BY <1>1, RequestFields
<1>3. /\ pub' = [pub EXCEPT ![p] = e] /\ count' \in CountType
      /\ Home[p] \in up /\ pub[p].pc = "idle"
      /\ UNCHANGED <<row, jobs, patches, blobs, patchFiles, json, sig, up, worker, gc>>
  BY Counted DEF BeginPublish, catalogue, files
<1> HIDE DEF e
<1>4. PubChanges(p) /\ pub'[p] = e
  BY <1>2, <1>3, RequestReplaced
<1>5. QED
  BY <1>2, <1>3, <1>4

\* What storing the blob changes, and what it leaves alone.
LEMMA PutEffect ==
    ASSUME TypeOK, NEW p \in Publishers, PutBlob(p)
    PROVE  /\ PubChanges(p) /\ UNCHANGED <<row, jobs, json, sig>>
           /\ pub[p].pc = "put" /\ pub'[p].pc = "insert" /\ SameRequest(p)
           /\ blobs' = blobs \cup {pub[p].blob}
<1>1. /\ pub' = [pub EXCEPT ![p].pc = "insert"] /\ "insert" \in PubPCs /\ pub[p].pc = "put"
      /\ blobs' = blobs \cup {pub[p].blob}
      /\ UNCHANGED <<row, jobs, patches, patchFiles, json, sig, up, worker, gc, count>>
  BY DEF PutBlob, catalogue, PubPCs
<1>2. QED
  BY <1>1, RequestMoves

\* What inserting the release row changes, and what it leaves alone.
LEMMA InsertReleaseEffect ==
    ASSUME TypeOK, NEW p \in Publishers, InsertReleaseIfNew(p)
    PROVE  /\ PubChanges(p) /\ UNCHANGED <<jobs, blobs, json, sig>>
           /\ pub[p].pc = "insert" /\ SameRequest(p)
           /\ \/ /\ row[pub[p].rel] = None /\ pub'[p].pc = "json"
                 /\ row' = [row EXCEPT ![pub[p].rel] = pub[p].blob]
              \/ /\ row[pub[p].rel] # None /\ pub'[p].pc \in {"answer200", "answer409"}
                 /\ row' = row
<1>1. /\ pub[p].pc = "insert"
      /\ UNCHANGED <<jobs, patches, blobs, patchFiles, json, sig, up, worker, gc, count>>
  BY DEF InsertReleaseIfNew, files
<1>2. "json" \in PubPCs /\ "answer200" \in PubPCs /\ "answer409" \in PubPCs
  BY DEF PubPCs
<1>3. CASE row[pub[p].rel] = None
  <2>1. /\ pub' = [pub EXCEPT ![p].pc = "json"]
        /\ row' = [row EXCEPT ![pub[p].rel] = pub[p].blob]
    BY <1>3 DEF InsertReleaseIfNew
  <2>2. QED
    BY <1>1, <1>2, <1>3, <2>1, RequestMoves
<1>4. CASE row[pub[p].rel] # None
  <2>1. row' = row
    BY <1>4 DEF InsertReleaseIfNew
  <2>2. CASE pub' = [pub EXCEPT ![p].pc = "answer200"]
    BY <1>1, <1>2, <1>4, <2>1, <2>2, RequestMoves
  <2>3. CASE pub' = [pub EXCEPT ![p].pc = "answer409"]
    BY <1>1, <1>2, <1>4, <2>1, <2>3, RequestMoves
  <2>4. QED
    BY <1>4, <2>2, <2>3 DEF InsertReleaseIfNew
<1>5. QED
  BY <1>3, <1>4

\* What the manifest of a request lists.
LEMMA ManifestFields ==
    ASSUME NEW p \in Publishers, NEW built
    PROVE  /\ TheManifest(p, built).rel = pub[p].rel
           /\ TheManifest(p, built).blob = pub[p].blob
           /\ TheManifest(p, built).patches_in = built
           /\ /\ pub[p].rel \in Releases /\ pub[p].blob \in Blobs
              /\ built \in SUBSET (Versions \X PatchShas)
              => TheManifest(p, built) \in Manifest
BY DEF TheManifest, Manifest

\* What writing the manifest changes, and what it leaves alone.
LEMMA JsonEffect ==
    ASSUME TypeOK, NEW p \in Publishers, WriteJson(p)
    PROVE  /\ PubChanges(p) /\ UNCHANGED <<row, jobs, blobs, sig>>
           /\ pub[p].pc \in {"json", "json2"} /\ SameRequest(p)
           /\ pub'[p].pc = IF pub[p].pc = "json" THEN "sig" ELSE "sig2"
           /\ json' = [json EXCEPT ![Version(pub[p].rel)] = TheManifest(p, pub[p].built)]
<1> DEFINE pc == IF pub[p].pc = "json" THEN "sig" ELSE "sig2"
<1>1. /\ pub' = [pub EXCEPT ![p].pc = pc] /\ pub[p].pc \in {"json", "json2"}
      /\ json' = [json EXCEPT ![Version(pub[p].rel)] = TheManifest(p, pub[p].built)]
      /\ UNCHANGED <<row, jobs, patches, blobs, patchFiles, sig, up, worker, gc, count>>
  BY DEF WriteJson, catalogue
<1>2. pc \in PubPCs
  BY DEF PubPCs
<1> HIDE DEF pc
<1>3. PubChanges(p) /\ pub'[p].pc = pc /\ SameRequest(p)
  BY <1>1, <1>2, RequestMoves
<1>4. QED
  BY <1>1, <1>3 DEF pc

\* What writing its signature changes, and what it leaves alone.
LEMMA SigEffect ==
    ASSUME TypeOK, NEW p \in Publishers, WriteSig(p)
    PROVE  /\ PubChanges(p) /\ UNCHANGED <<row, jobs, blobs, json>>
           /\ pub[p].pc \in {"sig", "sig2"} /\ SameRequest(p)
           /\ pub'[p].pc \in {"list", "answer201"}
           /\ sig' = [sig EXCEPT ![Version(pub[p].rel)] = TheManifest(p, pub[p].built)]
<1> DEFINE pc == IF pub[p].pc = "sig" THEN "list" ELSE "answer201"
<1>1. /\ pub' = [pub EXCEPT ![p].pc = pc] /\ pub[p].pc \in {"sig", "sig2"}
      /\ sig' = [sig EXCEPT ![Version(pub[p].rel)] = TheManifest(p, pub[p].built)]
      /\ UNCHANGED <<row, jobs, patches, blobs, patchFiles, json, up, worker, gc, count>>
  BY DEF WriteSig, catalogue
<1>2. pc \in PubPCs /\ pc \in {"list", "answer201"}
  BY DEF PubPCs
<1> HIDE DEF pc
<1>3. PubChanges(p) /\ pub'[p].pc = pc /\ SameRequest(p)
  BY <1>1, <1>2, RequestMoves
<1>4. QED
  BY <1>1, <1>2, <1>3

\* The releases of the same platform that have a row, with their blobs.
Priors(r) == {<<q, row[q]>> : q \in {q \in Existing : q[1] = r[1] /\ q # r}}

\* Every prior is a live release of the same distribution.
LEMMA PriorsTypes ==
    ASSUME TypeOK, NEW r
    PROVE  /\ Priors(r) \in SUBSET (Releases \X Blobs)
           /\ \A prior \in Priors(r) : row[prior[1]] = prior[2] /\ prior[1][1] = r[1]
<1>1. ASSUME NEW q \in Existing
      PROVE  q \in Releases /\ row[q] \in Blobs
  BY Types DEF Existing
<1>2. QED
  BY <1>1 DEF Priors

\* What listing the priors changes, and what it leaves alone.
LEMMA ListEffect ==
    ASSUME TypeOK, NEW p \in Publishers, ListPriors(p)
    PROVE  /\ PubChanges(p) /\ UNCHANGED <<row, jobs, blobs, json, sig>>
           /\ pub[p].pc = "list"
           /\ pub'[p].rel = pub[p].rel /\ pub'[p].blob = pub[p].blob
           /\ pub'[p].built = pub[p].built /\ pub'[p].priors = Priors(pub[p].rel)
           /\ pub'[p].pc = IF Priors(pub[p].rel) = {} THEN "answer201" ELSE "enqueue"
<1> DEFINE pr == Priors(pub[p].rel)
           pc == IF pr = {} THEN "answer201" ELSE "enqueue"
           e == Request(pc, pub[p].rel, pub[p].blob, pr, pub[p].built)
<1>1. /\ pub[p].pc = "list"
      /\ UNCHANGED <<row, jobs, patches, blobs, patchFiles, json, sig, up, worker, gc, count>>
  BY DEF ListPriors, catalogue, files
<1>2. pub' = [pub EXCEPT ![p] = e]
  BY DEF ListPriors, Priors
<1>3. pr \in SUBSET (Releases \X Blobs) /\ pc \in PubPCs
  BY PriorsTypes DEF PubPCs
<1>a. pc = IF pr = {} THEN "answer201" ELSE "enqueue"
  OBVIOUS
<1> HIDE DEF pr, pc
<1>4. /\ e \in RequestType /\ e.pc = pc /\ e.rel = pub[p].rel /\ e.blob = pub[p].blob
      /\ e.priors = pr /\ e.built = pub[p].built
  BY <1>3, PubFields, RequestFields
<1> HIDE DEF e
<1>5. PubChanges(p) /\ pub'[p] = e
  BY <1>1, <1>2, <1>4, RequestReplaced, Types
<1>6. QED
  BY <1>1, <1>4, <1>5, <1>a DEF pr

NewJob(p, prior) ==
    [from |-> prior[1], to |-> pub[p].rel, from_blob |-> prior[2], to_blob |-> pub[p].blob,
     status |-> "pending"]

\* What enqueueing one patch job changes, and what it leaves alone.
LEMMA EnqueueEffect ==
    ASSUME TypeOK, NEW p \in Publishers, EnqueuePatchJob(p),
           pub[p].rel \in Releases, pub[p].blob \in Blobs
    PROVE  /\ PubChanges(p) /\ UNCHANGED <<row, blobs, json, sig>>
           /\ pub[p].pc = "enqueue"
           /\ pub'[p].rel = pub[p].rel /\ pub'[p].blob = pub[p].blob
           /\ pub'[p].built = pub[p].built
           /\ pub'[p].priors \subseteq pub[p].priors
           /\ pub'[p].pc = IF pub'[p].priors = {} THEN "tail" ELSE "enqueue"
           /\ SameJobs
           /\ \A i \in DOMAIN jobs : jobs'[i] = jobs[i]
           /\ \/ jobs' = jobs
              \/ \E prior \in pub[p].priors :
                   /\ DOMAIN jobs' = DOMAIN jobs \cup {Len(jobs) + 1}
                   /\ Len(jobs) + 1 \notin DOMAIN jobs
                   /\ jobs'[Len(jobs) + 1] = NewJob(p, prior)
                   /\ jobs' = Append(jobs, NewJob(p, prior))
<1>1. PICK prior \in pub[p].priors :
        /\ jobs' = jobs \/ jobs' = Append(jobs, NewJob(p, prior))
        /\ pub' = [pub EXCEPT ![p] =
                     Request(IF pub[p].priors = {prior} THEN "tail" ELSE pub[p].pc,
                             pub[p].rel, pub[p].blob, pub[p].priors \ {prior}, pub[p].built)]
  BY DEF EnqueuePatchJob, NewJob
<1>2. /\ pub[p].pc = "enqueue"
      /\ UNCHANGED <<row, patches, blobs, patchFiles, json, sig, up, worker, gc, count>>
  BY DEF EnqueuePatchJob, files
<1> DEFINE rest == pub[p].priors \ {prior}
           pc == IF rest = {} THEN "tail" ELSE "enqueue"
           e == Request(pc, pub[p].rel, pub[p].blob, rest, pub[p].built)
<1>3. pub' = [pub EXCEPT ![p] = e]
  <2>1. (pub[p].priors = {prior}) <=> (rest = {})
    OBVIOUS
  <2>2. (IF pub[p].priors = {prior} THEN "tail" ELSE pub[p].pc) = pc
    BY <1>2, <2>1
  <2> HIDE DEF rest, pc
  <2>3. QED
    BY <1>1, <2>2 DEF rest
<1>4. /\ rest \in SUBSET (Releases \X Blobs) /\ pc \in PubPCs
      /\ rest \subseteq pub[p].priors /\ pc = IF rest = {} THEN "tail" ELSE "enqueue"
  BY PubFields DEF PubPCs
<1> HIDE DEF rest, pc
<1>5. /\ e \in RequestType /\ e.pc = pc /\ e.rel = pub[p].rel /\ e.blob = pub[p].blob
      /\ e.priors = rest /\ e.built = pub[p].built
  BY <1>4, PubFields, RequestFields
<1> HIDE DEF e
<1>6. PubChanges(p) /\ pub'[p] = e
  BY <1>2, <1>3, <1>5, RequestReplaced, Types
<1>7. /\ SameJobs /\ \A i \in DOMAIN jobs : jobs'[i] = jobs[i]
      /\ \/ jobs' = jobs
         \/ /\ DOMAIN jobs' = DOMAIN jobs \cup {Len(jobs) + 1}
            /\ Len(jobs) + 1 \notin DOMAIN jobs
            /\ jobs'[Len(jobs) + 1] = NewJob(p, prior)
            /\ jobs' = Append(jobs, NewJob(p, prior))
  <2>1. CASE jobs' = jobs
    BY <2>1, UnchangedJobs
  <2>2. CASE jobs' = Append(jobs, NewJob(p, prior))
    <3> DEFINE j == NewJob(p, prior)
    <3>1. prior \in Releases \X Blobs
      BY PubFields
    <3>2. j \in Job
      BY <3>1 DEF NewJob, Job, Statuses
    <3>3. jobs \in Seq(Job) /\ jobs' = Append(jobs, j)
      BY <2>2, Types
    <3> HIDE DEF j
    <3>4. /\ jobs' \in Seq(Job) /\ Len(jobs) + 1 \notin DOMAIN jobs
          /\ DOMAIN jobs' = DOMAIN jobs \cup {Len(jobs) + 1}
          /\ jobs'[Len(jobs) + 1] = j
          /\ \A i \in DOMAIN jobs : jobs'[i] = jobs[i]
      BY <3>2, <3>3, AppendedElement
    <3>5. QED
      BY <3>3, <3>4 DEF SameJobs, j
  <2>3. QED
    BY <1>1, <2>1, <2>2
<1>8. QED
  BY <1>2, <1>4, <1>5, <1>6, <1>7

Finished(r) == {i \in JobsTo(r) : jobs[i].status = "done"}

\* What waiting for the jobs changes, and what it leaves alone.
LEMMA TailEffect ==
    ASSUME TypeOK, NEW p \in Publishers, TailPatchJobs(p)
    PROVE  /\ PubChanges(p) /\ UNCHANGED <<row, jobs, blobs, json, sig>>
           /\ pub[p].pc = "tail" /\ pub'[p].pc \in {"answer201", "json2"}
           /\ pub'[p].rel = pub[p].rel /\ pub'[p].blob = pub[p].blob
           /\ pub'[p].priors = pub[p].priors
           /\ \A e \in pub'[p].built : \E i \in Finished(pub[p].rel) :
                e = <<Version(jobs[i].from), ShaOf(jobs[i])>>
<1> DEFINE built == {<<Version(jobs[i].from), ShaOf(jobs[i])>> : i \in Finished(pub[p].rel)}
           pc == IF built = {} THEN "answer201" ELSE "json2"
           e == Request(pc, pub[p].rel, pub[p].blob, pub[p].priors, built)
<1>1. /\ pub[p].pc = "tail"
      /\ UNCHANGED <<row, jobs, patches, blobs, patchFiles, json, sig, up, worker, gc, count>>
  BY DEF TailPatchJobs, catalogue, files
<1>2. pub' = [pub EXCEPT ![p] = e]
  BY DEF TailPatchJobs, Finished, ShaOf
<1>3. built \in SUBSET (Versions \X PatchShas)
  <2>1. ASSUME NEW i \in Finished(pub[p].rel)
        PROVE  Version(jobs[i].from) \in Versions /\ ShaOf(jobs[i]) \in PatchShas
    <3>1. i \in DOMAIN jobs
      BY DEF Finished, JobsTo
    <3>2. jobs[i].from \in Releases /\ ShaOf(jobs[i]) \in PatchShas
      BY <3>1, JobTypes
    <3>3. QED
      BY <3>2 DEF Releases, Version
  <2>2. QED
    BY <2>1
<1>4. pc \in PubPCs /\ pc \in {"answer201", "json2"}
  BY DEF PubPCs
<1>5. \A x \in built : \E i \in Finished(pub[p].rel) :
         x = <<Version(jobs[i].from), ShaOf(jobs[i])>>
  OBVIOUS
<1> HIDE DEF built, pc
<1>6. /\ e \in RequestType /\ e.pc = pc /\ e.rel = pub[p].rel /\ e.blob = pub[p].blob
      /\ e.priors = pub[p].priors /\ e.built = built
  BY <1>3, <1>4, PubFields, RequestFields
<1> HIDE DEF e
<1>7. PubChanges(p) /\ pub'[p] = e
  BY <1>1, <1>2, <1>6, RequestReplaced, Types
<1>8. QED
  BY <1>1, <1>4, <1>5, <1>6, <1>7

\* What answering the publisher changes, and what it leaves alone.
LEMMA AnswerEffect ==
    ASSUME TypeOK, NEW p \in Publishers, Answer(p)
    PROVE  /\ PubChanges(p) /\ UNCHANGED <<row, jobs, blobs, json, sig>>
           /\ pub[p].pc # "idle" /\ pub'[p] = NoRequest
<1>1. /\ pub[p].pc # "idle" /\ pub' = [pub EXCEPT ![p] = NoRequest]
      /\ UNCHANGED <<row, jobs, patches, blobs, patchFiles, json, sig, up, worker, gc, count>>
  BY DEF Answer, catalogue, files
<1>2. QED
  BY <1>1, RequestReplaced, NoRequestFields, Types

\* What an error in a request changes, and what it leaves alone.
LEMMA PublishErrorEffect ==
    ASSUME TypeOK, NEW p \in Publishers, PublishError(p)
    PROVE  /\ PubChanges(p) /\ UNCHANGED <<row, jobs, blobs, json, sig>>
           /\ pub[p].pc # "idle"
           /\ \/ pub'[p] = NoRequest
              \/ /\ pub[p].pc \in {"list", "enqueue", "tail"} /\ pub'[p].pc = "answer201"
                 /\ pub'[p].rel = pub[p].rel /\ pub'[p].blob = pub[p].blob
                 /\ pub'[p].priors = {} /\ pub'[p].built = pub[p].built
<1>1. /\ pub[p].pc # "idle" /\ count' \in CountType
      /\ UNCHANGED <<row, jobs, patches, blobs, patchFiles, json, sig, up, worker, gc>>
  BY Counted DEF PublishError, Error, catalogue, files
<1>2. CASE pub' = [pub EXCEPT ![p] = NoRequest]
  BY <1>1, <1>2, RequestReplaced, NoRequestFields
<1>3. CASE /\ pub[p].pc \in {"list", "enqueue", "tail"}
           /\ pub' = [pub EXCEPT ![p] =
                        Request("answer201", pub[p].rel, pub[p].blob, {}, pub[p].built)]
  <2> DEFINE e == Request("answer201", pub[p].rel, pub[p].blob, {}, pub[p].built)
  <2>1. "answer201" \in PubPCs /\ {} \in SUBSET (Releases \X Blobs)
    BY DEF PubPCs
  <2>2. /\ e \in RequestType /\ e.pc = "answer201" /\ e.rel = pub[p].rel
        /\ e.blob = pub[p].blob /\ e.priors = {} /\ e.built = pub[p].built
    BY <2>1, PubFields, RequestFields
  <2>3. pub' = [pub EXCEPT ![p] = e]
    BY <1>3
  <2> HIDE DEF e
  <2>4. PubChanges(p) /\ pub'[p] = e
    BY <1>1, <2>2, <2>3, RequestReplaced
  <2>5. QED
    BY <1>1, <1>3, <2>2, <2>4
<1>4. QED
  BY <1>2, <1>3 DEF PublishError

----------------------------------------------------------------------------
(* What the steps of the GC do *)

GcChanges ==
    /\ gc' \in RunType /\ count' \in CountType
    /\ patches' \subseteq Patch /\ patchFiles' \subseteq PatchShas
    /\ SameJobs /\ DOMAIN jobs' = DOMAIN jobs
    /\ UNCHANGED <<up, pub, worker>>

\* What planning a collection changes, and what it leaves alone.
LEMMA BeginGcEffect ==
    ASSUME TypeOK, BeginGc
    PROVE  /\ GcChanges /\ gc.pc = "idle" /\ (OnlineGc \/ up = {})
           /\ UNCHANGED <<row, jobs, patches, blobs, patchFiles, json, sig>>
           /\ gc'.pc = "plan" /\ gc'.rel = None /\ gc'.shas = {} /\ gc'.torn = gc.torn
           /\ \A c \in gc'.todo : c[1] \in Existing /\ c[2] = row[c[1]]
<1>1. PICK keep \in Latest : \E drop \in SUBSET (Existing \ {keep}) :
        gc' = Run("plan", {<<r, row[r]>> : r \in drop}, None, None, {}, gc.torn)
  BY DEF BeginGc
<1>2. PICK drop \in SUBSET (Existing \ {keep}) :
        gc' = Run("plan", {<<r, row[r]>> : r \in drop}, None, None, {}, gc.torn)
  BY <1>1
<1>3. /\ gc.pc = "idle" /\ (OnlineGc \/ up = {}) /\ count' \in CountType
      /\ UNCHANGED <<row, jobs, patches, blobs, patchFiles, json, sig, up, pub, worker>>
  BY Counted DEF BeginGc, catalogue, files
<1> DEFINE todo == {<<r, row[r]>> : r \in drop}
<1>4. \A r \in drop : r \in Existing /\ r \in Releases /\ row[r] \in Blobs
  BY Types DEF Existing
<1>5. /\ todo \in SUBSET (Releases \X Blobs)
      /\ \A c \in todo : c[1] \in Existing /\ c[2] = row[c[1]]
  BY <1>4
<1>6. gc' = Run("plan", todo, None, None, {}, gc.torn)
  BY <1>2
<1> HIDE DEF todo
<1>7. "plan" \in GcPCs
  BY DEF GcPCs
<1>8. gc' \in RunType /\ gc'.pc = "plan" /\ gc'.rel = None /\ gc'.shas = {}
      /\ gc'.torn = gc.torn /\ gc'.todo = todo
  BY <1>5, <1>6, <1>7, GcFields, RunFields
<1>9. GcChanges
  BY <1>3, <1>8, Types, UnchangedJobs DEF GcChanges
<1>10. QED
  BY <1>3, <1>5, <1>8, <1>9

\* What building an edge of the plan changes, and what it leaves alone.
LEMMA BuildEdgeEffect ==
    ASSUME TypeOK, NEW f \in Releases, NEW t \in Releases, BuildEdge(f, t)
    PROVE  /\ GcChanges /\ gc.pc = "plan"
           /\ UNCHANGED <<row, jobs, blobs, json, sig, gc>>
           /\ f \in Existing /\ t \in Existing
           /\ <<row[f], row[t]>> \in PatchShas
           /\ patchFiles' = patchFiles \cup {<<row[f], row[t]>>}
           /\ patches' = WithPatch(<<row[f], row[t]>>, f, t)
<1>1. /\ gc.pc = "plan" /\ f \in Existing /\ t \in Existing
      /\ patchFiles' = patchFiles \cup {<<row[f], row[t]>>}
      /\ patches' = WithPatch(<<row[f], row[t]>>, f, t)
      /\ UNCHANGED <<row, jobs, blobs, json, sig, up, pub, worker, gc, count>>
  BY DEF BuildEdge, Latest
<1>2. row[f] \in Blobs /\ row[t] \in Blobs
  BY <1>1, Types DEF Existing
<1>3. <<row[f], row[t]>> \in PatchShas
  BY <1>2 DEF PatchShas
<1>4. patches' \subseteq Patch
  BY <1>1, <1>3, PatchInserted
<1>5. GcChanges
  BY <1>1, <1>3, <1>4, Types, UnchangedJobs DEF GcChanges
<1>6. QED
  BY <1>1, <1>3, <1>5

\* What starting the next drop changes, and what it leaves alone.
LEMMA DropNextEffect ==
    ASSUME TypeOK, NEW c \in gc.todo, DropNext(c)
    PROVE  /\ GcChanges /\ gc.pc \in {"plan", "next"}
           /\ UNCHANGED <<row, jobs, patches, blobs, patchFiles, json, sig>>
           /\ gc'.pc \in {"patchRows", "patchFiles"} /\ gc'.todo = gc.todo \ {c}
           /\ gc'.rel = c[1] /\ gc'.blob = c[2] /\ gc'.torn = gc.torn
           /\ gc'.shas = {t.sha : t \in Touching(c[1])}
           /\ c[1] \in Releases
<1> DEFINE shas == {t.sha : t \in Touching(c[1])}
           pc == IF shas = {} THEN "patchRows" ELSE "patchFiles"
<1>1. /\ gc.pc \in {"plan", "next"}
      /\ gc' = Run(pc, gc.todo \ {c}, c[1], c[2], shas, gc.torn)
      /\ UNCHANGED <<row, jobs, patches, blobs, patchFiles, json, sig, up, pub, worker, count>>
  BY DEF DropNext, catalogue, files
<1>2. pc \in GcPCs /\ pc \in {"patchRows", "patchFiles"}
  BY DEF GcPCs
<1>3. c \in Releases \X Blobs /\ gc.todo \ {c} \in SUBSET (Releases \X Blobs)
  BY GcFields
<1>4. c[1] \in Releases /\ c[2] \in Blobs
  BY <1>3
<1>5. shas \in SUBSET PatchShas
  <2>1. \A t \in patches : t.sha \in PatchShas
    BY Types DEF Patch
  <2>2. QED
    BY <2>1 DEF Touching
<1> HIDE DEF pc
<1>6. /\ gc' \in RunType /\ gc'.pc = pc /\ gc'.todo = gc.todo \ {c} /\ gc'.rel = c[1]
      /\ gc'.blob = c[2] /\ gc'.torn = gc.torn /\ gc'.shas = shas
  <2> HIDE DEF shas
  <2> QED
    BY <1>1, <1>2, <1>3, <1>4, <1>5, GcFields, RunFields
<1>7. GcChanges
  BY <1>1, <1>6, Types, UnchangedJobs DEF GcChanges
<1>8. QED
  BY <1>1, <1>2, <1>4, <1>6, <1>7

\* What deleting one patch file changes, and what it leaves alone.
LEMMA DropPatchFileEffect ==
    ASSUME TypeOK, NEW sha \in gc.shas, DropPatchFile(sha)
    PROVE  /\ GcChanges /\ gc.pc = "patchFiles"
           /\ UNCHANGED <<row, jobs, patches, blobs, json, sig>>
           /\ patchFiles' = patchFiles \ {sha}
           /\ gc'.pc \in {"patchRows", "patchFiles"} /\ gc'.todo = gc.todo
           /\ gc'.rel = gc.rel /\ gc'.blob = gc.blob /\ gc'.torn = gc.torn
           /\ gc'.shas = gc.shas \ {sha}
<1> DEFINE pc == IF gc.shas = {sha} THEN "patchRows" ELSE gc.pc
<1>1. /\ gc.pc = "patchFiles" /\ patchFiles' = patchFiles \ {sha}
      /\ gc' = Run(pc, gc.todo, gc.rel, gc.blob, gc.shas \ {sha}, gc.torn)
      /\ UNCHANGED <<row, jobs, patches, blobs, json, sig, up, pub, worker, count>>
  BY DEF DropPatchFile, catalogue
<1>2. pc \in GcPCs /\ pc \in {"patchRows", "patchFiles"}
  BY <1>1 DEF GcPCs
<1>3. gc.shas \ {sha} \in SUBSET PatchShas
  BY GcFields
<1> HIDE DEF pc
<1>4. /\ gc' \in RunType /\ gc'.pc = pc /\ gc'.todo = gc.todo /\ gc'.rel = gc.rel
      /\ gc'.blob = gc.blob /\ gc'.torn = gc.torn /\ gc'.shas = gc.shas \ {sha}
  BY <1>1, <1>2, <1>3, GcFields, RunFields
<1>5. GcChanges
  BY <1>1, <1>4, Types, UnchangedJobs DEF GcChanges
<1>6. QED
  BY <1>1, <1>2, <1>4, <1>5

\* The stations of drop-release between its patch files and its blob.
SameRun ==
    /\ gc'.todo = gc.todo /\ gc'.rel = gc.rel /\ gc'.blob = gc.blob
    /\ gc'.shas = gc.shas /\ gc'.torn = gc.torn

\* What deleting the patch rows changes, and what it leaves alone.
LEMMA DropPatchRowsEffect ==
    ASSUME TypeOK, DropPatchRows
    PROVE  /\ GcChanges /\ SameRun /\ gc.pc = "patchRows" /\ gc'.pc = "jobRows"
           /\ UNCHANGED <<row, jobs, blobs, patchFiles, json, sig>>
           /\ patches' = patches \ Touching(gc.rel)
<1>1. /\ gc.pc = "patchRows" /\ gc' = [gc EXCEPT !.pc = "jobRows"]
      /\ patches' = patches \ Touching(gc.rel) /\ "jobRows" \in GcPCs
      /\ UNCHANGED <<row, jobs, blobs, patchFiles, json, sig, up, pub, worker, count>>
  BY DEF DropPatchRows, files, GcPCs
<1>2. gc' \in RunType /\ gc'.pc = "jobRows" /\ SameRun
  BY <1>1, GcMoves DEF SameRun
<1>3. GcChanges
  BY <1>1, <1>2, Types, UnchangedJobs DEF GcChanges
<1>4. QED
  BY <1>1, <1>2, <1>3

\* What deleting the job rows changes, and what it leaves alone.
LEMMA DropJobRowsEffect ==
    ASSUME TypeOK, DropJobRows
    PROVE  /\ GcChanges /\ SameRun /\ gc.pc = "jobRows" /\ gc'.pc = "json"
           /\ UNCHANGED <<row, patches, blobs, patchFiles, json, sig>>
           /\ \A i \in DOMAIN jobs :
                jobs'[i].status = IF gc.rel \in {jobs[i].from, jobs[i].to} THEN "deleted"
                                  ELSE jobs[i].status
<1> DEFINE where == {i \in DOMAIN jobs : gc.rel \in {jobs[i].from, jobs[i].to}}
<1>1. /\ gc.pc = "jobRows" /\ gc' = [gc EXCEPT !.pc = "json"] /\ "json" \in GcPCs
      /\ UNCHANGED <<row, patches, blobs, patchFiles, json, sig, up, pub, worker, count>>
  BY DEF DropJobRows, files, GcPCs
<1>2. jobs' = [i \in DOMAIN jobs |->
                 IF i \in where THEN WithStatus(jobs[i], "deleted") ELSE jobs[i]]
  BY DEF DropJobRows
<1>3. "deleted" \in Statuses /\ \A i \in where : i \in DOMAIN jobs
  BY DEF Statuses
<1>4. /\ SameJobs /\ DOMAIN jobs' = DOMAIN jobs
      /\ \A i \in DOMAIN jobs :
           jobs'[i].status = IF i \in where THEN "deleted" ELSE jobs[i].status
  <2> HIDE DEF where
  <2> QED
    BY <1>2, <1>3, JobsUpdated
<1>5. gc' \in RunType /\ gc'.pc = "json" /\ SameRun
  BY <1>1, GcMoves DEF SameRun
<1>6. GcChanges
  BY <1>1, <1>4, <1>5, Types DEF GcChanges
<1>7. QED
  BY <1>1, <1>4, <1>5, <1>6

\* What deleting the manifest changes, and what it leaves alone.
LEMMA DropJsonEffect ==
    ASSUME TypeOK, DropJson
    PROVE  /\ GcChanges /\ SameRun /\ gc.pc = "json" /\ gc'.pc = "sig"
           /\ UNCHANGED <<row, jobs, patches, blobs, patchFiles, sig>>
           /\ json' = [json EXCEPT ![Version(gc.rel)] = None]
<1>1. /\ gc.pc = "json" /\ gc' = [gc EXCEPT !.pc = "sig"] /\ "sig" \in GcPCs
      /\ json' = [json EXCEPT ![Version(gc.rel)] = None]
      /\ UNCHANGED <<row, jobs, patches, blobs, patchFiles, sig, up, pub, worker, count>>
  BY DEF DropJson, catalogue, GcPCs
<1>2. gc' \in RunType /\ gc'.pc = "sig" /\ SameRun
  BY <1>1, GcMoves DEF SameRun
<1>3. GcChanges
  BY <1>1, <1>2, Types, UnchangedJobs DEF GcChanges
<1>4. QED
  BY <1>1, <1>2, <1>3

\* What deleting the signature changes, and what it leaves alone.
LEMMA DropSigEffect ==
    ASSUME TypeOK, DropSig
    PROVE  /\ GcChanges /\ SameRun /\ gc.pc = "sig" /\ gc'.pc = "row"
           /\ UNCHANGED <<row, jobs, patches, blobs, patchFiles, json>>
           /\ sig' = [sig EXCEPT ![Version(gc.rel)] = None]
<1>1. /\ gc.pc = "sig" /\ gc' = [gc EXCEPT !.pc = "row"] /\ "row" \in GcPCs
      /\ sig' = [sig EXCEPT ![Version(gc.rel)] = None]
      /\ UNCHANGED <<row, jobs, patches, blobs, patchFiles, json, up, pub, worker, count>>
  BY DEF DropSig, catalogue, GcPCs
<1>2. gc' \in RunType /\ gc'.pc = "row" /\ SameRun
  BY <1>1, GcMoves DEF SameRun
<1>3. GcChanges
  BY <1>1, <1>2, Types, UnchangedJobs DEF GcChanges
<1>4. QED
  BY <1>1, <1>2, <1>3

\* What deleting the release row changes, and what it leaves alone.
LEMMA DropRowEffect ==
    ASSUME TypeOK, DropRow
    PROVE  /\ GcChanges /\ SameRun /\ gc.pc = "row" /\ gc'.pc = "refcount"
           /\ UNCHANGED <<jobs, patches, blobs, patchFiles, json, sig>>
           /\ row' = [r \in Releases |-> IF Version(r) = Version(gc.rel) THEN None ELSE row[r]]
<1>1. /\ gc.pc = "row" /\ gc' = [gc EXCEPT !.pc = "refcount"] /\ "refcount" \in GcPCs
      /\ row' = [r \in Releases |-> IF Version(r) = Version(gc.rel) THEN None ELSE row[r]]
      /\ UNCHANGED <<jobs, patches, blobs, patchFiles, json, sig, up, pub, worker, count>>
  BY DEF DropRow, files, GcPCs
<1>2. gc' \in RunType /\ gc'.pc = "refcount" /\ SameRun
  BY <1>1, GcMoves DEF SameRun
<1>3. GcChanges
  BY <1>1, <1>2, Types, UnchangedJobs DEF GcChanges
<1>4. QED
  BY <1>1, <1>2, <1>3

\* The drop is over.
RunEnds ==
    /\ gc'.pc \in {"idle", "next"} /\ gc'.todo = gc.todo /\ gc'.rel = None
    /\ gc'.shas = {} /\ gc'.torn = gc.torn \ {gc.rel}

\* A run whose drop is done goes to the next one, or ends.
LEMMA DropDoneFields ==
    ASSUME TypeOK, gc' = DropDone
    PROVE  gc' \in RunType /\ RunEnds
<1> DEFINE pc == IF gc.todo = {} THEN "idle" ELSE "next"
<1>1. pc \in GcPCs /\ pc \in {"idle", "next"} /\ gc.torn \ {gc.rel} \in SUBSET Releases
  BY GcFields DEF GcPCs
<1>2. gc' = Run(pc, gc.todo, None, None, {}, gc.torn \ {gc.rel})
  BY DEF DropDone
<1> HIDE DEF pc
<1>3. QED
  BY <1>1, <1>2, GcFields, RunFields DEF RunEnds

\* What counting the users of the blob changes, and what it leaves alone.
LEMMA RefcountEffect ==
    ASSUME TypeOK, CountReleasesUsingBlob
    PROVE  /\ GcChanges /\ gc.pc = "refcount"
           /\ UNCHANGED <<row, jobs, patches, blobs, patchFiles, json, sig>>
           /\ \/ RunEnds
              \/ /\ SameRun /\ gc'.pc = "blob"
                 /\ \A r \in Releases : row[r] # gc.blob
<1>1. /\ gc.pc = "refcount" /\ "blob" \in GcPCs
      /\ UNCHANGED <<row, jobs, patches, blobs, patchFiles, json, sig, up, pub, worker, count>>
  BY DEF CountReleasesUsingBlob, catalogue, files, GcPCs
<1>2. CASE gc' = DropDone
  BY <1>1, <1>2, DropDoneFields, Types, UnchangedJobs DEF GcChanges
<1>3. CASE gc' = [gc EXCEPT !.pc = "blob"] /\ \A r \in Releases : row[r] # gc.blob
  BY <1>1, <1>3, GcMoves, Types, UnchangedJobs DEF GcChanges, SameRun
<1>4. QED
  BY <1>2, <1>3 DEF CountReleasesUsingBlob

\* What deleting the blob changes, and what it leaves alone.
LEMMA DropBlobEffect ==
    ASSUME TypeOK, DropBlob
    PROVE  /\ GcChanges /\ gc.pc = "blob" /\ RunEnds
           /\ UNCHANGED <<row, jobs, patches, patchFiles, json, sig>>
           /\ blobs' = blobs \ {gc.blob}
<1>1. /\ gc.pc = "blob" /\ blobs' = blobs \ {gc.blob} /\ gc' = DropDone
      /\ UNCHANGED <<row, jobs, patches, patchFiles, json, sig, up, pub, worker, count>>
  BY DEF DropBlob, catalogue
<1>2. QED
  BY <1>1, DropDoneFields, Types, UnchangedJobs DEF GcChanges

\* What a collection that stops changes, and what it leaves alone.
LEMMA GcStopsEffect ==
    ASSUME TypeOK, GcStops
    PROVE  /\ GcChanges /\ gc.pc # "idle" /\ gc'.pc = "idle" /\ gc'.todo = {}
           /\ UNCHANGED <<row, jobs, patches, blobs, patchFiles, json, sig>>
           /\ gc'.rel = None /\ gc'.shas = {} /\ gc'.torn = gc.torn \cup ({gc.rel} \ {None})
<1>1. /\ gc.pc # "idle" /\ count' \in CountType
      /\ gc' = Run("idle", {}, None, None, {}, gc.torn \cup ({gc.rel} \ {None}))
      /\ UNCHANGED <<row, jobs, patches, blobs, patchFiles, json, sig, up, pub, worker>>
  BY Counted DEF GcStops, Killed, NoGc, catalogue, files
<1>2. "idle" \in GcPCs /\ gc.torn \cup ({gc.rel} \ {None}) \in SUBSET Releases
  BY GcFields DEF GcPCs
<1>3. /\ gc' \in RunType /\ gc'.pc = "idle" /\ gc'.todo = {}
      /\ gc'.rel = None /\ gc'.shas = {} /\ gc'.torn = gc.torn \cup ({gc.rel} \ {None})
  BY <1>1, <1>2, RunFields
<1>4. GcChanges
  BY <1>1, <1>3, Types, UnchangedJobs DEF GcChanges
<1>5. QED
  BY <1>1, <1>3, <1>4

----------------------------------------------------------------------------
(* The first invariant is kept *)

\* A thread at work means that the GC is idle; a GC run that nobody is.
LEMMA GcIdle ==
    ASSUME Alive
    PROVE  /\ \A s \in up : gc.pc = "idle"
           /\ gc.pc # "idle" => /\ \A p \in Publishers : pub[p].pc = "idle"
                                /\ \A w \in Workers : worker[w].pc = "idle" /\ worker[w].job = 0
BY DEF Alive

\* A step of one worker keeps the base invariant under these conditions.
LEMMA BaseWorker ==
    ASSUME BaseInv, NEW w \in Workers, WorkerChanges(w),
           IF worker'[w].pc = "idle" THEN worker'[w].job = 0
           ELSE Home[w] \in up /\ worker'[w].job \in DOMAIN jobs
    PROVE  BaseInv'
<1> USE DEF BaseInv
<1>1. /\ jobs' \in Seq(Job) /\ DOMAIN jobs' = DOMAIN jobs
      /\ worker' \in [Workers -> WorkerType]
      /\ \A x \in Workers : x # w => worker'[x] = worker[x]
      /\ patches' \subseteq Patch /\ patchFiles' \subseteq PatchShas /\ count' \in CountType
      /\ UNCHANGED <<row, blobs, json, sig, up, pub, gc>>
  BY DEF WorkerChanges, SameJobs
<1>2. TypeOK'
  BY <1>1, Types, TypesAgain
<1>3. Alive'
  BY <1>1 DEF Alive
<1>4. /\ DropNamed' /\ RowsOffered' /\ Uploaded' /\ LastUse' /\ Filed' /\ RowHasBlob'
      /\ ManifestMatchesRow'
  BY <1>1 DEF DropNamed, RowsOffered, Uploaded, LastUse, Filed, RowHasBlob,
              ManifestMatchesRow, Existing
<1>5. QED
  BY <1>2, <1>3, <1>4

\* Every worker step meets them.
LEMMA BaseWorkers ==
    ASSUME BaseInv, NEW w \in Workers, WorkerStep(w) \/ BuildError(w) \/ FailureLost(w)
    PROVE  BaseInv'
<1>0. /\ TypeOK /\ "done" \in Statuses /\ "failed" \in Statuses
      /\ worker[w].pc # "idle" => Home[w] \in up /\ worker[w].job \in DOMAIN jobs
  BY Types DEF BaseInv, Alive, Statuses
<1>1. CASE ClaimNextPatchJob(w)
  BY <1>0, <1>1, ClaimEffect, BaseWorker
<1>2. CASE BuildPatch(w)
  BY <1>0, <1>2, BuildEffect, BaseWorker
<1>3. CASE InsertPatch(w)
  BY <1>0, <1>3, InsertEffect, BaseWorker
<1>4. CASE CompletePatchJob(w) \/ FailPatchJob(w)
  <2>1. PICK status \in Statuses : Finish(w, status)
    BY <1>0, <1>4 DEF CompletePatchJob, FailPatchJob
  <2>2. worker[w].pc # "idle"
    BY <1>4 DEF CompletePatchJob, FailPatchJob
  <2>3. QED
    BY <1>0, <2>1, <2>2, FinishEffect, BaseWorker
<1>5. CASE BuildError(w)
  BY <1>0, <1>5, BuildErrorEffect, BaseWorker
<1>6. CASE FailureLost(w)
  BY <1>0, <1>6, FailureLostEffect, BaseWorker
<1>7. QED
  BY <1>1, <1>2, <1>3, <1>4, <1>5, <1>6 DEF WorkerStep

\* A boot keeps the base invariant.
LEMMA BaseBoot ==
    ASSUME Offline, BaseInv, NEW s \in Servers, Boot(s)
    PROVE  BaseInv'
<1> USE DEF BaseInv
<1>1. /\ UNCHANGED <<row, patches, blobs, patchFiles, json, sig, pub, worker, gc>>
      /\ count' \in CountType
      /\ up' = up \cup {s} /\ gc.pc = "idle"
      /\ jobs' \in Seq(Job) /\ DOMAIN jobs' = DOMAIN jobs
  BY BootEffect DEF SameJobs, Offline
<1>2. TypeOK'
  BY <1>1, Types, TypesAgain
<1>3. Alive'
  BY <1>1 DEF Alive
<1>4. /\ DropNamed' /\ RowsOffered' /\ Uploaded' /\ LastUse' /\ Filed' /\ RowHasBlob'
      /\ ManifestMatchesRow'
  BY <1>1 DEF DropNamed, RowsOffered, Uploaded, LastUse, Filed, RowHasBlob,
              ManifestMatchesRow, Existing
<1>5. QED
  BY <1>2, <1>3, <1>4

\* A crash keeps the base invariant.
LEMMA BaseCrash ==
    ASSUME BaseInv, NEW s \in Servers, Crash(s)
    PROVE  BaseInv'
<1> USE DEF BaseInv
<1>1. /\ UNCHANGED <<row, jobs, patches, blobs, patchFiles, json, sig, gc>>
      /\ up' = up \ {s} /\ count' \in CountType
      /\ pub' \in [Publishers -> RequestType] /\ worker' \in [Workers -> WorkerType]
      /\ \A p \in Publishers : pub'[p] = IF Home[p] = s THEN NoRequest ELSE pub[p]
      /\ \A w \in Workers : worker'[w] = IF Home[w] = s THEN IdleWorker ELSE worker[w]
  BY CrashEffect
<1>2. TypeOK'
  <2>1. \A w \in Workers : worker'[w].pc # "idle" => worker'[w].job \in DOMAIN jobs'
    BY <1>1, Types, IdleWorkerFields
  <2>2. QED
    BY <1>1, <2>1, Types, TypesAgain
<1>3. Alive'
  BY <1>1, NoRequestFields, IdleWorkerFields DEF Alive
<1>4. Uploaded'
  BY <1>1, NoRequestFields DEF Uploaded, Winners
<1>5. DropNamed' /\ RowsOffered' /\ LastUse' /\ Filed' /\ RowHasBlob' /\ ManifestMatchesRow'
  BY <1>1 DEF DropNamed, RowsOffered, LastUse, Filed, RowHasBlob, ManifestMatchesRow, Existing
<1>6. QED
  BY <1>2, <1>3, <1>4, <1>5

\* A row once there stays while a server runs, and a new one has its blob.
RowsGrow ==
    /\ row' \in [Releases -> Blobs \cup {None}]
    /\ blobs \subseteq blobs' /\ blobs' \subseteq Blobs
    /\ \A r \in Releases :
         row'[r] = row[r] \/ (row[r] = None /\ row'[r] \in Offered[r] \cap blobs')

\* A step of one publisher keeps the base invariant under these conditions.
LEMMA BasePublisher ==
    ASSUME BaseInv, NEW p \in Publishers, PubChanges(p), Home[p] \in up,
           RowsGrow, SameJobs, UNCHANGED <<json, sig>>,
           pub'[p].pc # "idle" =>
             pub'[p].rel \in Releases /\ pub'[p].blob \in Offered[pub'[p].rel],
           pub'[p].pc \notin {"idle", "put"} => pub'[p].blob \in blobs',
           pub'[p].pc \in Winners => row'[pub'[p].rel] = pub'[p].blob
    PROVE  BaseInv'
<1> USE DEF BaseInv
<1>1. /\ pub' \in [Publishers -> RequestType]
      /\ \A q \in Publishers : q # p => pub'[q] = pub[q]
      /\ count' \in CountType
      /\ UNCHANGED <<patches, patchFiles, up, worker, gc>>
      /\ jobs' \in Seq(Job) /\ DOMAIN jobs \subseteq DOMAIN jobs'
  BY DEF PubChanges, SameJobs
<1>2. gc.pc = "idle"
  BY GcIdle
<1>3. TypeOK'
  <2>1. row' \in [Releases -> Blobs \cup {None}] /\ blobs' \subseteq Blobs
    BY DEF RowsGrow
  <2>2. \A w \in Workers : worker'[w].pc # "idle" => worker'[w].job \in DOMAIN jobs'
    BY <1>1, Types
  <2>3. QED
    BY <1>1, <2>1, <2>2, Types, TypesAgain
<1>4. Alive'
  BY <1>1, <1>2 DEF Alive
<1>5. DropNamed' /\ LastUse'
  BY <1>1, <1>2 DEF DropNamed, LastUse
<1>6. Filed'
  BY <1>1, <1>2 DEF Filed
<1>7. \A r \in Existing : row'[r] = row[r]
  BY DEF Existing, RowsGrow
<1>8. RowsOffered' /\ RowHasBlob'
  BY <1>7 DEF RowsOffered, RowHasBlob, RowsGrow, Existing
<1>9. Uploaded'
  <2>1. ASSUME NEW q \in Publishers, q # p, pub[q].pc \in Winners
        PROVE  row'[pub[q].rel] = pub[q].blob
    <3>1. /\ pub[q].rel \in Releases /\ pub[q].blob \in Offered[pub[q].rel]
          /\ row[pub[q].rel] = pub[q].blob
      BY <2>1 DEF Alive, Uploaded, Winners
    <3>2. pub[q].blob # None
      BY <3>1, OfferedAssumption, NoneAssumption
    <3>3. QED
      BY <1>7, <3>1, <3>2 DEF Existing
  <2>2. \A q \in Publishers : q # p =>
          (pub[q].pc \notin {"idle", "put"} => pub[q].blob \in blobs')
    BY DEF Uploaded, RowsGrow
  <2>3. QED
    BY <1>1, <2>1, <2>2 DEF Uploaded
<1>10. ManifestMatchesRow'
  <2>1. ASSUME NEW v \in Versions, json[v] # None
        PROVE  row'[json[v].rel] = json[v].blob
    <3>1. json[v] \in Manifest
      BY <2>1, Types
    <3>2. json[v].rel \in Releases /\ json[v].blob # None
      BY <3>1, NoneAssumption DEF Manifest
    <3>3. row[json[v].rel] = json[v].blob
      BY <2>1 DEF ManifestMatchesRow
    <3>4. QED
      BY <1>7, <3>2, <3>3 DEF Existing
  <2>2. QED
    BY <2>1 DEF ManifestMatchesRow
<1>11. QED
  BY <1>3, <1>4, <1>5, <1>6, <1>8, <1>9, <1>10

\* What is known of a request.
LEMMA RequestKnown ==
    ASSUME BaseInv, NEW p \in Publishers, pub[p].pc # "idle"
    PROVE  /\ Home[p] \in up /\ pub[p].rel \in Releases /\ pub[p].blob \in Offered[pub[p].rel]
           /\ pub[p].blob \in Blobs /\ pub[p].blob # None
           /\ Version(pub[p].rel) \in Versions
           /\ pub[p].pc # "put" => pub[p].blob \in blobs
           /\ pub[p].pc \in Winners => row[pub[p].rel] = pub[p].blob
           /\ gc.pc = "idle"
<1>1. Home[p] \in up /\ pub[p].rel \in Releases /\ pub[p].blob \in Offered[pub[p].rel]
  BY DEF BaseInv, Alive
<1>2. pub[p].blob \in Blobs /\ pub[p].blob # None
  BY <1>1, OfferedAssumption, NoneAssumption
<1>3. Version(pub[p].rel) \in Versions
  BY <1>1 DEF Version, Releases
<1>4. /\ pub[p].pc # "put" => pub[p].blob \in blobs
      /\ pub[p].pc \in Winners => row[pub[p].rel] = pub[p].blob
  BY DEF BaseInv, Uploaded
<1>5. gc.pc = "idle"
  BY <1>1, GcIdle DEF BaseInv
<1>6. QED
  BY <1>1, <1>2, <1>3, <1>4, <1>5

\* Untouched rows and blobs only grow.
LEMMA RowsStay ==
    ASSUME TypeOK, UNCHANGED <<row, blobs>>
    PROVE  RowsGrow
BY Types DEF RowsGrow

\* The manifest is written for the row that was won.
LEMMA BaseJson ==
    ASSUME BaseInv, NEW p \in Publishers, WriteJson(p)
    PROVE  BaseInv'
<1> USE DEF BaseInv
<1>1. /\ PubChanges(p) /\ UNCHANGED <<row, jobs, blobs, sig>>
      /\ pub[p].pc \in {"json", "json2"} /\ SameRequest(p)
      /\ pub'[p].pc \in {"sig", "sig2"}
      /\ json' = [json EXCEPT ![Version(pub[p].rel)] = TheManifest(p, pub[p].built)]
  BY JsonEffect
<1>2. /\ Home[p] \in up /\ pub[p].rel \in Releases /\ pub[p].blob \in Offered[pub[p].rel]
      /\ pub[p].blob \in Blobs /\ Version(pub[p].rel) \in Versions
      /\ row[pub[p].rel] = pub[p].blob /\ pub[p].blob \in blobs /\ gc.pc = "idle"
  BY <1>1, RequestKnown DEF Winners
<1> DEFINE m == TheManifest(p, pub[p].built)  v == Version(pub[p].rel)
<1>3. m \in Manifest /\ m.rel = pub[p].rel /\ m.blob = pub[p].blob
  BY <1>2, PubFields, ManifestFields
<1> HIDE DEF m
<1>4. /\ json' \in [Versions -> Manifest \cup {None}] /\ json'[v] = m
      /\ \A u \in Versions : u # v => json'[u] = json[u]
  BY <1>1, <1>2, <1>3, Types DEF m
<1>5. /\ pub' \in [Publishers -> RequestType]
      /\ \A q \in Publishers : q # p => pub'[q] = pub[q]
      /\ count' \in CountType
      /\ UNCHANGED <<patches, patchFiles, up, worker, gc>>
      /\ pub'[p].rel = pub[p].rel /\ pub'[p].blob = pub[p].blob
  BY <1>1 DEF PubChanges, SameRequest
<1>6. TypeOK'
  BY <1>1, <1>4, <1>5, Types, TypesAgain
<1>7. Alive'
  BY <1>1, <1>2, <1>5 DEF Alive
<1>8. DropNamed' /\ LastUse' /\ RowsOffered' /\ RowHasBlob'
  BY <1>1, <1>5 DEF DropNamed, LastUse, RowsOffered, RowHasBlob, Existing
<1>9. Filed'
  BY <1>2, <1>3, <1>4, <1>5 DEF Filed
<1>10. Uploaded'
  BY <1>1, <1>2, <1>5 DEF Uploaded, Winners
<1>11. ManifestMatchesRow'
  BY <1>1, <1>2, <1>3, <1>4 DEF ManifestMatchesRow
<1>12. QED
  BY <1>6, <1>7, <1>8, <1>9, <1>10, <1>11

\* Writing a signature keeps the base invariant: it is over the manifest of the row.
LEMMA BaseSig ==
    ASSUME BaseInv, NEW p \in Publishers, WriteSig(p)
    PROVE  BaseInv'
<1> USE DEF BaseInv
<1>1. /\ PubChanges(p) /\ UNCHANGED <<row, jobs, blobs, json>>
      /\ pub[p].pc \in {"sig", "sig2"} /\ SameRequest(p)
      /\ pub'[p].pc \in {"list", "answer201"}
      /\ sig' = [sig EXCEPT ![Version(pub[p].rel)] = TheManifest(p, pub[p].built)]
  BY SigEffect
<1>2. /\ Home[p] \in up /\ pub[p].rel \in Releases /\ pub[p].blob \in Offered[pub[p].rel]
      /\ pub[p].blob \in Blobs /\ Version(pub[p].rel) \in Versions
      /\ row[pub[p].rel] = pub[p].blob /\ pub[p].blob \in blobs /\ gc.pc = "idle"
  BY <1>1, RequestKnown DEF Winners
<1>3. TheManifest(p, pub[p].built) \in Manifest
  BY <1>2, PubFields, ManifestFields
<1>4. sig' \in [Versions -> Manifest \cup {None}]
  BY <1>1, <1>2, <1>3, Types
<1>5. /\ pub' \in [Publishers -> RequestType]
      /\ \A q \in Publishers : q # p => pub'[q] = pub[q]
      /\ count' \in CountType
      /\ UNCHANGED <<patches, patchFiles, up, worker, gc>>
      /\ pub'[p].rel = pub[p].rel /\ pub'[p].blob = pub[p].blob
  BY <1>1 DEF PubChanges, SameRequest
<1>6. TypeOK'
  BY <1>1, <1>4, <1>5, Types, TypesAgain
<1>7. Alive'
  BY <1>1, <1>2, <1>5 DEF Alive
<1>8. /\ DropNamed' /\ LastUse' /\ RowsOffered' /\ RowHasBlob' /\ Filed'
      /\ ManifestMatchesRow'
  BY <1>1, <1>5 DEF DropNamed, LastUse, RowsOffered, RowHasBlob, Existing, Filed,
                    ManifestMatchesRow
<1>9. Uploaded'
  BY <1>1, <1>2, <1>5 DEF Uploaded, Winners
<1>10. QED
  BY <1>6, <1>7, <1>8, <1>9

\* Every publisher step meets them.
LEMMA BasePublishers ==
    ASSUME BaseInv, NEW p \in Publishers,
           \/ \E r \in Releases : \E b \in Offered[r] : BeginPublish(p, r, b)
           \/ PublishStep(p)
           \/ PublishError(p)
    PROVE  BaseInv'
<1>0. TypeOK
  BY DEF BaseInv
<1>1. ASSUME NEW r \in Releases, NEW b \in Offered[r], BeginPublish(p, r, b)
      PROVE  BaseInv'
  <2>1. /\ PubChanges(p) /\ UNCHANGED <<row, jobs, blobs, json, sig>>
        /\ Home[p] \in up /\ pub'[p].pc = "put" /\ pub'[p].rel = r /\ pub'[p].blob = b
    BY <1>0, <1>1, BeginEffect
  <2>2. RowsGrow /\ SameJobs
    BY <1>0, <2>1, RowsStay, UnchangedJobs
  <2>3. QED
    BY <2>1, <2>2, BasePublisher DEF Winners
<1>2. CASE PutBlob(p)
  <2>1. /\ PubChanges(p) /\ UNCHANGED <<row, jobs, json, sig>>
        /\ pub[p].pc = "put" /\ pub'[p].pc = "insert"
        /\ pub'[p].rel = pub[p].rel /\ pub'[p].blob = pub[p].blob
        /\ blobs' = blobs \cup {pub[p].blob}
    BY <1>0, <1>2, PutEffect DEF SameRequest
  <2>2. /\ Home[p] \in up /\ pub[p].rel \in Releases /\ pub[p].blob \in Offered[pub[p].rel]
        /\ pub[p].blob \in Blobs
    BY <2>1, RequestKnown
  <2>3. RowsGrow /\ SameJobs
    BY <1>0, <2>1, <2>2, Types, UnchangedJobs DEF RowsGrow
  <2>4. QED
    BY <2>1, <2>2, <2>3, BasePublisher DEF Winners
<1>3. CASE InsertReleaseIfNew(p)
  <2>1. /\ PubChanges(p) /\ UNCHANGED <<jobs, blobs, json, sig>>
        /\ pub[p].pc = "insert"
        /\ pub'[p].rel = pub[p].rel /\ pub'[p].blob = pub[p].blob
        /\ \/ /\ row[pub[p].rel] = None /\ pub'[p].pc = "json"
              /\ row' = [row EXCEPT ![pub[p].rel] = pub[p].blob]
           \/ pub'[p].pc \in {"answer200", "answer409"} /\ row' = row
    BY <1>0, <1>3, InsertReleaseEffect DEF SameRequest
  <2>2. /\ Home[p] \in up /\ pub[p].rel \in Releases /\ pub[p].blob \in Offered[pub[p].rel]
        /\ pub[p].blob \in Blobs /\ pub[p].blob \in blobs
    BY <2>1, RequestKnown
  <2>3. SameJobs
    BY <1>0, <2>1, UnchangedJobs
  <2>4. RowsGrow /\ (pub'[p].pc = "json" => row'[pub[p].rel] = pub[p].blob)
    BY <1>0, <2>1, <2>2, Types DEF RowsGrow
  <2>5. QED
    BY <2>1, <2>2, <2>3, <2>4, BasePublisher DEF Winners
<1>4. CASE \/ ListPriors(p) \/ EnqueuePatchJob(p) \/ TailPatchJobs(p)
           \/ Answer(p) \/ PublishError(p)
  <2>1. pub[p].pc # "idle" /\ (EnqueuePatchJob(p) => pub[p].pc = "enqueue")
    BY <1>4 DEF ListPriors, EnqueuePatchJob, TailPatchJobs, Answer, PublishError
  <2>2. /\ Home[p] \in up /\ pub[p].rel \in Releases /\ pub[p].blob \in Offered[pub[p].rel]
        /\ pub[p].blob \in Blobs
        /\ pub[p].pc # "put" => pub[p].blob \in blobs
        /\ pub[p].pc \in Winners => row[pub[p].rel] = pub[p].blob
    BY <2>1, RequestKnown
  <2>3. /\ PubChanges(p) /\ UNCHANGED <<row, blobs, json, sig>> /\ SameJobs
        /\ \/ pub'[p].pc = "idle"
           \/ /\ pub[p].pc \in {"list", "enqueue", "tail"} /\ pub'[p].pc \in Winners
              /\ pub'[p].rel = pub[p].rel /\ pub'[p].blob = pub[p].blob
    <3>1. CASE ListPriors(p)
      BY <1>0, <3>1, ListEffect, UnchangedJobs DEF Winners
    <3>2. CASE EnqueuePatchJob(p)
      BY <1>0, <2>2, <3>2, EnqueueEffect DEF Winners
    <3>3. CASE TailPatchJobs(p)
      BY <1>0, <3>3, TailEffect, UnchangedJobs DEF Winners
    <3>4. CASE Answer(p)
      BY <1>0, <3>4, AnswerEffect, UnchangedJobs, NoRequestFields
    <3>5. CASE PublishError(p)
      BY <1>0, <3>5, PublishErrorEffect, UnchangedJobs, NoRequestFields DEF Winners
    <3>6. QED
      BY <1>4, <3>1, <3>2, <3>3, <3>4, <3>5
  <2>4. RowsGrow
    BY <1>0, <2>3, RowsStay
  <2>5. "idle" \notin Winners
    BY DEF Winners
  <2>6. pub[p].pc \in {"list", "enqueue", "tail"} => pub[p].pc \in Winners
    BY DEF Winners
  <2>7. QED
    BY <2>2, <2>3, <2>4, <2>5, <2>6, BasePublisher
<1>5. CASE WriteJson(p)
  BY <1>5, BaseJson
<1>6. CASE WriteSig(p)
  BY <1>6, BaseSig
<1>7. QED
  BY <1>1, <1>2, <1>3, <1>4, <1>5, <1>6 DEF PublishStep

\* A collection step keeps the base invariant under these conditions.
LEMMA BaseGc ==
    ASSUME BaseInv, GcChanges, up = {},
           row' \in [Releases -> Blobs \cup {None}], blobs' \subseteq Blobs,
           json' \in [Versions -> Manifest \cup {None}],
           sig' \in [Versions -> Manifest \cup {None}],
           DropNamed', RowsOffered', LastUse', Filed', RowHasBlob', ManifestMatchesRow'
    PROVE  BaseInv'
<1> USE DEF BaseInv
<1>1. /\ gc' \in RunType /\ count' \in CountType
      /\ patches' \subseteq Patch /\ patchFiles' \subseteq PatchShas
      /\ jobs' \in Seq(Job) /\ DOMAIN jobs' = DOMAIN jobs
      /\ UNCHANGED <<up, pub, worker>>
  BY DEF GcChanges, SameJobs
<1>2. TypeOK'
  BY <1>1, Types, TypesAgain
<1>3. Alive'
  BY <1>1 DEF Alive
<1>4. \A p \in Publishers : pub'[p].pc = "idle"
  BY <1>1 DEF Alive
<1>5. Uploaded'
  BY <1>4 DEF Uploaded, Winners
<1>6. QED
  BY <1>2, <1>3, <1>5

\* The steps of the GC that leave rows, blobs and manifests alone.
LEMMA BaseGcQuiet ==
    ASSUME BaseInv, GcChanges, up = {}, UNCHANGED <<row, blobs, json, sig>>,
           DropNamed', LastUse', gc'.pc \in {"sig", "row"} => json[Version(gc'.rel)] = None
    PROVE  BaseInv'
<1>1. /\ row' \in [Releases -> Blobs \cup {None}] /\ blobs' \subseteq Blobs
      /\ json' \in [Versions -> Manifest \cup {None}]
      /\ sig' \in [Versions -> Manifest \cup {None}]
  BY Types DEF BaseInv
<1>2. RowsOffered' /\ RowHasBlob' /\ ManifestMatchesRow' /\ Filed'
  BY DEF BaseInv, RowsOffered, RowHasBlob, ManifestMatchesRow, Existing, Filed
<1>3. QED
  BY <1>1, <1>2, BaseGc

\* A run in the middle of a drop knows the release and the blob it drops.
LEMMA DropKnown ==
    ASSUME BaseInv, gc.pc \notin {"idle", "plan", "next"}
    PROVE  gc.rel \in Releases /\ gc.blob \in Offered[gc.rel] /\ Version(gc.rel) \in Versions
<1>1. gc.rel \in Releases /\ gc.blob \in Offered[gc.rel]
  BY DEF BaseInv, DropNamed
<1>2. QED
  BY <1>1 DEF Version, Releases

\* Every collection step meets them.
LEMMA BaseGcSteps ==
    ASSUME Offline, BaseInv,
           BeginGc \/ (\E f, t \in Releases : BuildEdge(f, t)) \/ GcStep \/ GcStops
    PROVE  BaseInv'
<1>0. TypeOK /\ Alive /\ DropNamed
  BY DEF BaseInv
<1>1. gc.pc # "idle" => up = {}
  BY <1>0 DEF Alive
<1>2. CASE BeginGc
  <2>1. /\ GcChanges /\ up = {} /\ UNCHANGED <<row, blobs, json, sig>>
        /\ gc'.pc = "plan" /\ \A c \in gc'.todo : c[1] \in Existing /\ c[2] = row[c[1]]
    BY <1>0, <1>2, BeginGcEffect DEF Offline
  <2>2. DropNamed' /\ LastUse'
    BY <2>1 DEF BaseInv, RowsOffered, DropNamed, LastUse
  <2>3. QED
    BY <2>1, <2>2, BaseGcQuiet
<1>3. ASSUME NEW f \in Releases, NEW t \in Releases, BuildEdge(f, t)
      PROVE  BaseInv'
  <2>1. /\ GcChanges /\ gc.pc = "plan" /\ UNCHANGED <<row, blobs, json, sig, gc>>
    BY <1>0, <1>3, BuildEdgeEffect
  <2>2. DropNamed' /\ LastUse'
    BY <1>0, <2>1 DEF DropNamed, LastUse
  <2>3. QED
    BY <1>1, <2>1, <2>2, BaseGcQuiet
<1>4. ASSUME NEW c \in gc.todo, DropNext(c)
      PROVE  BaseInv'
  <2>1. /\ GcChanges /\ gc.pc # "idle" /\ UNCHANGED <<row, blobs, json, sig>>
        /\ gc'.pc \in {"patchRows", "patchFiles"} /\ gc'.todo = gc.todo \ {c}
        /\ gc'.rel = c[1] /\ gc'.blob = c[2] /\ c[1] \in Releases
    BY <1>0, <1>4, DropNextEffect
  <2>2. DropNamed' /\ LastUse'
    BY <1>0, <2>1 DEF DropNamed, LastUse
  <2>3. QED
    BY <1>1, <2>1, <2>2, BaseGcQuiet
<1>5. ASSUME NEW sha \in gc.shas, DropPatchFile(sha)
      PROVE  BaseInv'
  <2>1. /\ GcChanges /\ gc.pc = "patchFiles" /\ UNCHANGED <<row, blobs, json, sig>>
        /\ gc'.pc \in {"patchRows", "patchFiles"} /\ gc'.todo = gc.todo
        /\ gc'.rel = gc.rel /\ gc'.blob = gc.blob
    BY <1>0, <1>5, DropPatchFileEffect
  <2>2. DropNamed' /\ LastUse'
    BY <1>0, <2>1 DEF DropNamed, LastUse
  <2>3. QED
    BY <1>1, <2>1, <2>2, BaseGcQuiet
<1>6. CASE DropPatchRows \/ DropJobRows
  <2>1. /\ GcChanges /\ gc.pc \in {"patchRows", "jobRows"} /\ UNCHANGED <<row, blobs, json, sig>>
        /\ gc'.pc \in {"jobRows", "json"}
        /\ gc'.todo = gc.todo /\ gc'.rel = gc.rel /\ gc'.blob = gc.blob
    BY <1>0, <1>6, DropPatchRowsEffect, DropJobRowsEffect DEF SameRun
  <2>2. DropNamed' /\ LastUse'
    BY <1>0, <2>1 DEF DropNamed, LastUse
  <2>3. QED
    BY <1>1, <2>1, <2>2, BaseGcQuiet
<1>7. CASE DropJson
  <2>1. /\ GcChanges /\ gc.pc = "json" /\ gc'.pc = "sig" /\ UNCHANGED <<row, blobs, sig>>
        /\ gc'.todo = gc.todo /\ gc'.rel = gc.rel /\ gc'.blob = gc.blob
        /\ json' = [json EXCEPT ![Version(gc.rel)] = None]
    BY <1>0, <1>7, DropJsonEffect DEF SameRun
  <2>2. Version(gc.rel) \in Versions
    BY <2>1, DropKnown
  <2>3. DropNamed' /\ LastUse'
    BY <1>0, <2>1 DEF DropNamed, LastUse
  <2>4. /\ row' \in [Releases -> Blobs \cup {None}] /\ blobs' \subseteq Blobs
        /\ json' \in [Versions -> Manifest \cup {None}]
        /\ sig' \in [Versions -> Manifest \cup {None}]
    BY <1>0, <2>1, <2>2, Types
  <2>5. /\ json'[Version(gc.rel)] = None
        /\ \A v \in Versions : json'[v] = None \/ json'[v] = json[v]
    BY <1>0, <2>1, <2>2, Types
  <2>6. Filed' /\ ManifestMatchesRow'
    BY <2>1, <2>5 DEF BaseInv, Filed, ManifestMatchesRow
  <2>7. RowsOffered' /\ RowHasBlob'
    BY <2>1 DEF BaseInv, RowsOffered, RowHasBlob, Existing
  <2>8. QED
    BY <1>1, <2>1, <2>3, <2>4, <2>6, <2>7, BaseGc
<1>8. CASE DropSig
  <2>1. /\ GcChanges /\ gc.pc = "sig" /\ gc'.pc = "row" /\ UNCHANGED <<row, blobs, json>>
        /\ gc'.todo = gc.todo /\ gc'.rel = gc.rel /\ gc'.blob = gc.blob
        /\ sig' = [sig EXCEPT ![Version(gc.rel)] = None]
    BY <1>0, <1>8, DropSigEffect DEF SameRun
  <2>2. DropNamed' /\ LastUse'
    BY <1>0, <2>1 DEF DropNamed, LastUse
  <2>3. /\ row' \in [Releases -> Blobs \cup {None}] /\ blobs' \subseteq Blobs
        /\ json' \in [Versions -> Manifest \cup {None}]
        /\ sig' \in [Versions -> Manifest \cup {None}]
    BY <1>0, <2>1, Types
  <2>4. Filed' /\ ManifestMatchesRow' /\ RowsOffered' /\ RowHasBlob'
    BY <2>1 DEF BaseInv, Filed, ManifestMatchesRow, RowsOffered, RowHasBlob, Existing
  <2>5. QED
    BY <1>1, <2>1, <2>2, <2>3, <2>4, BaseGc
<1>9. CASE DropRow
  <2>1. /\ GcChanges /\ gc.pc = "row" /\ gc'.pc = "refcount" /\ UNCHANGED <<blobs, json, sig>>
        /\ gc'.todo = gc.todo /\ gc'.rel = gc.rel /\ gc'.blob = gc.blob
        /\ row' = [r \in Releases |-> IF Version(r) = Version(gc.rel) THEN None ELSE row[r]]
    BY <1>0, <1>9, DropRowEffect DEF SameRun
  <2>2. DropNamed' /\ LastUse'
    BY <1>0, <2>1 DEF DropNamed, LastUse
  <2>3. /\ row' \in [Releases -> Blobs \cup {None}] /\ blobs' \subseteq Blobs
        /\ json' \in [Versions -> Manifest \cup {None}]
        /\ sig' \in [Versions -> Manifest \cup {None}]
    BY <1>0, <2>1, Types
  <2>4. RowsOffered' /\ RowHasBlob'
    BY <2>1 DEF BaseInv, RowsOffered, RowHasBlob, Existing
  <2>5. Filed'
    BY <2>1 DEF BaseInv, Filed
  <2>6. ManifestMatchesRow'
    <3>1. ASSUME NEW v \in Versions, json[v] # None
          PROVE  row'[json[v].rel] = json[v].blob
      <4>1. json[v] \in Manifest
        BY <1>0, <3>1, Types
      <4>2. json[v].rel \in Releases
        BY <4>1 DEF Manifest
      <4>3. /\ Version(json[v].rel) = v /\ json[Version(gc.rel)] = None
            /\ row[json[v].rel] = json[v].blob
        BY <2>1, <3>1 DEF BaseInv, Filed, ManifestMatchesRow
      <4>4. Version(json[v].rel) # Version(gc.rel)
        BY <3>1, <4>3
      <4>5. QED
        BY <2>1, <4>2, <4>3, <4>4
    <3>2. QED
      BY <2>1, <3>1 DEF ManifestMatchesRow
  <2>7. QED
    BY <1>1, <2>1, <2>2, <2>3, <2>4, <2>5, <2>6, BaseGc
<1>10. CASE CountReleasesUsingBlob
  <2>1. /\ GcChanges /\ gc.pc = "refcount" /\ UNCHANGED <<row, blobs, json, sig>>
        /\ gc'.pc \notin {"sig", "row"}
        /\ \/ gc'.pc \in {"idle", "next"} /\ gc'.todo = gc.todo
           \/ /\ gc'.pc = "blob" /\ \A r \in Releases : row[r] # gc.blob
              /\ gc'.todo = gc.todo /\ gc'.rel = gc.rel /\ gc'.blob = gc.blob
    BY <1>0, <1>10, RefcountEffect DEF SameRun, RunEnds
  <2>2. DropNamed' /\ LastUse'
    BY <1>0, <2>1 DEF DropNamed, LastUse
  <2>3. QED
    BY <1>1, <2>1, <2>2, BaseGcQuiet
<1>11. CASE DropBlob
  <2>1. /\ GcChanges /\ gc.pc = "blob" /\ gc'.pc \in {"idle", "next"} /\ gc'.todo = gc.todo
        /\ UNCHANGED <<row, json, sig>> /\ blobs' = blobs \ {gc.blob}
    BY <1>0, <1>11, DropBlobEffect DEF RunEnds
  <2>2. DropNamed' /\ LastUse'
    BY <1>0, <2>1 DEF DropNamed, LastUse
  <2>3. /\ row' \in [Releases -> Blobs \cup {None}] /\ blobs' \subseteq Blobs
        /\ json' \in [Versions -> Manifest \cup {None}]
        /\ sig' \in [Versions -> Manifest \cup {None}]
    BY <1>0, <2>1, Types
  <2>4. RowHasBlob'
    <3>1. \A r \in Releases : row[r] # gc.blob
      BY <2>1 DEF BaseInv, LastUse
    <3>2. QED
      BY <2>1, <3>1 DEF BaseInv, RowHasBlob, Existing
  <2>5. RowsOffered' /\ Filed' /\ ManifestMatchesRow'
    BY <2>1 DEF BaseInv, RowsOffered, Filed, ManifestMatchesRow, Existing
  <2>6. QED
    BY <1>1, <2>1, <2>2, <2>3, <2>4, <2>5, BaseGc
<1>12. CASE GcStops
  <2>1. /\ GcChanges /\ gc.pc # "idle" /\ gc'.pc = "idle" /\ gc'.todo = {}
        /\ UNCHANGED <<row, blobs, json, sig>>
    BY <1>0, <1>12, GcStopsEffect
  <2>2. DropNamed' /\ LastUse'
    BY <2>1 DEF DropNamed, LastUse
  <2>3. QED
    BY <1>1, <2>1, <2>2, BaseGcQuiet
<1>13. QED
  BY <1>2, <1>3, <1>4, <1>5, <1>6, <1>7, <1>8, <1>9, <1>10, <1>11, <1>12 DEF GcStep

\* At the start: the base invariant.
LEMMA BaseInitially == Init => BaseInv
<1> SUFFICES ASSUME Init PROVE BaseInv
  OBVIOUS
<1>1. /\ row = [r \in Releases |-> None] /\ jobs = <<>> /\ patches = {} /\ blobs = {}
      /\ patchFiles = {} /\ json = [v \in Versions |-> None] /\ sig = [v \in Versions |-> None]
      /\ up = {}
  BY DEF Init
<1>2. /\ pub \in [Publishers -> RequestType] /\ \A p \in Publishers : pub[p].pc = "idle"
  BY NoRequestFields DEF Init
<1>3. /\ worker \in [Workers -> WorkerType]
      /\ \A w \in Workers : worker[w].pc = "idle" /\ worker[w].job = 0
  BY IdleWorkerFields DEF Init
<1>4. gc \in RunType /\ gc.pc = "idle" /\ gc.todo = {}
  BY RunFields DEF Init, NoGc, GcPCs
<1>5. count \in CountType
  BY BoundsAssumption DEF Init, CountType
<1>6. TypeOK
  BY <1>1, <1>2, <1>3, <1>4, <1>5 DEF TypeOK, RequestType, WorkerType, RunType, CountType
<1>7. Alive /\ DropNamed /\ Uploaded /\ LastUse /\ Filed /\ ManifestMatchesRow
  BY <1>1, <1>2, <1>3, <1>4
  DEF Alive, DropNamed, Uploaded, Winners, LastUse, Filed, ManifestMatchesRow
<1>8. RowsOffered /\ RowHasBlob
  BY <1>1 DEF RowsOffered, RowHasBlob, Existing
<1>9. QED
  BY <1>6, <1>7, <1>8 DEF BaseInv

\* Stuttering keeps the base invariant.
LEMMA BaseStays ==
    ASSUME BaseInv, UNCHANGED vars
    PROVE  BaseInv'
<1>1. UNCHANGED <<row, jobs, patches, blobs, patchFiles, json, sig, up, pub, worker, gc, count>>
  BY DEF vars
<1>2. TypeOK'
  BY <1>1, Types, TypesAgain DEF BaseInv
<1>3. /\ Alive' /\ DropNamed' /\ RowsOffered' /\ Uploaded' /\ LastUse' /\ Filed' /\ RowHasBlob'
      /\ ManifestMatchesRow'
  BY <1>1 DEF BaseInv, Alive, DropNamed, RowsOffered, Uploaded, LastUse, Filed, RowHasBlob,
              ManifestMatchesRow, Existing
<1>4. QED
  BY <1>2, <1>3 DEF BaseInv

\* Next, sorted by the actor that takes the step.
LEMMA StepKinds ==
    ASSUME Next
    PROVE  \/ \E s \in Servers : Boot(s) \/ Crash(s)
           \/ \E p \in Publishers :
                \/ \E r \in Releases : \E b \in Offered[r] : BeginPublish(p, r, b)
                \/ PublishStep(p)
                \/ PublishError(p)
           \/ \E w \in Workers : WorkerStep(w) \/ BuildError(w) \/ FailureLost(w)
           \/ BeginGc \/ (\E f, t \in Releases : BuildEdge(f, t)) \/ GcStep \/ GcStops
BY DEF Next

\* Of any number of servers on one data directory, with the GC offline: the
\* inductive invariant about rows, blobs and manifests holds in every state.
THEOREM BaseInvariance ==
    ASSUME Offline
    PROVE  Spec => []BaseInv
<1>1. BaseInv /\ [Next]_vars => BaseInv'
  BY BaseWorkers, BaseBoot, BaseCrash, BasePublishers, BaseGcSteps, BaseStays, StepKinds
<1>2. QED
  BY BaseInitially, <1>1, PTL DEF Spec

\* The state of the publish pipeline has its types, however many servers,
\* handlers and workers there are and whatever dies or fails.
THEOREM PublishTypes ==
    ASSUME Offline
    PROVE  Spec => []TypeOK
<1>1. BaseInv => TypeOK
  BY DEF BaseInv
<1>2. QED
  BY BaseInvariance, <1>1, PTL

\* Every row of releases has its blob: no interleaving of uploads that find the
\* blob present with drops that count its users loses one, as long as the GC
\* runs while the servers are down.
THEOREM RowsHaveBlobs ==
    ASSUME Offline
    PROVE  Spec => []RowHasBlob
<1>1. BaseInv => RowHasBlob
  BY DEF BaseInv
<1>2. QED
  BY BaseInvariance, <1>1, PTL

\* Whichever of two concurrent publishes wins the insert, and wherever a
\* publish or a drop is cut short, a manifest on disk is that of a row.
THEOREM ManifestsMatchRows ==
    ASSUME Offline
    PROVE  Spec => []ManifestMatchesRow
<1>1. BaseInv => ManifestMatchesRow
  BY DEF BaseInv
<1>2. QED
  BY BaseInvariance, <1>1, PTL

----------------------------------------------------------------------------
(* The second invariant is kept: jobs and patch rows *)

\* Jobs still join live releases when neither the jobs nor the releases go.
LEMMA JobsJoinStays ==
    ASSUME TypeOK, JobsJoin, SameJobs, DOMAIN jobs' = DOMAIN jobs,
           \A r \in Existing : r \in Existing'
    PROVE  JobsJoin'
BY DEF SameJobs, JobsJoin

\* A step of one worker keeps the patch graph invariant under these conditions.
LEMMA GraphWorker ==
    ASSUME BaseInv, GraphInv, NEW w \in Workers, WorkerChanges(w), Home[w] \in up,
           \A q \in patches' :
              \/ q \in patches
              \/ /\ {q.from, q.to} \subseteq Existing
                 /\ q.sha[1] \in Offered[q.from] /\ q.sha[2] \in Offered[q.to],
           WorkOnLive'
    PROVE  GraphInv'
<1> USE DEF GraphInv
<1>1. SameJobs /\ DOMAIN jobs' = DOMAIN jobs /\ UNCHANGED <<row, up, pub, gc>>
  BY DEF WorkerChanges
<1>2. gc.pc = "idle" /\ TypeOK
  BY GcIdle DEF BaseInv
<1>3. Existing' = Existing
  BY <1>1 DEF Existing
<1>4. JobsJoin'
  BY <1>1, <1>2, <1>3, JobsJoinStays
<1>5. PatchesOffered' /\ NoDanglingPatches'
  BY <1>3 DEF PatchesOffered, NoDanglingPatches
<1>6. PriorsExist'
  BY <1>1 DEF PriorsExist
<1>7. DropOrder'
  BY <1>1, <1>2 DEF DropOrder
<1>8. QED
  BY <1>4, <1>5, <1>6, <1>7

\* Every worker step meets them.
LEMMA GraphWorkers ==
    ASSUME BaseInv, GraphInv, NEW w \in Workers,
           WorkerStep(w) \/ BuildError(w) \/ FailureLost(w)
    PROVE  GraphInv'
<1>0. /\ TypeOK /\ WorkOnLive /\ "done" \in Statuses /\ "failed" \in Statuses
      /\ worker[w].pc # "idle" => Home[w] \in up /\ worker[w].job \in DOMAIN jobs
      /\ \A x \in Workers : worker[x].pc # "idle" => worker[x].job \in DOMAIN jobs
  BY Types DEF BaseInv, GraphInv, Alive, Statuses
<1>1. CASE ClaimNextPatchJob(w)
  <2>1. /\ WorkerChanges(w) /\ UNCHANGED patches /\ Home[w] \in up
    BY <1>0, <1>1, ClaimEffect
  <2>2. PICK i \in DOMAIN jobs :
          /\ jobs'[i].status = "running" /\ \A k \in DOMAIN jobs : k # i => jobs'[k] = jobs[k]
          /\ worker'[w].job = i
    BY <1>0, <1>1, ClaimEffect
  <2>3. WorkOnLive'
    BY <1>0, <2>1, <2>2 DEF WorkOnLive, WorkerChanges
  <2>4. QED
    BY <2>1, <2>3, GraphWorker
<1>2. CASE BuildPatch(w) \/ BuildError(w)
  <2>1. /\ WorkerChanges(w) /\ UNCHANGED <<jobs, patches>>
        /\ worker[w].pc # "idle" /\ worker'[w].job = worker[w].job
    BY <1>0, <1>2, BuildEffect, BuildErrorEffect
  <2>2. WorkOnLive'
    BY <1>0, <2>1 DEF WorkOnLive, WorkerChanges
  <2>3. QED
    BY <1>0, <2>1, <2>2, GraphWorker
<1>3. CASE InsertPatch(w)
  <2> DEFINE j == jobs[worker[w].job]
  <2>1. /\ WorkerChanges(w) /\ UNCHANGED jobs
        /\ worker[w].pc # "idle" /\ worker'[w].job = worker[w].job
        /\ worker[w].job \in DOMAIN jobs
        /\ patches' = WithPatch(ShaOf(j), j.from, j.to)
    BY <1>0, <1>3, InsertEffect
  <2>2. WorkOnLive'
    BY <1>0, <2>1 DEF WorkOnLive, WorkerChanges
  <2>3. /\ j.from \in Releases /\ j.to \in Releases /\ ShaOf(j) \in PatchShas
    BY <1>0, <2>1, JobTypes
  <2>4. /\ {j.from, j.to} \subseteq Existing
        /\ ShaOf(j)[1] \in Offered[j.from] /\ ShaOf(j)[2] \in Offered[j.to]
    BY <1>0, <2>1 DEF GraphInv, JobsJoin, WorkOnLive, ShaOf
  <2> HIDE DEF j
  <2>5. \A q \in patches' :
          q \in patches \/ (q.sha = ShaOf(j) /\ q.from = j.from /\ q.to = j.to)
    BY <1>0, <2>1, <2>3, PatchInserted
  <2>6. QED
    BY <1>0, <2>1, <2>2, <2>4, <2>5, GraphWorker
<1>4. CASE CompletePatchJob(w) \/ FailPatchJob(w)
  <2>1. PICK status \in {"done", "failed"} : Finish(w, status)
    BY <1>4 DEF CompletePatchJob, FailPatchJob
  <2>2. worker[w].pc # "idle"
    BY <1>4 DEF CompletePatchJob, FailPatchJob
  <2>3. /\ WorkerChanges(w) /\ UNCHANGED patches /\ worker'[w].pc = "idle"
        /\ jobs'[worker[w].job].status =
             IF jobs[worker[w].job].status = "deleted" THEN "deleted" ELSE status
        /\ \A i \in DOMAIN jobs : i # worker[w].job => jobs'[i] = jobs[i]
    BY <1>0, <2>1, <2>2, FinishEffect
  <2>4. WorkOnLive'
    BY <1>0, <2>2, <2>3 DEF WorkOnLive, WorkerChanges
  <2>5. QED
    BY <1>0, <2>2, <2>3, <2>4, GraphWorker
<1>5. CASE FailureLost(w)
  <2>1. /\ WorkerChanges(w) /\ UNCHANGED <<jobs, patches>> /\ worker'[w].pc = "idle"
        /\ worker[w].pc # "idle"
    BY <1>0, <1>5, FailureLostEffect DEF FailureLost
  <2>2. WorkOnLive'
    BY <1>0, <2>1 DEF WorkOnLive, WorkerChanges
  <2>3. QED
    BY <1>0, <2>1, <2>2, GraphWorker
<1>6. QED
  BY <1>1, <1>2, <1>3, <1>4, <1>5 DEF WorkerStep

\* A boot keeps the patch graph invariant.
LEMMA GraphBoot ==
    ASSUME Offline, BaseInv, GraphInv, NEW s \in Servers, Boot(s)
    PROVE  GraphInv'
<1> USE DEF GraphInv
<1>0. TypeOK
  BY DEF BaseInv
<1>1. /\ UNCHANGED <<row, patches, pub, worker, gc>> /\ gc.pc = "idle"
      /\ SameJobs /\ DOMAIN jobs' = DOMAIN jobs
      /\ \A i \in DOMAIN jobs :
           jobs'[i].status = IF jobs[i].status = "running" THEN "pending" ELSE jobs[i].status
  BY <1>0, BootEffect DEF Offline
<1>2. Existing' = Existing
  BY <1>1 DEF Existing
<1>3. JobsJoin'
  BY <1>0, <1>1, <1>2, JobsJoinStays
<1>4. PatchesOffered' /\ NoDanglingPatches' /\ PriorsExist'
  BY <1>1, <1>2 DEF PatchesOffered, NoDanglingPatches, PriorsExist
<1>5. WorkOnLive'
  BY <1>0, <1>1, Types DEF WorkOnLive
<1>6. DropOrder'
  BY <1>1 DEF DropOrder
<1>7. QED
  BY <1>3, <1>4, <1>5, <1>6

\* A crash keeps the patch graph invariant.
LEMMA GraphCrash ==
    ASSUME BaseInv, GraphInv, NEW s \in Servers, Crash(s)
    PROVE  GraphInv'
<1> USE DEF GraphInv
<1>0. TypeOK
  BY DEF BaseInv
<1>1. /\ UNCHANGED <<row, jobs, patches, gc>>
      /\ \A p \in Publishers : pub'[p] = IF Home[p] = s THEN NoRequest ELSE pub[p]
      /\ \A w \in Workers : worker'[w] = IF Home[w] = s THEN IdleWorker ELSE worker[w]
  BY <1>0, CrashEffect
<1>2. JobsJoin' /\ PatchesOffered' /\ NoDanglingPatches' /\ DropOrder'
  BY <1>1 DEF JobsJoin, PatchesOffered, NoDanglingPatches, DropOrder, Existing, Touching
<1>3. PriorsExist'
  BY <1>1, NoRequestFields DEF PriorsExist
<1>4. WorkOnLive'
  BY <1>1, IdleWorkerFields DEF WorkOnLive
<1>5. QED
  BY <1>2, <1>3, <1>4

\* A step of one publisher keeps the patch graph invariant under these conditions.
LEMMA GraphPublisher ==
    ASSUME BaseInv, GraphInv, NEW p \in Publishers, PubChanges(p), Home[p] \in up,
           RowsGrow, SameJobs, JobsJoin',
           \A i \in DOMAIN jobs : jobs'[i] = jobs[i],
           pub'[p].pc # "enqueue" => pub'[p].priors = {},
           \A prior \in pub'[p].priors :
              row[prior[1]] = prior[2] /\ prior[1][1] = pub'[p].rel[1]
    PROVE  GraphInv'
<1> USE DEF GraphInv
<1>0. TypeOK /\ gc.pc = "idle"
  BY GcIdle DEF BaseInv
<1>1. /\ pub' \in [Publishers -> RequestType]
      /\ \A q \in Publishers : q # p => pub'[q] = pub[q]
      /\ UNCHANGED <<patches, patchFiles, up, worker, gc>>
  BY DEF PubChanges
<1>2. \A r \in Existing : r \in Existing' /\ row'[r] = row[r]
  BY DEF Existing, RowsGrow
<1>3. PatchesOffered' /\ NoDanglingPatches'
  BY <1>1, <1>2 DEF PatchesOffered, NoDanglingPatches
<1>4. PriorsExist'
  <2>1. ASSUME NEW q \in Publishers, NEW prior \in pub'[q].priors
        PROVE  row'[prior[1]] = prior[2] /\ prior[1][1] = pub'[q].rel[1]
    <3>1. prior \in Releases \X Blobs
      BY <1>1, <2>1 DEF RequestType
    <3>2. row[prior[1]] = prior[2] /\ prior[1][1] = pub'[q].rel[1]
      BY <1>1, <2>1 DEF PriorsExist
    <3>3. prior[1] \in Releases /\ prior[2] # None
      BY <3>1, NoneAssumption
    <3>4. QED
      BY <1>2, <3>2, <3>3 DEF Existing
  <2>2. QED
    BY <1>1, <2>1 DEF PriorsExist
<1>5. WorkOnLive'
  BY <1>0, <1>1, Types DEF WorkOnLive
<1>6. DropOrder'
  BY <1>0, <1>1 DEF DropOrder
<1>7. QED
  BY <1>3, <1>4, <1>5, <1>6

\* Every publisher step meets them.
LEMMA GraphPublishers ==
    ASSUME BaseInv, GraphInv, NEW p \in Publishers,
           \/ \E r \in Releases : \E b \in Offered[r] : BeginPublish(p, r, b)
           \/ PublishStep(p)
           \/ PublishError(p)
    PROVE  GraphInv'
<1>0. TypeOK /\ JobsJoin /\ PriorsExist
  BY DEF BaseInv, GraphInv
<1>1. ASSUME NEW r \in Releases, NEW b \in Offered[r], BeginPublish(p, r, b)
      PROVE  GraphInv'
  <2>1. /\ PubChanges(p) /\ UNCHANGED <<row, jobs, blobs>>
        /\ Home[p] \in up /\ pub'[p].priors = {}
    BY <1>0, <1>1, BeginEffect
  <2>2. RowsGrow /\ SameJobs /\ JobsJoin'
    BY <1>0, <2>1, RowsStay, UnchangedJobs DEF JobsJoin, Existing
  <2>3. QED
    BY <2>1, <2>2, GraphPublisher
<1>2. CASE PutBlob(p)
  <2>1. /\ PubChanges(p) /\ UNCHANGED <<row, jobs>>
        /\ pub[p].pc = "put" /\ pub'[p].priors = pub[p].priors
        /\ blobs' = blobs \cup {pub[p].blob}
    BY <1>0, <1>2, PutEffect DEF SameRequest
  <2>2. Home[p] \in up /\ pub[p].blob \in Blobs
    BY <2>1, RequestKnown
  <2>3. RowsGrow /\ SameJobs /\ JobsJoin'
    BY <1>0, <2>1, <2>2, Types, UnchangedJobs DEF RowsGrow, JobsJoin, Existing
  <2>4. pub'[p].priors = {}
    BY <1>0, <2>1 DEF PriorsExist
  <2>5. QED
    BY <2>1, <2>2, <2>3, <2>4, GraphPublisher
<1>3. CASE InsertReleaseIfNew(p)
  <2>1. /\ PubChanges(p) /\ UNCHANGED <<jobs, blobs>>
        /\ pub[p].pc = "insert" /\ pub'[p].priors = pub[p].priors
        /\ \/ /\ row[pub[p].rel] = None
              /\ row' = [row EXCEPT ![pub[p].rel] = pub[p].blob]
           \/ row' = row
    BY <1>0, <1>3, InsertReleaseEffect DEF SameRequest
  <2>2. /\ Home[p] \in up /\ pub[p].rel \in Releases /\ pub[p].blob \in Offered[pub[p].rel]
        /\ pub[p].blob \in Blobs /\ pub[p].blob \in blobs
    BY <2>1, RequestKnown
  <2>3. RowsGrow
    BY <1>0, <2>1, <2>2, Types DEF RowsGrow
  <2>4. \A r \in Existing : r \in Existing'
    BY <2>3 DEF Existing, RowsGrow
  <2>5. SameJobs /\ JobsJoin'
    BY <1>0, <2>1, <2>4, UnchangedJobs, JobsJoinStays
  <2>6. pub'[p].priors = {}
    BY <1>0, <2>1 DEF PriorsExist
  <2>7. QED
    BY <2>1, <2>2, <2>3, <2>5, <2>6, GraphPublisher
<1>4. CASE WriteJson(p) \/ WriteSig(p) \/ TailPatchJobs(p) \/ Answer(p) \/ PublishError(p)
  <2>1. /\ PubChanges(p) /\ UNCHANGED <<row, jobs, blobs>> /\ pub[p].pc # "idle"
        /\ \/ pub[p].pc # "enqueue" /\ pub'[p].priors = pub[p].priors
           \/ pub'[p].priors = {}
    <3>1. CASE WriteJson(p)
      BY <1>0, <3>1, JsonEffect DEF SameRequest
    <3>2. CASE WriteSig(p)
      BY <1>0, <3>2, SigEffect DEF SameRequest
    <3>3. CASE TailPatchJobs(p)
      BY <1>0, <3>3, TailEffect
    <3>4. CASE Answer(p)
      BY <1>0, <3>4, AnswerEffect, NoRequestFields
    <3>5. CASE PublishError(p)
      BY <1>0, <3>5, PublishErrorEffect, NoRequestFields
    <3>6. QED
      BY <1>4, <3>1, <3>2, <3>3, <3>4, <3>5
  <2>2. Home[p] \in up
    BY <2>1, RequestKnown
  <2>3. RowsGrow /\ SameJobs /\ JobsJoin'
    BY <1>0, <2>1, RowsStay, UnchangedJobs DEF JobsJoin, Existing
  <2>4. pub'[p].priors = {}
    BY <1>0, <2>1 DEF PriorsExist
  <2>5. QED
    BY <2>1, <2>2, <2>3, <2>4, GraphPublisher
<1>5. CASE ListPriors(p)
  <2>1. /\ PubChanges(p) /\ UNCHANGED <<row, jobs, blobs>> /\ pub[p].pc # "idle"
        /\ pub'[p].rel = pub[p].rel /\ pub'[p].priors = Priors(pub[p].rel)
        /\ pub'[p].pc # "enqueue" => pub'[p].priors = {}
    BY <1>0, <1>5, ListEffect
  <2>2. Home[p] \in up
    BY <2>1, RequestKnown
  <2>3. RowsGrow /\ SameJobs /\ JobsJoin'
    BY <1>0, <2>1, RowsStay, UnchangedJobs DEF JobsJoin, Existing
  <2>4. \A prior \in pub'[p].priors :
          row[prior[1]] = prior[2] /\ prior[1][1] = pub'[p].rel[1]
    BY <1>0, <2>1, PriorsTypes
  <2>5. QED
    BY <2>1, <2>2, <2>3, <2>4, GraphPublisher
<1>6. CASE EnqueuePatchJob(p)
  <2>1. pub[p].pc = "enqueue"
    BY <1>6 DEF EnqueuePatchJob
  <2>2. /\ Home[p] \in up /\ pub[p].rel \in Releases /\ pub[p].blob \in Offered[pub[p].rel]
        /\ pub[p].blob \in Blobs /\ pub[p].blob # None /\ row[pub[p].rel] = pub[p].blob
    BY <2>1, RequestKnown DEF Winners
  <2>3. /\ PubChanges(p) /\ UNCHANGED <<row, blobs>> /\ SameJobs
        /\ pub'[p].rel = pub[p].rel /\ pub'[p].priors \subseteq pub[p].priors
        /\ pub'[p].pc # "enqueue" => pub'[p].priors = {}
        /\ \A i \in DOMAIN jobs : jobs'[i] = jobs[i]
    BY <1>0, <1>6, <2>2, EnqueueEffect
  <2>4. \A prior \in pub'[p].priors :
          row[prior[1]] = prior[2] /\ prior[1][1] = pub'[p].rel[1]
    BY <1>0, <2>3 DEF PriorsExist
  <2>5. JobsJoin'
    <3>1. Existing' = Existing
      BY <2>3 DEF Existing
    <3>2. CASE jobs' = jobs
      BY <1>0, <3>1, <3>2 DEF JobsJoin
    <3>3. CASE jobs' # jobs
      <4>1. PICK prior \in pub[p].priors :
              /\ DOMAIN jobs' = DOMAIN jobs \cup {Len(jobs) + 1}
              /\ jobs'[Len(jobs) + 1] = NewJob(p, prior)
        BY <1>0, <1>6, <2>2, <3>3, EnqueueEffect
      <4> DEFINE j == NewJob(p, prior)
      <4>2. prior \in Releases \X Blobs
        BY <1>0, PubFields
      <4>3. row[prior[1]] = prior[2] /\ prior[1][1] = pub[p].rel[1]
        BY <1>0 DEF PriorsExist
      <4>4. /\ prior[1] \in Existing /\ prior[2] \in Offered[prior[1]]
        BY <4>2, <4>3, NoneAssumption DEF Existing, BaseInv, RowsOffered
      <4>5. pub[p].rel \in Existing
        BY <2>2 DEF Existing
      <4>6. /\ j.from = prior[1] /\ j.to = pub[p].rel
            /\ j.from_blob = prior[2] /\ j.to_blob = pub[p].blob
        BY DEF NewJob
      <4>7. /\ j.from_blob \in Offered[j.from] /\ j.to_blob \in Offered[j.to]
            /\ j.from[1] = j.to[1] /\ {j.from, j.to} \subseteq Existing
        BY <2>2, <4>3, <4>4, <4>5, <4>6
      <4> HIDE DEF j
      <4>8. jobs'[Len(jobs) + 1] = j
        BY <4>1 DEF j
      <4>9. QED
        BY <1>0, <2>3, <3>1, <4>1, <4>7, <4>8 DEF JobsJoin
    <3>4. QED
      BY <3>2, <3>3
  <2>6. RowsGrow
    BY <1>0, <2>3, RowsStay
  <2>7. QED
    BY <2>2, <2>3, <2>4, <2>5, <2>6, GraphPublisher
<1>7. QED
  BY <1>1, <1>2, <1>3, <1>4, <1>5, <1>6 DEF PublishStep

\* A collection step keeps the patch graph invariant under these conditions.
LEMMA GraphGc ==
    ASSUME BaseInv, GraphInv, GcChanges, up = {},
           JobsJoin', PatchesOffered', NoDanglingPatches', DropOrder'
    PROVE  GraphInv'
<1>1. UNCHANGED <<up, pub, worker>>
  BY DEF GcChanges
<1>2. /\ \A p \in Publishers : pub'[p].pc = "idle" /\ pub'[p].priors = {}
      /\ \A w \in Workers : worker'[w].pc = "idle"
  BY <1>1 DEF BaseInv, Alive, GraphInv, PriorsExist
<1>3. PriorsExist' /\ WorkOnLive'
  BY <1>2 DEF PriorsExist, WorkOnLive
<1>4. QED
  BY <1>3 DEF GraphInv

\* The steps of the GC that leave the rows alone and add no patch.
LEMMA GraphGcQuiet ==
    ASSUME BaseInv, GraphInv, GcChanges, up = {}, UNCHANGED row,
           patches' \subseteq patches, DropOrder'
    PROVE  GraphInv'
<1>1. Existing' = Existing /\ SameJobs /\ DOMAIN jobs' = DOMAIN jobs
  BY DEF Existing, GcChanges
<1>2. JobsJoin'
  BY <1>1, JobsJoinStays DEF BaseInv, GraphInv
<1>3. PatchesOffered' /\ NoDanglingPatches'
  BY <1>1 DEF GraphInv, PatchesOffered, NoDanglingPatches
<1>4. QED
  BY <1>2, <1>3, GraphGc

\* Every collection step meets them.
LEMMA GraphGcSteps ==
    ASSUME Offline, OneReleasePerVersion, BaseInv, GraphInv,
           BeginGc \/ (\E f, t \in Releases : BuildEdge(f, t)) \/ GcStep \/ GcStops
    PROVE  GraphInv'
<1>0. TypeOK /\ DropOrder /\ (gc.pc # "idle" => up = {})
  BY DEF BaseInv, GraphInv, Alive
<1>1. CASE BeginGc
  <2>1. GcChanges /\ up = {} /\ UNCHANGED <<row, patches>> /\ gc'.pc = "plan"
    BY <1>0, <1>1, BeginGcEffect DEF Offline
  <2>2. DropOrder'
    BY <2>1 DEF DropOrder
  <2>3. QED
    BY <2>1, <2>2, GraphGcQuiet
<1>2. ASSUME NEW f \in Releases, NEW t \in Releases, BuildEdge(f, t)
      PROVE  GraphInv'
  <2> DEFINE sha == <<row[f], row[t]>>
  <2>1. /\ GcChanges /\ gc.pc = "plan" /\ UNCHANGED <<row, jobs, gc>>
        /\ f \in Existing /\ t \in Existing /\ sha \in PatchShas
        /\ patches' = WithPatch(sha, f, t)
    BY <1>0, <1>2, BuildEdgeEffect
  <2>2. sha[1] \in Offered[f] /\ sha[2] \in Offered[t]
    BY <2>1 DEF BaseInv, RowsOffered
  <2> HIDE DEF sha
  <2>3. \A q \in patches' : q \in patches \/ (q.sha = sha /\ q.from = f /\ q.to = t)
    BY <1>0, <2>1, PatchInserted
  <2>4. Existing' = Existing
    BY <2>1 DEF Existing
  <2>5. PatchesOffered' /\ NoDanglingPatches'
    BY <2>1, <2>2, <2>3, <2>4 DEF GraphInv, PatchesOffered, NoDanglingPatches
  <2>6. JobsJoin' /\ DropOrder'
    BY <2>1, <2>4 DEF GraphInv, JobsJoin, DropOrder
  <2>7. QED
    BY <1>0, <2>1, <2>5, <2>6, GraphGc
<1>3. CASE (\E c \in gc.todo : DropNext(c)) \/ (\E sha \in gc.shas : DropPatchFile(sha))
  <2>1. /\ GcChanges /\ gc.pc # "idle" /\ UNCHANGED <<row, patches>>
        /\ gc'.pc \in {"patchRows", "patchFiles"}
    BY <1>0, <1>3, DropNextEffect, DropPatchFileEffect
  <2>2. DropOrder'
    BY <2>1 DEF DropOrder
  <2>3. QED
    BY <1>0, <2>1, <2>2, GraphGcQuiet
<1>4. CASE DropPatchRows
  <2>1. /\ GcChanges /\ gc.pc = "patchRows" /\ gc'.pc = "jobRows" /\ UNCHANGED row
        /\ gc'.rel = gc.rel /\ patches' = patches \ Touching(gc.rel)
    BY <1>0, <1>4, DropPatchRowsEffect DEF SameRun
  <2>2. Touching(gc.rel)' = {}
    BY <2>1 DEF Touching
  <2>3. DropOrder'
    BY <2>1, <2>2 DEF DropOrder
  <2>4. QED
    BY <1>0, <2>1, <2>3, GraphGcQuiet
<1>5. CASE DropJobRows
  <2>1. /\ GcChanges /\ gc.pc = "jobRows" /\ gc'.pc = "json" /\ UNCHANGED <<row, patches>>
        /\ gc'.rel = gc.rel
        /\ \A i \in DOMAIN jobs :
             jobs'[i].status = IF gc.rel \in {jobs[i].from, jobs[i].to} THEN "deleted"
                               ELSE jobs[i].status
    BY <1>0, <1>5, DropJobRowsEffect DEF SameRun
  <2>2. SameJobs /\ DOMAIN jobs' = DOMAIN jobs
    BY <2>1 DEF GcChanges
  <2>3. DropOrder'
    BY <1>0, <2>1, <2>2 DEF DropOrder, Touching, SameJobs
  <2>4. QED
    BY <1>0, <2>1, <2>3, GraphGcQuiet
<1>6. CASE DropJson \/ DropSig
  <2>1. /\ GcChanges /\ gc.pc \in {"json", "sig"} /\ gc'.pc \in {"sig", "row"}
        /\ UNCHANGED <<row, jobs, patches>> /\ gc'.rel = gc.rel
    BY <1>0, <1>6, DropJsonEffect, DropSigEffect DEF SameRun
  <2>2. DropOrder'
    BY <1>0, <2>1 DEF DropOrder, Touching
  <2>3. QED
    BY <1>0, <2>1, <2>2, GraphGcQuiet
<1>7. CASE DropRow
  <2>1. /\ GcChanges /\ gc.pc = "row" /\ gc'.pc = "refcount" /\ UNCHANGED <<jobs, patches>>
        /\ gc'.rel = gc.rel
        /\ row' = [r \in Releases |-> IF Version(r) = Version(gc.rel) THEN None ELSE row[r]]
    BY <1>0, <1>7, DropRowEffect DEF SameRun
  <2>2. gc.rel \in Releases /\ Offered[gc.rel] # {}
    BY <2>1, DropKnown
  <2>3. \A r \in Existing : r # gc.rel => r \in Existing'
    <3>1. ASSUME NEW r \in Existing, r # gc.rel
          PROVE  r \in Existing'
      <4>1. r \in Releases /\ row[r] # None /\ Offered[r] # {}
        BY DEF Existing, BaseInv, RowsOffered
      <4>2. Version(r) # Version(gc.rel)
        BY <2>2, <3>1, <4>1 DEF OneReleasePerVersion
      <4>3. QED
        BY <2>1, <4>1, <4>2 DEF Existing
    <3>2. QED
      BY <3>1
  <2>4. /\ \A q \in patches : gc.rel \notin {q.from, q.to}
        /\ \A i \in DOMAIN jobs :
             gc.rel \in {jobs[i].from, jobs[i].to} => jobs[i].status = "deleted"
    BY <1>0, <2>1 DEF DropOrder, Touching
  <2>5. PatchesOffered' /\ NoDanglingPatches'
    BY <2>1, <2>3, <2>4 DEF GraphInv, PatchesOffered, NoDanglingPatches
  <2>6. JobsJoin'
    BY <2>1, <2>3, <2>4 DEF GraphInv, JobsJoin
  <2>7. DropOrder'
    BY <2>1, <2>4 DEF DropOrder
  <2>8. QED
    BY <1>0, <2>1, <2>5, <2>6, <2>7, GraphGc
<1>8. CASE CountReleasesUsingBlob
  <2>1. /\ GcChanges /\ gc.pc = "refcount" /\ UNCHANGED <<row, jobs, patches>>
        /\ gc'.pc \in {"idle", "next"} \/ (gc'.pc = "blob" /\ gc'.rel = gc.rel)
    BY <1>0, <1>8, RefcountEffect DEF SameRun, RunEnds
  <2>2. DropOrder'
    BY <1>0, <2>1 DEF DropOrder
  <2>3. QED
    BY <1>0, <2>1, <2>2, GraphGcQuiet
<1>9. CASE DropBlob \/ GcStops
  <2>1. /\ GcChanges /\ gc.pc # "idle" /\ UNCHANGED <<row, jobs, patches>>
        /\ gc'.pc \in {"idle", "next"}
    BY <1>0, <1>9, DropBlobEffect, GcStopsEffect DEF RunEnds
  <2>2. DropOrder'
    BY <2>1 DEF DropOrder
  <2>3. QED
    BY <1>0, <2>1, <2>2, GraphGcQuiet
<1>10. QED
  BY <1>1, <1>2, <1>3, <1>4, <1>5, <1>6, <1>7, <1>8, <1>9 DEF GcStep

\* At the start: the patch graph invariant.
LEMMA GraphInitially == Init => GraphInv
<1> SUFFICES ASSUME Init PROVE GraphInv
  OBVIOUS
<1>1. jobs = <<>> /\ DOMAIN jobs = {} /\ patches = {}
  BY DEF Init
<1>2. /\ \A p \in Publishers : pub[p].priors = {}
      /\ \A w \in Workers : worker[w].pc = "idle"
  BY NoRequestFields, IdleWorkerFields DEF Init
<1>3. gc.pc = "idle"
  BY RunFields DEF Init, NoGc
<1>4. QED
  BY <1>1, <1>2, <1>3
  DEF GraphInv, JobsJoin, PatchesOffered, PriorsExist, WorkOnLive, DropOrder, NoDanglingPatches

\* Stuttering keeps the patch graph invariant.
LEMMA GraphStays ==
    ASSUME GraphInv, UNCHANGED vars
    PROVE  GraphInv'
BY DEF vars, GraphInv, JobsJoin, PatchesOffered, PriorsExist, WorkOnLive, DropOrder,
       NoDanglingPatches, Existing, Touching

\* The inductive invariant about jobs and patch rows holds in every state, for
\* any number of servers, as long as a version is published for one platform.
THEOREM GraphInvariance ==
    ASSUME Offline, OneReleasePerVersion
    PROVE  Spec => []GraphInv
<1>1. BaseInv /\ GraphInv /\ [Next]_vars => GraphInv'
  BY GraphWorkers, GraphBoot, GraphCrash, GraphPublishers, GraphGcSteps, GraphStays, StepKinds
<1>2. QED
  BY BaseInvariance, GraphInitially, <1>1, PTL DEF Spec

\* Workers that finish late, drops cut short and repeated, and publishes of
\* what was dropped leave no patch row without its two releases.
THEOREM PatchesDoNotDangle ==
    ASSUME Offline, OneReleasePerVersion
    PROVE  Spec => []NoDanglingPatches
<1>1. GraphInv => NoDanglingPatches
  BY DEF GraphInv
<1>2. QED
  BY GraphInvariance, <1>1, PTL

----------------------------------------------------------------------------
(* Done jobs keep their edges *)

EdgesStay == \A q \in patches : \E e \in patches' : e.from = q.from /\ e.to = q.to

\* A row that gives way to one with the same sha256 joins the same releases,
\* when no two releases have the same contents.
LEMMA EdgesReplaced ==
    ASSUME DistinctContents, TypeOK, PatchesOffered,
           NEW sha \in PatchShas, NEW f \in Releases, NEW t \in Releases,
           sha[1] \in Offered[f], sha[2] \in Offered[t],
           patches' = WithPatch(sha, f, t)
    PROVE  EdgesStay /\ \E e \in patches' : e.from = f /\ e.to = t
<1>1. /\ \E e \in patches' : e.from = f /\ e.to = t
      /\ \A q \in patches : q \in patches' \/ q.sha = sha \/ (q.from = f /\ q.to = t)
  BY PatchInserted
<1>2. ASSUME NEW q \in patches, q.sha = sha
      PROVE  q.from = f /\ q.to = t
  <2>1. q \in Patch
    BY Types
  <2>2. q.from \in Releases /\ q.to \in Releases
    BY <2>1 DEF Patch
  <2>3. sha[1] \in Offered[q.from] \cap Offered[f] /\ sha[2] \in Offered[q.to] \cap Offered[t]
    BY <1>2 DEF PatchesOffered
  <2>4. QED
    BY <2>2, <2>3 DEF DistinctContents
<1>3. QED
  BY <1>1, <1>2 DEF EdgesStay

\* A step of one worker keeps that finished jobs have their edges under these conditions.
LEMMA EdgeWorker ==
    ASSUME TypeOK, EdgeInv, NEW w \in Workers, WorkerChanges(w), EdgesStay,
           \A i \in DOMAIN jobs :
              jobs'[i].status = "done" =>
                 \/ jobs[i].status = "done"
                 \/ \E q \in patches : q.from = jobs[i].from /\ q.to = jobs[i].to,
           worker'[w].pc = "complete" =>
              \E q \in patches' : /\ q.from = jobs[worker'[w].job].from
                                  /\ q.to = jobs[worker'[w].job].to
                                  /\ worker'[w].job \in DOMAIN jobs
    PROVE  EdgeInv'
<1>1. /\ SameJobs /\ DOMAIN jobs' = DOMAIN jobs /\ UNCHANGED gc
      /\ \A x \in Workers : x # w => worker'[x] = worker[x]
  BY DEF WorkerChanges
<1>2. Inserted'
  <2>1. ASSUME NEW x \in Workers, worker'[x].pc = "complete"
        PROVE  \E q \in patches' : /\ q.from = jobs'[worker'[x].job].from
                                   /\ q.to = jobs'[worker'[x].job].to
    <3>1. CASE x = w
      BY <1>1, <2>1, <3>1 DEF SameJobs
    <3>2. CASE x # w
      <4>1. worker'[x] = worker[x] /\ worker[x].job \in DOMAIN jobs
        BY <1>1, <2>1, <3>2, Types
      <4>2. \E q \in patches : /\ q.from = jobs[worker[x].job].from
                               /\ q.to = jobs[worker[x].job].to
        BY <2>1, <4>1 DEF EdgeInv, Inserted
      <4>3. QED
        BY <1>1, <4>1, <4>2 DEF EdgesStay, SameJobs
    <3>3. QED
      BY <3>1, <3>2
  <2>2. QED
    BY <2>1 DEF Inserted
<1>3. DoneJobsHaveEdges'
  <2>1. ASSUME NEW i \in DOMAIN jobs, jobs'[i].status = "done",
               Dropping \cap {jobs[i].from, jobs[i].to} = {}
        PROVE  \E q \in patches' : q.from = jobs[i].from /\ q.to = jobs[i].to
    <3>1. \E q \in patches : q.from = jobs[i].from /\ q.to = jobs[i].to
      BY <2>1 DEF EdgeInv, DoneJobsHaveEdges
    <3>2. QED
      BY <3>1 DEF EdgesStay
  <2>2. Dropping' = Dropping
    BY <1>1 DEF Dropping
  <2>3. QED
    BY <1>1, <2>1, <2>2 DEF DoneJobsHaveEdges, SameJobs
<1>4. QED
  BY <1>1, <1>2, <1>3 DEF EdgeInv, Between

\* Every worker step meets them.
LEMMA EdgeWorkers ==
    ASSUME DistinctContents, BaseInv, GraphInv, EdgeInv, NEW w \in Workers,
           WorkerStep(w) \/ BuildError(w) \/ FailureLost(w)
    PROVE  EdgeInv'
<1>0. TypeOK /\ "done" \in Statuses /\ "failed" \in Statuses
  BY DEF BaseInv, Statuses
<1>1. CASE ClaimNextPatchJob(w)
  <2>1. /\ WorkerChanges(w) /\ UNCHANGED patches
    BY <1>0, <1>1, ClaimEffect
  <2>2. PICK i \in DOMAIN jobs :
          /\ jobs'[i].status = "running" /\ \A k \in DOMAIN jobs : k # i => jobs'[k] = jobs[k]
          /\ worker'[w].pc = "build"
    BY <1>0, <1>1, ClaimEffect
  <2>3. EdgesStay
    BY <2>1 DEF EdgesStay
  <2>4. QED
    BY <1>0, <2>1, <2>2, <2>3, EdgeWorker
<1>2. CASE BuildPatch(w) \/ BuildError(w) \/ FailureLost(w)
  <2>1. WorkerChanges(w) /\ UNCHANGED <<jobs, patches>> /\ worker'[w].pc # "complete"
    BY <1>0, <1>2, BuildEffect, BuildErrorEffect, FailureLostEffect
  <2>2. EdgesStay
    BY <2>1 DEF EdgesStay
  <2>3. QED
    BY <1>0, <2>1, <2>2, EdgeWorker
<1>3. CASE InsertPatch(w)
  <2> DEFINE j == jobs[worker[w].job]
  <2>1. /\ WorkerChanges(w) /\ UNCHANGED jobs
        /\ worker[w].pc # "idle" /\ worker'[w].job = worker[w].job
        /\ worker[w].job \in DOMAIN jobs
        /\ patches' = WithPatch(ShaOf(j), j.from, j.to)
    BY <1>0, <1>3, InsertEffect
  <2>2. /\ j.from \in Releases /\ j.to \in Releases /\ ShaOf(j) \in PatchShas
    BY <1>0, <2>1, JobTypes
  <2>3. ShaOf(j)[1] \in Offered[j.from] /\ ShaOf(j)[2] \in Offered[j.to]
    BY <2>1 DEF GraphInv, JobsJoin, ShaOf
  <2>4. EdgesStay /\ \E e \in patches' : e.from = j.from /\ e.to = j.to
    <3> HIDE DEF j
    <3> QED
      BY <1>0, <2>1, <2>2, <2>3, EdgesReplaced DEF GraphInv
  <2>5. QED
    BY <1>0, <2>1, <2>4, EdgeWorker
<1>4. CASE CompletePatchJob(w) \/ FailPatchJob(w)
  <2>1. PICK status \in {"done", "failed"} :
          Finish(w, status) /\ (status = "done" => worker[w].pc = "complete")
    BY <1>4 DEF CompletePatchJob, FailPatchJob
  <2>2. worker[w].pc # "idle"
    BY <1>4 DEF CompletePatchJob, FailPatchJob
  <2>3. /\ WorkerChanges(w) /\ UNCHANGED patches /\ worker'[w].pc = "idle"
        /\ worker[w].job \in DOMAIN jobs
        /\ jobs'[worker[w].job].status =
             IF jobs[worker[w].job].status = "deleted" THEN "deleted" ELSE status
        /\ \A i \in DOMAIN jobs : i # worker[w].job => jobs'[i] = jobs[i]
    BY <1>0, <2>1, <2>2, FinishEffect
  <2>4. EdgesStay
    BY <2>3 DEF EdgesStay
  <2>5. status = "done" =>
          \E q \in patches : /\ q.from = jobs[worker[w].job].from
                             /\ q.to = jobs[worker[w].job].to
    BY <2>1 DEF EdgeInv, Inserted
  <2>6. QED
    BY <1>0, <2>3, <2>4, <2>5, EdgeWorker
<1>5. QED
  BY <1>1, <1>2, <1>3, <1>4 DEF WorkerStep

\* Boots and crashes keep that finished jobs have their edges.
LEMMA EdgeServers ==
    ASSUME BaseInv, EdgeInv, NEW s \in Servers, Boot(s) \/ Crash(s)
    PROVE  EdgeInv'
<1>0. TypeOK
  BY DEF BaseInv
<1>1. CASE Boot(s)
  <2>1. /\ UNCHANGED <<patches, worker, gc>> /\ SameJobs /\ DOMAIN jobs' = DOMAIN jobs
        /\ \A i \in DOMAIN jobs :
             jobs'[i].status = IF jobs[i].status = "running" THEN "pending" ELSE jobs[i].status
    BY <1>0, <1>1, BootEffect
  <2>2. Inserted'
    BY <1>0, <2>1, Types DEF EdgeInv, Inserted, SameJobs
  <2>3. DoneJobsHaveEdges'
    <3>1. DoneJobsHaveEdges /\ Dropping' = Dropping
      BY <2>1 DEF EdgeInv, Dropping
    <3>2. \A i \in DOMAIN jobs : jobs'[i].status = "done" => jobs[i].status = "done"
      BY <2>1
    <3>3. QED
      BY <2>1, <3>1, <3>2 DEF DoneJobsHaveEdges, SameJobs
  <2>4. QED
    BY <2>1, <2>2, <2>3 DEF EdgeInv, Between
<1>2. CASE Crash(s)
  <2>1. /\ UNCHANGED <<jobs, patches, gc>>
        /\ \A w \in Workers : worker'[w] = IF Home[w] = s THEN IdleWorker ELSE worker[w]
    BY <1>0, <1>2, CrashEffect
  <2>2. Inserted'
    BY <2>1, IdleWorkerFields DEF EdgeInv, Inserted
  <2>3. DoneJobsHaveEdges'
    BY <2>1 DEF EdgeInv, DoneJobsHaveEdges, Dropping
  <2>4. QED
    BY <2>1, <2>2, <2>3 DEF EdgeInv, Between
<1>3. QED
  BY <1>1, <1>2

\* A publish adds pending jobs and touches no other.
LEMMA PublishJobs ==
    ASSUME BaseInv, NEW p \in Publishers,
           \/ \E r \in Releases : \E b \in Offered[r] : BeginPublish(p, r, b)
           \/ PublishStep(p)
           \/ PublishError(p)
    PROVE  /\ PubChanges(p) /\ SameJobs
           /\ \A i \in DOMAIN jobs : jobs'[i] = jobs[i]
           /\ \A i \in DOMAIN jobs' : i \notin DOMAIN jobs => jobs'[i].status = "pending"
<1>0. TypeOK
  BY DEF BaseInv
<1>1. CASE EnqueuePatchJob(p)
  <2>1. pub[p].pc = "enqueue"
    BY <1>1 DEF EnqueuePatchJob
  <2>2. pub[p].rel \in Releases /\ pub[p].blob \in Blobs
    BY <2>1, RequestKnown
  <2>3. /\ PubChanges(p) /\ SameJobs /\ \A i \in DOMAIN jobs : jobs'[i] = jobs[i]
        /\ \/ jobs' = jobs
           \/ \E prior \in pub[p].priors :
                /\ DOMAIN jobs' = DOMAIN jobs \cup {Len(jobs) + 1}
                /\ jobs'[Len(jobs) + 1] = NewJob(p, prior)
    BY <1>0, <1>1, <2>2, EnqueueEffect
  <2>4. \A prior : NewJob(p, prior).status = "pending"
    BY DEF NewJob
  <2>5. QED
    BY <2>3, <2>4
<1>2. CASE /\ ~EnqueuePatchJob(p)
           /\ \/ \E r \in Releases : \E b \in Offered[r] : BeginPublish(p, r, b)
              \/ PublishStep(p)
              \/ PublishError(p)
  <2>1. PubChanges(p) /\ UNCHANGED jobs
    BY <1>0, <1>2, BeginEffect, PutEffect, InsertReleaseEffect, JsonEffect, SigEffect,
       ListEffect, TailEffect, AnswerEffect, PublishErrorEffect DEF PublishStep
  <2>2. QED
    BY <1>0, <2>1, UnchangedJobs
<1>3. QED
  BY <1>1, <1>2

\* Every publisher step keeps that finished jobs have their edges.
LEMMA EdgePublishers ==
    ASSUME BaseInv, EdgeInv, NEW p \in Publishers,
           \/ \E r \in Releases : \E b \in Offered[r] : BeginPublish(p, r, b)
           \/ PublishStep(p)
           \/ PublishError(p)
    PROVE  EdgeInv'
<1>1. /\ \A i \in DOMAIN jobs : i \in DOMAIN jobs' /\ jobs'[i] = jobs[i]
      /\ \A i \in DOMAIN jobs' : i \notin DOMAIN jobs => jobs'[i].status = "pending"
      /\ UNCHANGED <<patches, worker, gc>>
  BY PublishJobs DEF PubChanges, SameJobs
<1>2. Inserted'
  BY <1>1, Types DEF BaseInv, EdgeInv, Inserted
<1>3. DoneJobsHaveEdges'
  <2>1. ASSUME NEW i \in DOMAIN jobs', jobs'[i].status = "done"
        PROVE  i \in DOMAIN jobs /\ jobs'[i] = jobs[i]
    BY <1>1, <2>1
  <2>2. QED
    BY <1>1, <2>1 DEF EdgeInv, DoneJobsHaveEdges, Dropping
<1>4. QED
  BY <1>1, <1>2, <1>3 DEF EdgeInv, Between

\* The steps of the GC: workers are idle, and no job gets done.
LEMMA EdgeGc ==
    ASSUME BaseInv, EdgeInv, GcChanges, up = {}, Between',
           \A i \in DOMAIN jobs : jobs'[i].status = "done" => jobs[i].status = "done",
           \A i \in DOMAIN jobs :
              /\ jobs[i].status = "done" /\ jobs'[i].status = "done"
              /\ Dropping' \cap {jobs[i].from, jobs[i].to} = {}
              => /\ Dropping \cap {jobs[i].from, jobs[i].to} = {}
                 /\ \A q \in patches : q.from = jobs[i].from /\ q.to = jobs[i].to =>
                      \E e \in patches' : e.from = q.from /\ e.to = q.to
    PROVE  EdgeInv'
<1>1. UNCHANGED worker /\ SameJobs /\ DOMAIN jobs' = DOMAIN jobs
  BY DEF GcChanges
<1>2. \A w \in Workers : worker'[w].pc = "idle"
  BY <1>1 DEF BaseInv, Alive
<1>3. Inserted'
  BY <1>2 DEF Inserted
<1>4. DoneJobsHaveEdges'
  <2>1. ASSUME NEW i \in DOMAIN jobs, jobs'[i].status = "done",
               Dropping' \cap {jobs[i].from, jobs[i].to} = {}
        PROVE  \E e \in patches' : e.from = jobs[i].from /\ e.to = jobs[i].to
    <3>1. \E q \in patches : q.from = jobs[i].from /\ q.to = jobs[i].to
      BY <2>1 DEF EdgeInv, DoneJobsHaveEdges
    <3>2. QED
      BY <2>1, <3>1
  <2>2. QED
    BY <1>1, <2>1 DEF DoneJobsHaveEdges, SameJobs
<1>5. QED
  BY <1>3, <1>4 DEF EdgeInv

\* Every collection step keeps that finished jobs have their edges.
LEMMA EdgeGcSteps ==
    ASSUME Offline, DistinctContents, BaseInv, GraphInv, EdgeInv,
           BeginGc \/ (\E f, t \in Releases : BuildEdge(f, t)) \/ GcStep \/ GcStops
    PROVE  EdgeInv'
<1>0. TypeOK /\ DropOrder /\ Between /\ (gc.pc # "idle" => up = {})
  BY DEF BaseInv, GraphInv, EdgeInv, Alive
<1>1. CASE BeginGc
  <2>1. GcChanges /\ up = {} /\ UNCHANGED <<jobs, patches>> /\ gc.pc = "idle"
        /\ gc'.rel = None /\ gc'.torn = gc.torn
    BY <1>0, <1>1, BeginGcEffect DEF Offline
  <2>2. Dropping' = Dropping /\ Between'
    BY <1>0, <2>1 DEF Dropping, Between
  <2>3. QED
    BY <2>1, <2>2, EdgeGc
<1>2. ASSUME NEW f \in Releases, NEW t \in Releases, BuildEdge(f, t)
      PROVE  EdgeInv'
  <2> DEFINE sha == <<row[f], row[t]>>
  <2>1. /\ GcChanges /\ gc.pc = "plan" /\ UNCHANGED <<jobs, gc>>
        /\ f \in Existing /\ t \in Existing /\ sha \in PatchShas
        /\ patches' = WithPatch(sha, f, t)
    BY <1>0, <1>2, BuildEdgeEffect
  <2>2. sha[1] \in Offered[f] /\ sha[2] \in Offered[t]
    BY <2>1 DEF BaseInv, RowsOffered
  <2>3. EdgesStay
    <3> HIDE DEF sha
    <3> QED
      BY <1>0, <2>1, <2>2, EdgesReplaced DEF GraphInv
  <2>4. Dropping' = Dropping /\ Between'
    BY <1>0, <2>1 DEF Dropping, Between
  <2>5. QED
    BY <1>0, <2>1, <2>3, <2>4, EdgeGc DEF EdgesStay
<1>3. CASE (\E c \in gc.todo : DropNext(c)) \/ (\E sha \in gc.shas : DropPatchFile(sha))
  <2>1. /\ GcChanges /\ gc.pc # "idle" /\ UNCHANGED <<jobs, patches>>
        /\ gc'.pc \in {"patchRows", "patchFiles"} /\ gc'.torn = gc.torn
        /\ gc'.rel = gc.rel \/ gc.pc \in {"plan", "next"}
    BY <1>0, <1>3, DropNextEffect, DropPatchFileEffect
  <2>2. Between' /\ \A r \in Releases : r \in Dropping => r \in Dropping'
    BY <1>0, <2>1, NoneAssumption DEF Between, Dropping
  <2>3. QED
    BY <1>0, <2>1, <2>2, EdgeGc, JobTypes
<1>4. CASE DropPatchRows
  <2>1. /\ GcChanges /\ gc.pc = "patchRows" /\ gc'.pc = "jobRows" /\ UNCHANGED jobs
        /\ gc'.rel = gc.rel /\ gc'.torn = gc.torn /\ patches' = patches \ Touching(gc.rel)
    BY <1>0, <1>4, DropPatchRowsEffect DEF SameRun
  <2>2. Between' /\ Dropping' = Dropping /\ gc.rel \in Dropping
    BY <2>1 DEF Between, Dropping
  <2>3. QED
    BY <1>0, <2>1, <2>2, EdgeGc DEF Touching
<1>5. CASE DropJobRows
  <2>1. /\ GcChanges /\ gc.pc = "jobRows" /\ gc'.pc = "json" /\ UNCHANGED patches
        /\ gc'.rel = gc.rel /\ gc'.torn = gc.torn
        /\ \A i \in DOMAIN jobs :
             jobs'[i].status = IF gc.rel \in {jobs[i].from, jobs[i].to} THEN "deleted"
                               ELSE jobs[i].status
    BY <1>0, <1>5, DropJobRowsEffect DEF SameRun
  <2>2. Between' /\ Dropping' = Dropping
    BY <2>1 DEF Between, Dropping
  <2>3. QED
    BY <1>0, <2>1, <2>2, EdgeGc
<1>6. CASE DropJson \/ DropSig \/ DropRow
  <2>1. /\ GcChanges /\ gc.pc # "idle" /\ gc'.pc \in {"sig", "row", "refcount"}
        /\ UNCHANGED <<jobs, patches>> /\ gc'.rel = gc.rel /\ gc'.torn = gc.torn
    BY <1>0, <1>6, DropJsonEffect, DropSigEffect, DropRowEffect DEF SameRun
  <2>2. Between' /\ Dropping' = Dropping
    BY <2>1 DEF Between, Dropping
  <2>3. QED
    BY <1>0, <2>1, <2>2, EdgeGc
<1>7. CASE CountReleasesUsingBlob \/ DropBlob
  <2>1. /\ GcChanges /\ gc.pc \in {"refcount", "blob"} /\ UNCHANGED <<jobs, patches>>
        /\ \/ gc'.rel = None /\ gc'.torn = gc.torn \ {gc.rel}
           \/ gc'.pc = "blob" /\ gc'.rel = gc.rel /\ gc'.torn = gc.torn
    BY <1>0, <1>7, RefcountEffect, DropBlobEffect DEF SameRun, RunEnds
  <2>2. Between' /\ \A r \in Dropping : r = gc.rel \/ r \in Dropping'
    BY <2>1 DEF Between, Dropping
  <2>3. \A i \in DOMAIN jobs : jobs[i].status = "done" => gc.rel \notin {jobs[i].from, jobs[i].to}
    BY <1>0, <2>1 DEF DropOrder
  <2>4. QED
    BY <1>0, <2>1, <2>2, <2>3, EdgeGc
<1>8. CASE GcStops
  <2>1. /\ GcChanges /\ gc.pc # "idle" /\ UNCHANGED <<jobs, patches>>
        /\ gc'.rel = None /\ gc'.torn = gc.torn \cup ({gc.rel} \ {None})
    BY <1>0, <1>8, GcStopsEffect
  <2>2. Between' /\ Dropping \subseteq Dropping'
    BY <2>1 DEF Between, Dropping
  <2>3. QED
    BY <1>0, <2>1, <2>2, EdgeGc
<1>9. QED
  BY <1>1, <1>2, <1>3, <1>4, <1>5, <1>6, <1>7, <1>8 DEF GcStep

\* At the start: that finished jobs have their edges.
LEMMA EdgeInitially == Init => EdgeInv
<1> SUFFICES ASSUME Init PROVE EdgeInv
  OBVIOUS
<1>1. DOMAIN jobs = {} /\ \A w \in Workers : worker[w].pc = "idle"
  BY IdleWorkerFields DEF Init
<1>2. gc.rel = None
  BY RunFields DEF Init, NoGc
<1>3. QED
  BY <1>1, <1>2 DEF EdgeInv, Inserted, Between, DoneJobsHaveEdges

\* Stuttering keeps that finished jobs have their edges.
LEMMA EdgeStays ==
    ASSUME EdgeInv, UNCHANGED vars
    PROVE  EdgeInv'
BY DEF vars, EdgeInv, Inserted, Between, DoneJobsHaveEdges, Dropping

\* The inductive invariant about done jobs and their edges holds in every state,
\* for any number of servers: edges are replaced by the like, and a drop deletes
\* its jobs before it counts as complete.
THEOREM EdgeInvariance ==
    ASSUME Offline, OneReleasePerVersion, DistinctContents
    PROVE  Spec => []EdgeInv
<1>1. BaseInv /\ GraphInv /\ EdgeInv /\ [Next]_vars => EdgeInv'
  BY EdgeWorkers, EdgeServers, EdgePublishers, EdgeGcSteps, EdgeStays, StepKinds
<1>2. QED
  BY BaseInvariance, GraphInvariance, EdgeInitially, <1>1, PTL DEF Spec

\* A done job has its row in patches, whatever INSERT OR REPLACE displaced,
\* whichever of several servers' workers built it, and wherever a drop was cut
\* short, as long as releases differ in version and contents.
THEOREM DoneJobsKeepEdges ==
    ASSUME Offline, OneReleasePerVersion, DistinctContents
    PROVE  Spec => []DoneJobsHaveEdges
<1>1. EdgeInv => DoneJobsHaveEdges
  BY DEF EdgeInv
<1>2. QED
  BY EdgeInvariance, <1>1, PTL

----------------------------------------------------------------------------
(* With one server process, patch_jobs is a work queue *)

\* A process that starts is the only one: nobody works.
LEMMA BootFindsIdle ==
    ASSUME OneProcess, BaseInv, NEW s \in Servers, s \notin up
    PROVE  \A w \in Workers : worker[w].pc = "idle" /\ worker[w].job = 0
<1>1. up = {}
  BY Types DEF BaseInv, OneProcess
<1>2. QED
  BY <1>1 DEF BaseInv, Alive

\* Every worker step keeps that a job in progress has its one worker.
LEMMA HoldingWorkers ==
    ASSUME BaseInv, Holding, NEW w \in Workers,
           WorkerStep(w) \/ BuildError(w) \/ FailureLost(w)
    PROVE  Holding'
<1>0. /\ TypeOK /\ "done" \in Statuses /\ "failed" \in Statuses
      /\ \A x \in Workers : worker[x].pc # "idle" => worker[x].job \in DOMAIN jobs
  BY Types DEF BaseInv, Statuses
<1>1. CASE ClaimNextPatchJob(w)
  <2>1. \A x \in Workers : x # w => worker'[x] = worker[x]
    BY <1>0, <1>1, ClaimEffect DEF WorkerChanges
  <2>2. PICK i \in DOMAIN jobs :
          /\ jobs[i].status = "pending" /\ jobs'[i].status = "running"
          /\ \A k \in DOMAIN jobs : k # i => jobs'[k] = jobs[k]
          /\ worker'[w].job = i
    BY <1>0, <1>1, ClaimEffect
  <2>3. \A x \in Workers : worker[x].pc # "idle" => worker[x].job # i
    BY <1>0, <2>2 DEF Holding
  <2>4. QED
    BY <1>0, <2>1, <2>2, <2>3 DEF Holding
<1>2. CASE BuildPatch(w) \/ BuildError(w) \/ InsertPatch(w)
  <2>1. /\ UNCHANGED jobs /\ worker[w].pc # "idle" /\ worker'[w].job = worker[w].job
        /\ \A x \in Workers : x # w => worker'[x] = worker[x]
    BY <1>0, <1>2, BuildEffect, BuildErrorEffect, InsertEffect DEF WorkerChanges
  <2>2. QED
    BY <2>1 DEF Holding
<1>3. CASE CompletePatchJob(w) \/ FailPatchJob(w)
  <2>1. PICK status \in {"done", "failed"} : Finish(w, status)
    BY <1>3 DEF CompletePatchJob, FailPatchJob
  <2>2. worker[w].pc # "idle"
    BY <1>3 DEF CompletePatchJob, FailPatchJob
  <2>3. /\ worker'[w].pc = "idle"
        /\ \A x \in Workers : x # w => worker'[x] = worker[x]
        /\ \A i \in DOMAIN jobs : i # worker[w].job => jobs'[i] = jobs[i]
    BY <1>0, <2>1, <2>2, FinishEffect DEF WorkerChanges
  <2>4. QED
    BY <1>0, <2>2, <2>3 DEF Holding
<1>4. CASE FailureLost(w)
  <2>1. /\ UNCHANGED jobs /\ worker'[w].pc = "idle"
        /\ \A x \in Workers : x # w => worker'[x] = worker[x]
    BY <1>0, <1>4, FailureLostEffect DEF WorkerChanges
  <2>2. QED
    BY <2>1 DEF Holding
<1>5. QED
  BY <1>1, <1>2, <1>3, <1>4 DEF WorkerStep

\* Boots and crashes keep that a job in progress has its one worker.
LEMMA HoldingServers ==
    ASSUME OneProcess, BaseInv, Holding, NEW s \in Servers, Boot(s) \/ Crash(s)
    PROVE  Holding'
<1>0. TypeOK
  BY DEF BaseInv
<1>1. CASE Boot(s)
  <2>1. UNCHANGED worker /\ s \notin up
    BY <1>0, <1>1, BootEffect
  <2>2. QED
    BY <2>1, BootFindsIdle DEF Holding
<1>2. CASE Crash(s)
  <2>1. /\ UNCHANGED jobs
        /\ \A w \in Workers : worker'[w] = IF Home[w] = s THEN IdleWorker ELSE worker[w]
    BY <1>0, <1>2, CrashEffect
  <2>2. QED
    BY <2>1, IdleWorkerFields DEF Holding
<1>3. QED
  BY <1>1, <1>2

\* What all collection steps share: no server runs, so no request and no worker does.
LEMMA GcSteps ==
    ASSUME Offline, BaseInv,
           BeginGc \/ (\E f, t \in Releases : BuildEdge(f, t)) \/ GcStep \/ GcStops
    PROVE  /\ GcChanges /\ up = {} /\ (UNCHANGED jobs \/ DropJobRows)
           /\ \A w \in Workers : worker[w].pc = "idle" /\ worker[w].job = 0
           /\ \A p \in Publishers : pub[p].pc = "idle"
<1>0. TypeOK /\ (gc.pc # "idle" => up = {})
  BY DEF BaseInv, Alive
<1>1. CASE BeginGc \/ (\E f, t \in Releases : BuildEdge(f, t)) \/ GcStops
  BY <1>0, <1>1, BeginGcEffect, BuildEdgeEffect, GcStopsEffect DEF BaseInv, Alive, Offline
<1>2. CASE (\E c \in gc.todo : DropNext(c)) \/ (\E sha \in gc.shas : DropPatchFile(sha))
  BY <1>0, <1>2, DropNextEffect, DropPatchFileEffect DEF BaseInv, Alive
<1>3. CASE DropPatchRows \/ DropJobRows \/ DropJson \/ DropSig \/ DropRow
  BY <1>0, <1>3, DropPatchRowsEffect, DropJobRowsEffect, DropJsonEffect, DropSigEffect,
     DropRowEffect DEF BaseInv, Alive
<1>4. CASE CountReleasesUsingBlob \/ DropBlob
  BY <1>0, <1>4, RefcountEffect, DropBlobEffect DEF BaseInv, Alive
<1>5. QED
  BY <1>1, <1>2, <1>3, <1>4 DEF GcStep

\* The steps of the other actors keep it too.
LEMMA HoldingOthers ==
    ASSUME Offline, BaseInv, Holding,
           \/ \E p \in Publishers :
                \/ \E r \in Releases : \E b \in Offered[r] : BeginPublish(p, r, b)
                \/ PublishStep(p)
                \/ PublishError(p)
           \/ BeginGc \/ (\E f, t \in Releases : BuildEdge(f, t)) \/ GcStep \/ GcStops
           \/ UNCHANGED vars
    PROVE  Holding'
<1>0. \A w \in Workers : worker[w].pc # "idle" => worker[w].job \in DOMAIN jobs
  BY Types DEF BaseInv
<1>1. ASSUME NEW p \in Publishers,
             \/ \E r \in Releases : \E b \in Offered[r] : BeginPublish(p, r, b)
             \/ PublishStep(p)
             \/ PublishError(p)
      PROVE  Holding'
  <2>1. UNCHANGED worker /\ \A i \in DOMAIN jobs : jobs'[i] = jobs[i]
    BY <1>1, PublishJobs DEF PubChanges
  <2>2. QED
    BY <1>0, <2>1 DEF Holding
<1>2. CASE BeginGc \/ (\E f, t \in Releases : BuildEdge(f, t)) \/ GcStep \/ GcStops
  <2>1. UNCHANGED worker /\ \A w \in Workers : worker[w].pc = "idle"
    BY <1>2, GcSteps DEF GcChanges
  <2>2. QED
    BY <2>1 DEF Holding
<1>3. CASE UNCHANGED vars
  BY <1>3 DEF vars, Holding
<1>4. QED
  BY <1>1, <1>2, <1>3

\* At the start: that a job in progress has its one worker.
LEMMA HoldingInitially == Init => Holding
BY IdleWorkerFields DEF Init, Holding

\* "no row is claimed by two workers" (ADR-0007): with one server process a
\* worker's job is running and its alone, through crashes, restarts and lost
\* failure reports.
THEOREM OneWorkerPerJob ==
    ASSUME Offline, OneProcess
    PROVE  Spec => []Holding
<1>1. BaseInv /\ Holding /\ [Next]_vars => Holding'
  BY HoldingWorkers, HoldingServers, HoldingOthers, StepKinds
<1>2. QED
  BY BaseInvariance, HoldingInitially, <1>1, PTL DEF Spec

\* The rows and the pool as the queue sees them.
Items == [i \in DOMAIN jobs |-> ItemStatus(jobs[i].status)]
Holds == [w \in Workers |-> worker[w].job]
Seen == {"waiting", "taken", "done", "failed", "deleted"}

\* A step that changes no status and no claim.
LEMMA QueueStutters ==
    ASSUME UNCHANGED jobs, \A w \in Workers : worker'[w].job = worker[w].job
    PROVE  UNCHANGED Queue!qvars
<1>1. Items' = Items
  BY DEF Items
<1>2. Holds' = Holds
  BY DEF Holds
<1>3. QED
  BY <1>1, <1>2 DEF Queue!qvars, Items, Holds

\* Enqueueing is the queue's Submit, or a stutter when the job exists.
LEMMA EnqueueSubmits ==
    ASSUME BaseInv, NEW p \in Publishers, EnqueuePatchJob(p)
    PROVE  Queue!Submit \/ UNCHANGED Queue!qvars
<1>0. TypeOK /\ pub[p].pc = "enqueue"
  BY DEF BaseInv, EnqueuePatchJob
<1>1. pub[p].rel \in Releases /\ pub[p].blob \in Blobs
  BY <1>0, RequestKnown
<1>2. UNCHANGED worker
  BY <1>0, <1>1, EnqueueEffect DEF PubChanges
<1>3. CASE jobs' = jobs
  BY <1>2, <1>3, QueueStutters
<1>4. CASE jobs' # jobs
  <2>1. PICK prior \in pub[p].priors :
          /\ DOMAIN jobs' = DOMAIN jobs \cup {Len(jobs) + 1}
          /\ jobs'[Len(jobs) + 1] = NewJob(p, prior)
    BY <1>0, <1>1, <1>4, EnqueueEffect
  <2>2. jobs'[Len(jobs) + 1].status = "pending"
    BY <2>1 DEF NewJob
  <2>3. jobs \in Seq(Job) /\ \A i \in DOMAIN jobs : jobs'[i] = jobs[i]
    BY <1>0, <1>1, EnqueueEffect, Types
  <2>4. /\ Len(jobs) \in Nat /\ DOMAIN jobs = 1 .. Len(jobs)
        /\ DOMAIN jobs' = 1 .. Len(jobs) + 1
    BY <2>1, <2>3
  <2>5. Items' = [i \in 1 .. Len(jobs) + 1 |->
                    IF i = Len(jobs) + 1 THEN "waiting" ELSE ItemStatus(jobs[i].status)]
    <3>1. ItemStatus(jobs'[Len(jobs) + 1].status) = "waiting"
      BY <2>2 DEF ItemStatus
    <3>2. \A i \in 1 .. Len(jobs) : jobs'[i] = jobs[i]
      BY <2>3, <2>4
    <3>3. QED
      BY <2>4, <3>1, <3>2 DEF Items
  <2>6. Items = [i \in 1 .. Len(jobs) |-> ItemStatus(jobs[i].status)]
    BY <2>4 DEF Items
  <2>7. \A i \in 1 .. Len(jobs) : ItemStatus(jobs[i].status) \in Seen
    <3>1. \A i \in 1 .. Len(jobs) : jobs[i].status \in Statuses
      BY <1>0, <2>4, JobTypes
    <3>2. QED
      BY <3>1 DEF ItemStatus, Statuses, Seen
  <2>8. Items \in Seq(Seen) /\ Len(Items) = Len(jobs)
    BY <2>4, <2>6, <2>7
  <2>9. Items' = Append(Items, "waiting")
    BY <2>4, <2>5, <2>6, <2>8
  <2>10. Holds' = Holds
    BY <1>2 DEF Holds
  <2>11. QED
    BY <2>9, <2>10 DEF Queue!Submit, Items, Holds
<1>5. QED
  BY <1>3, <1>4

\* Claiming a job is the queue's Take.
LEMMA ClaimTakes ==
    ASSUME BaseInv, NEW w \in Workers, ClaimNextPatchJob(w)
    PROVE  Queue!Take(w)
<1>0. TypeOK
  BY DEF BaseInv
<1>1. PICK i \in DOMAIN jobs :
        /\ jobs[i].status = "pending" /\ \A k \in 1 .. i - 1 : jobs[k].status # "pending"
        /\ jobs'[i].status = "running"
        /\ \A k \in DOMAIN jobs : k # i => jobs'[k] = jobs[k]
        /\ worker'[w].job = i
  BY <1>0, ClaimEffect
<1>2. /\ DOMAIN jobs' = DOMAIN jobs /\ \A x \in Workers : x # w => worker'[x] = worker[x]
      /\ worker[w].pc = "idle"
  BY <1>0, ClaimEffect DEF WorkerChanges
<1>3. worker[w].job = 0
  BY <1>2 DEF BaseInv, Alive
<1>4. jobs \in Seq(Job) /\ i \in Nat /\ \A k \in DOMAIN jobs : jobs[k].status \in Statuses
  BY <1>0, JobTypes, Types
<1>5. /\ ItemStatus("running") = "taken" /\ ItemStatus("pending") = "waiting"
      /\ \A status \in Statuses : status # "pending" => ItemStatus(status) # "waiting"
  BY DEF ItemStatus, Statuses
<1>6. Items' = [Items EXCEPT ![i] = "taken"]
  BY <1>1, <1>2, <1>5 DEF Items
<1>7. Holds' = [Holds EXCEPT ![w] = i]
  BY <1>1, <1>2 DEF Holds
<1>8. Items[i] = "waiting" /\ i \in DOMAIN Items
  BY <1>1, <1>5 DEF Items
<1>9. \A k \in 1 .. i - 1 : Items[k] # "waiting"
  <2>1. \A k \in 1 .. i - 1 : k \in DOMAIN jobs
    BY <1>4
  <2>2. QED
    BY <1>1, <1>4, <1>5, <2>1 DEF Items
<1>10. Holds[w] = 0
  BY <1>3 DEF Holds
<1>11. QED
  BY <1>6, <1>7, <1>8, <1>9, <1>10 DEF Queue!Take, Queue!Oldest, Items, Holds

\* Completing or failing a job is the queue's Release.
LEMMA FinishReleases ==
    ASSUME BaseInv, Holding, NEW w \in Workers, worker[w].pc # "idle",
           NEW status \in {"done", "failed"}, Finish(w, status)
    PROVE  Queue!Release(w, status)
<1> DEFINE k == worker[w].job
<1>0. TypeOK /\ status \in Statuses
  BY DEF BaseInv, Statuses
<1>1. /\ DOMAIN jobs' = DOMAIN jobs /\ \A x \in Workers : x # w => worker'[x] = worker[x]
      /\ worker'[w].job = 0 /\ k \in DOMAIN jobs
      /\ jobs'[k].status = IF jobs[k].status = "deleted" THEN "deleted" ELSE status
      /\ \A i \in DOMAIN jobs : i # k => jobs'[i] = jobs[i]
  BY <1>0, FinishEffect DEF WorkerChanges
<1>2. jobs'[k].status = status
  BY <1>1 DEF Holding
<1>3. ItemStatus(status) = status
  BY DEF ItemStatus
<1>4. k # 0
  BY <1>0, <1>1, JobTypes
<1>5. Holds' = [Holds EXCEPT ![w] = 0]
  BY <1>1 DEF Holds
<1>6. Holds[w] = k
  BY DEF Holds
<1> HIDE DEF k
<1>7. Items' = [Items EXCEPT ![k] = status]
  BY <1>1, <1>2, <1>3 DEF Items
<1>8. Holds[w] # 0 /\ Items' = [Items EXCEPT ![Holds[w]] = status]
  BY <1>4, <1>6, <1>7
<1>9. QED
  BY <1>5, <1>8 DEF Queue!Release, Items, Holds

\* A crash is the queue's Die of the workers of that server.
LEMMA CrashKills ==
    ASSUME TypeOK, NEW s \in Servers, Crash(s)
    PROVE  \E gone \in SUBSET Workers : Queue!Die(gone)
<1> DEFINE gone == {w \in Workers : Home[w] = s}
<1>1. /\ UNCHANGED jobs
      /\ \A w \in Workers : worker'[w] = IF Home[w] = s THEN IdleWorker ELSE worker[w]
  BY CrashEffect
<1>2. Items' = Items
  BY <1>1 DEF Items
<1>3. Holds' = [w \in Workers |-> IF w \in gone THEN 0 ELSE Holds[w]]
  BY <1>1, IdleWorkerFields DEF Holds
<1>4. Queue!Die(gone)
  BY <1>2, <1>3 DEF Queue!Die, Items, Holds
<1>5. QED
  BY <1>4

\* A worker whose failure report is lost lets go of its job like a dead one.
LEMMA FailureKills ==
    ASSUME TypeOK, NEW w \in Workers, FailureLost(w)
    PROVE  \E gone \in SUBSET Workers : Queue!Die(gone)
<1>1. /\ UNCHANGED jobs /\ worker'[w].job = 0
      /\ \A x \in Workers : x # w => worker'[x] = worker[x]
  BY FailureLostEffect DEF WorkerChanges
<1>2. Items' = Items
  BY <1>1 DEF Items
<1>3. Holds' = [x \in Workers |-> IF x \in {w} THEN 0 ELSE Holds[x]]
  BY <1>1 DEF Holds
<1>4. Queue!Die({w})
  BY <1>2, <1>3 DEF Queue!Die, Items, Holds
<1>5. QED
  BY <1>4

\* A boot is the queue's Recover.
LEMMA BootRecovers ==
    ASSUME OneProcess, BaseInv, NEW s \in Servers, Boot(s)
    PROVE  Queue!Recover
<1>0. TypeOK
  BY DEF BaseInv
<1>1. /\ UNCHANGED worker /\ s \notin up /\ DOMAIN jobs' = DOMAIN jobs
      /\ \A i \in DOMAIN jobs :
           jobs'[i].status = IF jobs[i].status = "running" THEN "pending"
                             ELSE jobs[i].status
  BY <1>0, BootEffect
<1>2. \A w \in Workers : worker[w].job = 0
  BY <1>1, BootFindsIdle
<1>3. \A i \in DOMAIN jobs : i # 0 /\ jobs[i].status \in Statuses
  BY <1>0, JobTypes
<1>4. \A i \in DOMAIN jobs : \A w \in Workers : Holds[w] # i
  BY <1>2, <1>3 DEF Holds
<1>5. \A i \in DOMAIN jobs :
        ItemStatus(jobs'[i].status) =
          IF ItemStatus(jobs[i].status) = "taken" THEN "waiting"
          ELSE ItemStatus(jobs[i].status)
  BY <1>1, <1>3 DEF ItemStatus, Statuses
<1>6. Items' = [i \in DOMAIN Items |->
                  IF Items[i] = "taken" /\ i \notin {Holds[w] : w \in Workers}
                  THEN "waiting" ELSE Items[i]]
  BY <1>1, <1>4, <1>5 DEF Items
<1>7. Holds' = Holds
  BY <1>1 DEF Holds
<1>8. QED
  BY <1>6, <1>7 DEF Queue!Recover, Queue!Held, Items, Holds

\* Dropping the job rows of a release is the queue's Withdraw.
LEMMA DropWithdraws ==
    ASSUME Offline, BaseInv, DropJobRows
    PROVE  Queue!Withdraw
<1>0. TypeOK
  BY DEF BaseInv
<1> DEFINE out == {i \in DOMAIN jobs : gc.rel \in {jobs[i].from, jobs[i].to}}
<1>1. /\ UNCHANGED worker /\ DOMAIN jobs' = DOMAIN jobs /\ gc.pc = "jobRows"
      /\ \A i \in DOMAIN jobs :
           jobs'[i].status = IF gc.rel \in {jobs[i].from, jobs[i].to} THEN "deleted"
                             ELSE jobs[i].status
  BY <1>0, DropJobRowsEffect DEF GcChanges
<1>2. \A w \in Workers : worker[w].job = 0
  BY <1>1, GcIdle DEF BaseInv
<1>3. \A i \in DOMAIN jobs : i # 0
  BY <1>0, JobTypes
<1>4. out \in SUBSET (DOMAIN Items \ {Holds[w] : w \in Workers})
  BY <1>2, <1>3 DEF Items, Holds
<1>5. ItemStatus("deleted") = "deleted"
  BY DEF ItemStatus
<1>6. Items' = [i \in DOMAIN Items |-> IF i \in out THEN "deleted" ELSE Items[i]]
  BY <1>1, <1>5 DEF Items
<1>7. Holds' = Holds
  BY <1>1 DEF Holds
<1>8. QED
  BY <1>4, <1>6, <1>7 DEF Queue!Withdraw, Queue!Held, Items, Holds

\* Every step is a step of the queue or leaves it alone.
LEMMA StepsRefine ==
    ASSUME Offline, OneProcess, BaseInv, Holding, [Next]_vars
    PROVE  [Queue!Next]_Queue!qvars
<1>0. TypeOK
  BY DEF BaseInv
<1>1. CASE UNCHANGED vars
  BY <1>1, QueueStutters DEF vars
<1>2. CASE \E s \in Servers : Boot(s) \/ Crash(s)
  BY <1>0, <1>2, BootRecovers, CrashKills DEF Queue!Next
<1>3. ASSUME NEW p \in Publishers,
             \/ \E r \in Releases : \E b \in Offered[r] : BeginPublish(p, r, b)
             \/ PublishStep(p)
             \/ PublishError(p)
      PROVE  Queue!Submit \/ UNCHANGED Queue!qvars
  <2>1. CASE EnqueuePatchJob(p)
    BY <2>1, EnqueueSubmits
  <2>2. CASE ~EnqueuePatchJob(p)
    <3>1. PubChanges(p) /\ UNCHANGED jobs
      BY <1>0, <1>3, <2>2, BeginEffect, PutEffect, InsertReleaseEffect, JsonEffect, SigEffect,
         ListEffect, TailEffect, AnswerEffect, PublishErrorEffect DEF PublishStep
    <3>2. QED
      BY <3>1, QueueStutters DEF PubChanges
  <2>3. QED
    BY <2>1, <2>2
<1>4. ASSUME NEW w \in Workers, WorkerStep(w) \/ BuildError(w) \/ FailureLost(w)
      PROVE  Queue!Next \/ UNCHANGED Queue!qvars
  <2>1. CASE ClaimNextPatchJob(w)
    BY <2>1, ClaimTakes DEF Queue!Next
  <2>2. CASE BuildPatch(w) \/ InsertPatch(w) \/ BuildError(w)
    <3>1. UNCHANGED jobs /\ \A x \in Workers : worker'[x].job = worker[x].job
      BY <1>0, <2>2, BuildEffect, InsertEffect, BuildErrorEffect DEF WorkerChanges
    <3>2. QED
      BY <3>1, QueueStutters
  <2>3. CASE CompletePatchJob(w) \/ FailPatchJob(w)
    BY <2>3, FinishReleases DEF CompletePatchJob, FailPatchJob, Queue!Next
  <2>4. CASE FailureLost(w)
    BY <1>0, <2>4, FailureKills DEF Queue!Next
  <2>5. QED
    BY <1>4, <2>1, <2>2, <2>3, <2>4 DEF WorkerStep
<1>5. CASE BeginGc \/ (\E f, t \in Releases : BuildEdge(f, t)) \/ GcStep \/ GcStops
  <2>1. UNCHANGED worker /\ (UNCHANGED jobs \/ DropJobRows)
    BY <1>5, GcSteps DEF GcChanges
  <2>2. QED
    BY <2>1, QueueStutters, DropWithdraws DEF Queue!Next
<1>6. QED
  BY <1>1, <1>2, <1>3, <1>4, <1>5, StepKinds DEF Queue!Next

\* The initial states are initial states of the queue.
LEMMA QueueStarts ==
    ASSUME Init
    PROVE  Queue!Init
<1>1. jobs = <<>> /\ \A w \in Workers : worker[w].job = 0
  BY IdleWorkerFields DEF Init
<1>2. Items = <<>>
  BY <1>1 DEF Items
<1>3. Holds = [w \in Workers |-> 0]
  BY <1>1 DEF Holds
<1>4. QED
  BY <1>2, <1>3 DEF Queue!Init, Items, Holds

\* patch_jobs implements WorkQueue, with rows for items and claims for holds:
\* jobs are claimed oldest first and by one worker each, an outcome stays, a
\* restart puts back what the dead workers held and nothing else, and the GC
\* withdraws no job that is being built, with any number of handlers and workers.
THEOREM PatchJobsRefineQueue ==
    ASSUME Offline, OneProcess
    PROVE  Spec => JobsAreAQueue
<1>1. Init => Queue!Init
  BY QueueStarts
<1>2. BaseInv /\ Holding /\ [Next]_vars => [Queue!Next]_Queue!qvars
  BY StepsRefine
<1>3. QED
  BY BaseInvariance, OneWorkerPerJob, <1>1, <1>2, PTL DEF Spec, JobsAreAQueue, Queue!Spec

----------------------------------------------------------------------------
(* What the manifests list was built *)

\* A done job stays done until its release is dropped.
DoneStays ==
    /\ SameJobs
    /\ \A i \in DOMAIN jobs : jobs[i].status = "done" => jobs'[i].status \in {"done", "deleted"}

\* A job that is done stays done, unless its release is dropped.
LEMMA JobsAdvance ==
    ASSUME Offline, BaseInv, Holding, [Next]_vars
    PROVE  DoneStays
<1>0. TypeOK /\ "done" \in Statuses /\ "failed" \in Statuses
  BY DEF BaseInv, Statuses
<1>1. CASE UNCHANGED vars
  BY <1>0, <1>1, UnchangedJobs DEF vars, DoneStays
<1>2. ASSUME NEW s \in Servers, Boot(s) \/ Crash(s)
      PROVE  DoneStays
  <2>1. CASE Boot(s)
    BY <1>0, <2>1, BootEffect DEF DoneStays
  <2>2. CASE Crash(s)
    BY <1>0, <2>2, CrashEffect, UnchangedJobs DEF DoneStays
  <2>3. QED
    BY <1>2, <2>1, <2>2
<1>3. ASSUME NEW p \in Publishers,
             \/ \E r \in Releases : \E b \in Offered[r] : BeginPublish(p, r, b)
             \/ PublishStep(p)
             \/ PublishError(p)
      PROVE  DoneStays
  BY <1>3, PublishJobs DEF DoneStays
<1>4. ASSUME NEW w \in Workers, WorkerStep(w) \/ BuildError(w) \/ FailureLost(w)
      PROVE  DoneStays
  <2>1. CASE ClaimNextPatchJob(w)
    <3>1. PICK i \in DOMAIN jobs :
            jobs[i].status = "pending" /\ \A k \in DOMAIN jobs : k # i => jobs'[k] = jobs[k]
      BY <1>0, <2>1, ClaimEffect
    <3>2. SameJobs
      BY <1>0, <2>1, ClaimEffect DEF WorkerChanges
    <3>3. QED
      BY <3>1, <3>2 DEF DoneStays
  <2>2. CASE BuildPatch(w) \/ InsertPatch(w) \/ BuildError(w) \/ FailureLost(w)
    <3>1. UNCHANGED jobs
      BY <1>0, <2>2, BuildEffect, InsertEffect, BuildErrorEffect, FailureLostEffect
    <3>2. QED
      BY <1>0, <3>1, UnchangedJobs DEF DoneStays
  <2>3. CASE CompletePatchJob(w) \/ FailPatchJob(w)
    <3>1. PICK status \in {"done", "failed"} : Finish(w, status)
      BY <2>3 DEF CompletePatchJob, FailPatchJob
    <3>2. worker[w].pc # "idle"
      BY <2>3 DEF CompletePatchJob, FailPatchJob
    <3>3. SameJobs /\ \A i \in DOMAIN jobs : i # worker[w].job => jobs'[i] = jobs[i]
      BY <1>0, <3>1, <3>2, FinishEffect DEF WorkerChanges
    <3>4. jobs[worker[w].job].status = "running"
      BY <3>2 DEF Holding
    <3>5. QED
      BY <3>3, <3>4 DEF DoneStays
  <2>4. QED
    BY <1>4, <2>1, <2>2, <2>3 DEF WorkerStep
<1>5. CASE BeginGc \/ (\E f, t \in Releases : BuildEdge(f, t)) \/ GcStep \/ GcStops
  <2>1. SameJobs /\ (UNCHANGED jobs \/ DropJobRows)
    BY <1>5, GcSteps DEF GcChanges
  <2>2. QED
    BY <1>0, <2>1, DropJobRowsEffect DEF DoneStays
<1>6. QED
  BY <1>1, <1>2, <1>3, <1>4, <1>5, StepKinds

\* What a request or a manifest lists, after a step that adds nothing to it.
LEMMA ListsKept ==
    ASSUME DoneStays,
           \A p \in Publishers : \A e \in pub'[p].built : Listed(pub'[p].rel, e),
           \A v \in Versions :
              json'[v] # None => \A e \in json'[v].patches_in : Listed(json'[v].rel, e)
    PROVE  ListsOwn'
<1>1. \A i \in DOMAIN jobs :
        /\ i \in DOMAIN jobs'
        /\ jobs'[i].from = jobs[i].from /\ jobs'[i].to = jobs[i].to
        /\ ShaOf(jobs'[i]) = ShaOf(jobs[i])
        /\ jobs[i].status \in {"done", "deleted"} => jobs'[i].status \in {"done", "deleted"}
  BY DEF DoneStays, SameJobs, ShaOf
<1>2. ASSUME NEW p \in Publishers, NEW e \in pub'[p].built
      PROVE  \E i \in DOMAIN jobs' :
               /\ jobs'[i].from = <<pub'[p].rel[1], e[1]>> /\ jobs'[i].to = pub'[p].rel
               /\ ShaOf(jobs'[i]) = e[2]
               /\ jobs'[i].status \in {"done", "deleted"}
  <2>1. PICK i \in DOMAIN jobs :
          /\ jobs[i].from = <<pub'[p].rel[1], e[1]>> /\ jobs[i].to = pub'[p].rel
          /\ ShaOf(jobs[i]) = e[2]
          /\ jobs[i].status \in {"done", "deleted"}
    BY <1>2 DEF Listed
  <2>2. QED
    BY <1>1, <2>1
<1>3. ASSUME NEW v \in Versions, json'[v] # None, NEW e \in json'[v].patches_in
      PROVE  \E i \in DOMAIN jobs' :
               /\ jobs'[i].from = <<json'[v].rel[1], e[1]>> /\ jobs'[i].to = json'[v].rel
               /\ ShaOf(jobs'[i]) = e[2]
               /\ jobs'[i].status \in {"done", "deleted"}
  <2>1. PICK i \in DOMAIN jobs :
          /\ jobs[i].from = <<json'[v].rel[1], e[1]>> /\ jobs[i].to = json'[v].rel
          /\ ShaOf(jobs[i]) = e[2]
          /\ jobs[i].status \in {"done", "deleted"}
    BY <1>3 DEF Listed
  <2>2. QED
    BY <1>1, <2>1
<1>4. QED
  BY <1>2, <1>3 DEF ListsOwn, Listed

\* The lists stay the request's own when no request and no manifest file gains one.
LEMMA ListsQuiet ==
    ASSUME ListsOwn, DoneStays,
           \A p \in Publishers : \/ pub'[p].built = {}
                                 \/ pub'[p].built = pub[p].built /\ pub'[p].rel = pub[p].rel,
           \A v \in Versions : json'[v] = None \/ json'[v] = json[v]
    PROVE  ListsOwn'
<1>1. \A p \in Publishers : \A e \in pub'[p].built : Listed(pub'[p].rel, e)
  BY DEF ListsOwn
<1>2. \A v \in Versions :
        json'[v] # None => \A e \in json'[v].patches_in : Listed(json'[v].rel, e)
  BY DEF ListsOwn
<1>3. QED
  BY <1>1, <1>2, ListsKept

\* A manifest gets the patches of jobs that %tail-patch-jobs found done.
LEMMA ListsPublishers ==
    ASSUME BaseInv, GraphInv, ListsOwn, DoneStays, NEW p \in Publishers,
           \/ \E r \in Releases : \E b \in Offered[r] : BeginPublish(p, r, b)
           \/ PublishStep(p)
           \/ PublishError(p)
    PROVE  ListsOwn'
<1>0. TypeOK
  BY DEF BaseInv
<1>1. CASE /\ ~WriteJson(p) /\ ~TailPatchJobs(p)
           /\ \/ \E r \in Releases : \E b \in Offered[r] : BeginPublish(p, r, b)
              \/ PublishStep(p)
              \/ PublishError(p)
  <2>1. /\ UNCHANGED json
        /\ \/ pub'[p].built = {}
           \/ pub'[p].built = pub[p].built /\ pub'[p].rel = pub[p].rel
        /\ \A q \in Publishers : q # p => pub'[q] = pub[q]
    <3>1. CASE \E r \in Releases : \E b \in Offered[r] : BeginPublish(p, r, b)
      BY <1>0, <3>1, BeginEffect DEF PubChanges
    <3>2. CASE PutBlob(p) \/ InsertReleaseIfNew(p) \/ WriteSig(p)
      BY <1>0, <3>2, PutEffect, InsertReleaseEffect, SigEffect DEF PubChanges, SameRequest
    <3>3. CASE ListPriors(p)
      BY <1>0, <3>3, ListEffect DEF PubChanges
    <3>4. CASE EnqueuePatchJob(p)
      <4>1. pub[p].pc = "enqueue"
        BY <3>4 DEF EnqueuePatchJob
      <4>2. pub[p].rel \in Releases /\ pub[p].blob \in Blobs
        BY <4>1, RequestKnown
      <4>3. QED
        BY <1>0, <3>4, <4>2, EnqueueEffect DEF PubChanges
    <3>5. CASE Answer(p) \/ PublishError(p)
      BY <1>0, <3>5, AnswerEffect, PublishErrorEffect, NoRequestFields DEF PubChanges
    <3>6. QED
      BY <1>1, <3>1, <3>2, <3>3, <3>4, <3>5 DEF PublishStep
  <2>2. QED
    BY <2>1, ListsQuiet
<1>2. CASE WriteJson(p)
  <2> DEFINE m == TheManifest(p, pub[p].built)  v == Version(pub[p].rel)
  <2>1. /\ pub[p].pc # "idle" /\ json' = [json EXCEPT ![v] = m]
        /\ pub'[p].rel = pub[p].rel /\ pub'[p].built = pub[p].built
        /\ \A q \in Publishers : q # p => pub'[q] = pub[q]
    BY <1>0, <1>2, JsonEffect DEF PubChanges, SameRequest
  <2>2. v \in Versions /\ m.rel = pub[p].rel /\ m.patches_in = pub[p].built
    BY <2>1, RequestKnown, ManifestFields
  <2> HIDE DEF m, v
  <2>3. json \in [Versions -> Manifest \cup {None}]
    BY <1>0, Types
  <2>4. \A q \in Publishers : \A e \in pub'[q].built : Listed(pub'[q].rel, e)
    BY <2>1 DEF ListsOwn
  <2>5. ASSUME NEW u \in Versions, json'[u] # None, NEW e \in json'[u].patches_in
        PROVE  Listed(json'[u].rel, e)
    <3>1. CASE u = v
      <4>1. json'[u] = m
        BY <2>1, <2>2, <2>3, <3>1
      <4>2. e \in pub[p].built /\ Listed(pub[p].rel, e)
        BY <2>2, <2>5, <4>1 DEF ListsOwn
      <4>3. QED
        BY <2>2, <4>1, <4>2
    <3>2. CASE u # v
      <4>1. json'[u] = json[u]
        BY <2>1, <2>3, <3>2
      <4>2. QED
        BY <2>5, <4>1 DEF ListsOwn
    <3>3. QED
      BY <3>1, <3>2
  <2>6. QED
    BY <2>4, <2>5, ListsKept
<1>3. CASE TailPatchJobs(p)
  <2>1. /\ pub[p].pc # "idle" /\ UNCHANGED json /\ pub'[p].rel = pub[p].rel
        /\ \A q \in Publishers : q # p => pub'[q] = pub[q]
        /\ \A e \in pub'[p].built : \E i \in Finished(pub[p].rel) :
             e = <<Version(jobs[i].from), ShaOf(jobs[i])>>
    BY <1>0, <1>3, TailEffect DEF PubChanges
  <2>2. ASSUME NEW e \in pub'[p].built
        PROVE  Listed(pub[p].rel, e)
    <3>1. PICK i \in Finished(pub[p].rel) : e = <<Version(jobs[i].from), ShaOf(jobs[i])>>
      BY <2>1
    <3>2. i \in DOMAIN jobs /\ jobs[i].to = pub[p].rel /\ jobs[i].status = "done"
      BY DEF Finished, JobsTo
    <3>3. jobs[i].from \in Releases /\ jobs[i].from[1] = pub[p].rel[1]
      BY <1>0, <3>2, JobTypes DEF GraphInv, JobsJoin
    <3>4. jobs[i].from = <<jobs[i].from[1], jobs[i].from[2]>>
      BY <3>3 DEF Releases
    <3>5. e[1] = jobs[i].from[2] /\ e[2] = ShaOf(jobs[i])
      BY <3>1 DEF Version
    <3>6. jobs[i].from = <<pub[p].rel[1], e[1]>>
      BY <3>3, <3>4, <3>5
    <3>7. QED
      BY <3>2, <3>5, <3>6 DEF Listed
  <2>3. \A q \in Publishers : \A e \in pub'[q].built : Listed(pub'[q].rel, e)
    <3>1. ASSUME NEW q \in Publishers, NEW e \in pub'[q].built
          PROVE  Listed(pub'[q].rel, e)
      <4>1. CASE q = p
        BY <2>1, <2>2, <3>1, <4>1
      <4>2. CASE q # p
        BY <2>1, <3>1, <4>2 DEF ListsOwn
      <4>3. QED
        BY <4>1, <4>2
    <3>2. QED
      BY <3>1
  <2>4. \A v \in Versions :
          json'[v] # None => \A e \in json'[v].patches_in : Listed(json'[v].rel, e)
    BY <2>1 DEF ListsOwn
  <2>5. QED
    BY <2>3, <2>4, ListsKept
<1>4. QED
  BY <1>1, <1>2, <1>3

\* No step but a publisher's writes a list.
LEMMA ListsOthers ==
    ASSUME Offline, BaseInv, GraphInv, ListsOwn, DoneStays, [Next]_vars,
           ~ \E p \in Publishers :
               \/ \E r \in Releases : \E b \in Offered[r] : BeginPublish(p, r, b)
               \/ PublishStep(p)
               \/ PublishError(p)
    PROVE  ListsOwn'
<1>0. TypeOK
  BY DEF BaseInv
<1>1. CASE UNCHANGED vars
  BY <1>1, ListsQuiet DEF vars
<1>2. ASSUME NEW s \in Servers, Boot(s) \/ Crash(s)
      PROVE  ListsOwn'
  <2>1. UNCHANGED json /\ \A p \in Publishers : pub'[p] = NoRequest \/ pub'[p] = pub[p]
    BY <1>0, <1>2, BootEffect, CrashEffect
  <2>2. QED
    BY <2>1, ListsQuiet, NoRequestFields
<1>3. ASSUME NEW w \in Workers, WorkerStep(w) \/ BuildError(w) \/ FailureLost(w)
      PROVE  ListsOwn'
  <2>1. UNCHANGED <<json, pub>>
    BY <1>3 DEF WorkerStep, ClaimNextPatchJob, BuildPatch, InsertPatch, CompletePatchJob,
                FailPatchJob, Finish, BuildError, FailureLost, files
  <2>2. QED
    BY <2>1, ListsQuiet
<1>4. CASE BeginGc \/ (\E f, t \in Releases : BuildEdge(f, t)) \/ GcStep \/ GcStops
  <2>1. UNCHANGED pub
    BY <1>4, GcSteps DEF GcChanges
  <2>2. CASE DropJson
    <3>1. json' = [json EXCEPT ![Version(gc.rel)] = None]
      BY <1>0, <2>2, DropJsonEffect
    <3>2. \A v \in Versions : json'[v] = None \/ json'[v] = json[v]
      BY <1>0, <3>1, Types
    <3>3. QED
      BY <2>1, <3>2, ListsQuiet
  <2>3. CASE ~DropJson
    <3>1. UNCHANGED json
      BY <1>4, <2>3 DEF BeginGc, BuildEdge, GcStep, GcStops, DropNext, DropPatchFile,
         DropPatchRows, DropJobRows, DropSig, DropRow, CountReleasesUsingBlob, DropBlob, files
    <3>2. QED
      BY <2>1, <3>1, ListsQuiet
  <2>4. QED
    BY <2>2, <2>3
<1>5. QED
  BY <1>1, <1>2, <1>3, <1>4, StepKinds

\* The files of built patches, while workers and servers come and go.
LEMMA ShasStay ==
    ASSUME SameJobs
    PROVE  \A i \in DOMAIN jobs : /\ i \in DOMAIN jobs'
                                  /\ jobs'[i].from = jobs[i].from /\ jobs'[i].to = jobs[i].to
                                  /\ ShaOf(jobs'[i]) = ShaOf(jobs[i])
BY DEF SameJobs, ShaOf

\* A step of one worker keeps that finished jobs have their files under these conditions.
LEMMA FilesWorker ==
    ASSUME TypeOK, BuiltFiles, DropsOwn, NEW w \in Workers, WorkerChanges(w),
           \A i \in DOMAIN jobs :
              jobs'[i].status = "done" =>
                 jobs[i].status = "done" \/ ShaOf(jobs[i]) \in patchFiles,
           worker'[w].pc \in {"insert", "complete"} =>
              /\ worker'[w].job \in DOMAIN jobs
              /\ ShaOf(jobs[worker'[w].job]) \in patchFiles'
    PROVE  BuiltFiles' /\ DropsOwn'
<1>1. /\ SameJobs /\ DOMAIN jobs' = DOMAIN jobs /\ UNCHANGED gc
      /\ \A x \in Workers : x # w => worker'[x] = worker[x]
      /\ patchFiles \subseteq patchFiles'
  BY DEF WorkerChanges
<1>2. ASSUME NEW x \in Workers, worker'[x].pc \in {"insert", "complete"}
      PROVE  ShaOf(jobs'[worker'[x].job]) \in patchFiles'
  <2>1. CASE x = w
    BY <1>1, <1>2, <2>1, ShasStay
  <2>2. CASE x # w
    <3>1. worker'[x] = worker[x] /\ worker[x].job \in DOMAIN jobs
      BY <1>1, <1>2, <2>2, Types
    <3>2. ShaOf(jobs[worker[x].job]) \in patchFiles
      BY <1>2, <3>1 DEF BuiltFiles
    <3>3. QED
      BY <1>1, <3>1, <3>2, ShasStay
  <2>3. QED
    BY <2>1, <2>2
<1>3. ASSUME NEW i \in DOMAIN jobs', jobs'[i].status = "done"
      PROVE  \/ ShaOf(jobs'[i]) \in patchFiles'
             \/ Dropping' \cap {jobs'[i].from, jobs'[i].to} # {}
  <2>1. Dropping' = Dropping
    BY <1>1 DEF Dropping
  <2>2. \/ ShaOf(jobs[i]) \in patchFiles
        \/ Dropping \cap {jobs[i].from, jobs[i].to} # {}
    BY <1>1, <1>3 DEF BuiltFiles
  <2>3. QED
    BY <1>1, <2>1, <2>2, ShasStay
<1>4. BuiltFiles'
  BY <1>2, <1>3 DEF BuiltFiles
<1>5. DropsOwn'
  BY <1>1 DEF DropsOwn
<1>6. QED
  BY <1>4, <1>5

\* Every worker step meets them.
LEMMA FilesWorkers ==
    ASSUME BaseInv, BuiltFiles, DropsOwn, NEW w \in Workers,
           WorkerStep(w) \/ BuildError(w) \/ FailureLost(w)
    PROVE  BuiltFiles' /\ DropsOwn'
<1>0. TypeOK /\ "done" \in Statuses /\ "failed" \in Statuses
  BY DEF BaseInv, Statuses
<1>1. CASE ClaimNextPatchJob(w)
  <2>1. PICK i \in DOMAIN jobs :
          /\ jobs'[i].status = "running" /\ \A k \in DOMAIN jobs : k # i => jobs'[k] = jobs[k]
          /\ worker'[w].pc = "build"
    BY <1>0, <1>1, ClaimEffect
  <2>2. WorkerChanges(w)
    BY <1>0, <1>1, ClaimEffect
  <2>3. QED
    BY <1>0, <2>1, <2>2, FilesWorker
<1>2. CASE BuildPatch(w)
  <2>1. /\ WorkerChanges(w) /\ UNCHANGED jobs
        /\ worker[w].pc = "build" /\ worker'[w].job = worker[w].job
        /\ \/ worker'[w].pc = "fail"
           \/ patchFiles' = patchFiles \cup {ShaOf(jobs[worker[w].job])}
    BY <1>0, <1>2, BuildEffect
  <2>2. worker[w].job \in DOMAIN jobs
    BY <1>0, <2>1, Types
  <2>3. QED
    BY <1>0, <2>1, <2>2, FilesWorker
<1>3. CASE InsertPatch(w)
  <2>1. /\ WorkerChanges(w) /\ UNCHANGED <<jobs, patchFiles>>
        /\ worker[w].pc = "insert" /\ worker'[w].job = worker[w].job
        /\ worker[w].job \in DOMAIN jobs
    BY <1>0, <1>3, InsertEffect
  <2>2. ShaOf(jobs[worker[w].job]) \in patchFiles
    BY <2>1 DEF BuiltFiles
  <2>3. QED
    BY <1>0, <2>1, <2>2, FilesWorker
<1>4. CASE CompletePatchJob(w) \/ FailPatchJob(w)
  <2>1. PICK status \in {"done", "failed"} :
          Finish(w, status) /\ (status = "done" => worker[w].pc = "complete")
    BY <1>4 DEF CompletePatchJob, FailPatchJob
  <2>2. worker[w].pc # "idle"
    BY <1>4 DEF CompletePatchJob, FailPatchJob
  <2>3. /\ WorkerChanges(w) /\ worker'[w].pc = "idle"
        /\ worker[w].job \in DOMAIN jobs
        /\ jobs'[worker[w].job].status =
             IF jobs[worker[w].job].status = "deleted" THEN "deleted" ELSE status
        /\ \A i \in DOMAIN jobs : i # worker[w].job => jobs'[i] = jobs[i]
    BY <1>0, <2>1, <2>2, FinishEffect
  <2>4. status = "done" => ShaOf(jobs[worker[w].job]) \in patchFiles
    BY <2>1 DEF BuiltFiles
  <2>5. QED
    BY <1>0, <2>3, <2>4, FilesWorker
<1>5. CASE BuildError(w) \/ FailureLost(w)
  <2>1. WorkerChanges(w) /\ UNCHANGED jobs /\ worker'[w].pc \in {"fail", "idle"}
    BY <1>0, <1>5, BuildErrorEffect, FailureLostEffect
  <2>2. QED
    BY <1>0, <2>1, FilesWorker
<1>6. QED
  BY <1>1, <1>2, <1>3, <1>4, <1>5 DEF WorkerStep

\* Boots and crashes keep that finished jobs have their files.
LEMMA FilesServers ==
    ASSUME BaseInv, BuiltFiles, DropsOwn, NEW s \in Servers, Boot(s) \/ Crash(s)
    PROVE  BuiltFiles' /\ DropsOwn'
<1>0. /\ TypeOK
      /\ \A w \in Workers : worker[w].pc # "idle" => worker[w].job \in DOMAIN jobs
  BY Types DEF BaseInv
<1>1. CASE Boot(s)
  <2>1. /\ UNCHANGED <<patchFiles, worker, gc>> /\ SameJobs /\ DOMAIN jobs' = DOMAIN jobs
        /\ \A i \in DOMAIN jobs : jobs'[i].status = "done" => jobs[i].status = "done"
    BY <1>0, <1>1, BootEffect
  <2>2. Dropping' = Dropping
    BY <2>1 DEF Dropping
  <2>3. BuiltFiles'
    BY <1>0, <2>1, <2>2, ShasStay DEF BuiltFiles
  <2>4. DropsOwn'
    BY <2>1 DEF DropsOwn
  <2>5. QED
    BY <2>3, <2>4
<1>2. CASE Crash(s)
  <2>1. /\ UNCHANGED <<jobs, patchFiles, gc>>
        /\ \A w \in Workers : worker'[w] = IF Home[w] = s THEN IdleWorker ELSE worker[w]
    BY <1>0, <1>2, CrashEffect
  <2>2. BuiltFiles'
    BY <2>1, IdleWorkerFields DEF BuiltFiles, Dropping
  <2>3. DropsOwn'
    BY <2>1 DEF DropsOwn
  <2>4. QED
    BY <2>2, <2>3
<1>3. QED
  BY <1>1, <1>2

\* Every publisher step keeps that finished jobs have their files.
LEMMA FilesPublishers ==
    ASSUME BaseInv, BuiltFiles, DropsOwn, NEW p \in Publishers,
           \/ \E r \in Releases : \E b \in Offered[r] : BeginPublish(p, r, b)
           \/ PublishStep(p)
           \/ PublishError(p)
    PROVE  BuiltFiles' /\ DropsOwn'
<1>1. /\ \A i \in DOMAIN jobs : i \in DOMAIN jobs' /\ jobs'[i] = jobs[i]
      /\ \A i \in DOMAIN jobs' : i \notin DOMAIN jobs => jobs'[i].status = "pending"
      /\ UNCHANGED <<patchFiles, worker, gc>>
  BY PublishJobs DEF PubChanges, SameJobs
<1>2. \A w \in Workers : worker[w].pc # "idle" => worker[w].job \in DOMAIN jobs
  BY Types DEF BaseInv
<1>3. \A i \in DOMAIN jobs' : jobs'[i].status = "done" => i \in DOMAIN jobs /\ jobs'[i] = jobs[i]
  BY <1>1
<1>4. Dropping' = Dropping
  BY <1>1 DEF Dropping
<1>5. BuiltFiles'
  BY <1>1, <1>2, <1>3, <1>4 DEF BuiltFiles
<1>6. DropsOwn'
  BY <1>1 DEF DropsOwn
<1>7. QED
  BY <1>5, <1>6

\* The steps of the GC.
LEMMA FilesGc ==
    ASSUME BaseInv, BuiltFiles, GcChanges, up = {}, DropsOwn',
           \A i \in DOMAIN jobs : jobs'[i].status = "done" => jobs[i].status = "done",
           \A i \in DOMAIN jobs :
              /\ jobs[i].status = "done" /\ jobs'[i].status = "done"
              /\ Dropping' \cap {jobs[i].from, jobs[i].to} = {}
              => /\ Dropping \cap {jobs[i].from, jobs[i].to} = {}
                 /\ ShaOf(jobs[i]) \in patchFiles => ShaOf(jobs[i]) \in patchFiles'
    PROVE  BuiltFiles' /\ DropsOwn'
<1>1. UNCHANGED worker /\ SameJobs /\ DOMAIN jobs' = DOMAIN jobs
  BY DEF GcChanges
<1>2. \A w \in Workers : worker'[w].pc = "idle"
  BY <1>1 DEF BaseInv, Alive
<1>3. ASSUME NEW i \in DOMAIN jobs, jobs'[i].status = "done",
             Dropping' \cap {jobs[i].from, jobs[i].to} = {}
      PROVE  ShaOf(jobs[i]) \in patchFiles'
  BY <1>3 DEF BuiltFiles
<1>4. QED
  BY <1>1, <1>2, <1>3, ShasStay DEF BuiltFiles

\* A release stops being dropped when its jobs are gone.
LEMMA DroppingShrinks ==
    ASSUME Offline, BaseInv, GraphInv, Between,
           BeginGc \/ (\E f, t \in Releases : BuildEdge(f, t)) \/ GcStep \/ GcStops
    PROVE  \A i \in DOMAIN jobs :
              /\ jobs'[i].status = "done" => jobs[i].status = "done"
              /\ /\ jobs[i].status = "done"
                 /\ Dropping' \cap {jobs[i].from, jobs[i].to} = {}
                 => Dropping \cap {jobs[i].from, jobs[i].to} = {}
<1>0. TypeOK /\ DropOrder
  BY DEF BaseInv, GraphInv
<1>1. \A i \in DOMAIN jobs : jobs'[i].status = "done" => jobs[i].status = "done"
  BY <1>0, GcSteps, DropJobRowsEffect
<1>2. CASE BeginGc \/ (\E f, t \in Releases : BuildEdge(f, t)) \/ GcStops
  <2>1. \/ gc'.rel = gc.rel /\ gc'.torn = gc.torn
        \/ gc'.rel = None /\ gc'.torn = gc.torn /\ gc.pc = "idle"
        \/ gc'.rel = None /\ gc'.torn = gc.torn \cup ({gc.rel} \ {None})
    BY <1>0, <1>2, BeginGcEffect, BuildEdgeEffect, GcStopsEffect
  <2>2. Dropping \subseteq Dropping'
    BY <2>1 DEF Dropping, Between
  <2>3. QED
    BY <1>1, <2>2
<1>3. CASE (\E c \in gc.todo : DropNext(c)) \/ (\E sha \in gc.shas : DropPatchFile(sha))
  <2>1. gc'.torn = gc.torn /\ (gc'.rel = gc.rel \/ gc.pc \in {"plan", "next"})
    BY <1>0, <1>3, DropNextEffect, DropPatchFileEffect
  <2>2. \A r \in Releases : r \in Dropping => r \in Dropping'
    BY <2>1, NoneAssumption DEF Between, Dropping
  <2>3. QED
    BY <1>0, <1>1, <2>2, JobTypes
<1>4. CASE DropPatchRows \/ DropJobRows \/ DropJson \/ DropSig \/ DropRow
  <2>1. gc'.torn = gc.torn /\ gc'.rel = gc.rel
    BY <1>0, <1>4, DropPatchRowsEffect, DropJobRowsEffect, DropJsonEffect, DropSigEffect,
       DropRowEffect DEF SameRun
  <2>2. QED
    BY <1>1, <2>1 DEF Dropping
<1>5. CASE CountReleasesUsingBlob \/ DropBlob
  <2>1. /\ gc.pc \in {"refcount", "blob"}
        /\ \/ gc'.rel = None /\ gc'.torn = gc.torn \ {gc.rel}
           \/ gc'.rel = gc.rel /\ gc'.torn = gc.torn
    BY <1>0, <1>5, RefcountEffect, DropBlobEffect DEF SameRun, RunEnds
  <2>2. \A r \in Dropping : r = gc.rel \/ r \in Dropping'
    BY <2>1 DEF Dropping
  <2>3. \A i \in DOMAIN jobs : jobs[i].status = "done" => gc.rel \notin {jobs[i].from, jobs[i].to}
    BY <1>0, <2>1 DEF DropOrder
  <2>4. QED
    BY <1>1, <2>2, <2>3
<1>6. QED
  BY <1>2, <1>3, <1>4, <1>5 DEF GcStep

\* The files that a drop removes are of its own jobs and of no others, when no
\* two releases have the same contents.
LEMMA FilesGcSteps ==
    ASSUME Offline, DistinctContents, BaseInv, GraphInv, Between, BuiltFiles, DropsOwn,
           BeginGc \/ (\E f, t \in Releases : BuildEdge(f, t)) \/ GcStep \/ GcStops
    PROVE  BuiltFiles' /\ DropsOwn'
<1>0. TypeOK /\ GcChanges /\ up = {}
  BY GcSteps DEF BaseInv
<1>1. ASSUME NEW c \in gc.todo, DropNext(c)
      PROVE  BuiltFiles' /\ DropsOwn'
  <2>1. /\ gc'.rel = c[1] /\ gc'.shas = {t.sha : t \in Touching(c[1])} /\ UNCHANGED patchFiles
    BY <1>0, <1>1, DropNextEffect
  <2>2. ASSUME NEW t \in Touching(c[1])
        PROVE  \E f, g \in Releases :
                 c[1] \in {f, g} /\ t.sha[1] \in Offered[f] /\ t.sha[2] \in Offered[g]
    <3>1. t \in patches /\ c[1] \in {t.from, t.to}
      BY DEF Touching
    <3>2. t \in Patch
      BY <1>0, <3>1, Types
    <3>3. t.from \in Releases /\ t.to \in Releases
      BY <3>2 DEF Patch
    <3>4. QED
      BY <3>1, <3>3 DEF GraphInv, PatchesOffered
  <2>3. DropsOwn'
    BY <2>1, <2>2 DEF DropsOwn
  <2>4. QED
    BY <1>0, <1>1, <2>1, <2>3, DroppingShrinks, FilesGc
<1>2. ASSUME NEW sha \in gc.shas, DropPatchFile(sha)
      PROVE  BuiltFiles' /\ DropsOwn'
  <2>1. /\ patchFiles' = patchFiles \ {sha} /\ gc'.rel = gc.rel /\ gc'.torn = gc.torn
        /\ gc'.shas \subseteq gc.shas
    BY <1>0, <1>2, DropPatchFileEffect
  <2>2. DropsOwn'
    BY <2>1 DEF DropsOwn
  <2>3. PICK f, t \in Releases : gc.rel \in {f, t} /\ sha[1] \in Offered[f] /\ sha[2] \in Offered[t]
    BY DEF DropsOwn
  <2>4. ASSUME NEW i \in DOMAIN jobs, ShaOf(jobs[i]) = sha
        PROVE  Dropping' \cap {jobs[i].from, jobs[i].to} # {}
    <3>1. /\ jobs[i].from \in Releases /\ jobs[i].to \in Releases
          /\ jobs[i].from_blob \in Offered[jobs[i].from] /\ jobs[i].to_blob \in Offered[jobs[i].to]
      BY <1>0, JobTypes DEF GraphInv, JobsJoin
    <3>2. sha[1] = jobs[i].from_blob /\ sha[2] = jobs[i].to_blob
      BY <2>4 DEF ShaOf
    <3>3. jobs[i].from = f /\ jobs[i].to = t
      BY <2>3, <3>1, <3>2 DEF DistinctContents
    <3>4. QED
      BY <2>1, <2>3, <3>3 DEF Dropping
  <2>5. QED
    BY <1>0, <1>2, <2>1, <2>2, <2>4, DroppingShrinks, FilesGc
<1>3. CASE BeginGc \/ (\E f, t \in Releases : BuildEdge(f, t)) \/ GcStops
  <2>1. patchFiles \subseteq patchFiles' /\ (gc'.shas = {} \/ UNCHANGED gc)
    BY <1>0, <1>3, BeginGcEffect, BuildEdgeEffect, GcStopsEffect
  <2>2. DropsOwn'
    BY <2>1 DEF DropsOwn
  <2>3. QED
    BY <1>0, <2>1, <2>2, DroppingShrinks, FilesGc
<1>4. CASE DropPatchRows \/ DropJobRows \/ DropJson \/ DropSig \/ DropRow
           \/ CountReleasesUsingBlob \/ DropBlob
  <2>1. /\ UNCHANGED patchFiles
        /\ gc'.shas = {} \/ (gc'.shas = gc.shas /\ gc'.rel = gc.rel)
    BY <1>0, <1>4, DropPatchRowsEffect, DropJobRowsEffect, DropJsonEffect, DropSigEffect,
       DropRowEffect, RefcountEffect, DropBlobEffect DEF SameRun, RunEnds
  <2>2. DropsOwn'
    BY <2>1 DEF DropsOwn
  <2>3. QED
    BY <1>0, <2>1, <2>2, DroppingShrinks, FilesGc
<1>5. QED
  BY <1>1, <1>2, <1>3, <1>4 DEF GcStep

\* At the start nothing is built, dropped or listed.
LEMMA ListInitially == Init => BuiltFiles /\ DropsOwn /\ ListsOwn
<1> SUFFICES ASSUME Init PROVE BuiltFiles /\ DropsOwn /\ ListsOwn
  OBVIOUS
<1>1. /\ DOMAIN jobs = {} /\ json = [v \in Versions |-> None]
      /\ \A w \in Workers : worker[w].pc = "idle"
      /\ \A p \in Publishers : pub[p].built = {}
  BY IdleWorkerFields, NoRequestFields DEF Init
<1>2. gc.shas = {}
  BY RunFields DEF Init, NoGc
<1>3. QED
  BY <1>1, <1>2 DEF BuiltFiles, DropsOwn, ListsOwn

\* Stuttering keeps that finished jobs have their files.
LEMMA FilesStay ==
    ASSUME BuiltFiles, DropsOwn, UNCHANGED vars
    PROVE  BuiltFiles' /\ DropsOwn'
BY DEF vars, BuiltFiles, DropsOwn, Dropping

\* The files of built patches are there, for any number of servers, until the
\* drop of one of their releases removes them.
THEOREM FilesInvariance ==
    ASSUME Offline, OneReleasePerVersion, DistinctContents
    PROVE  Spec => [](BuiltFiles /\ DropsOwn)
<1>1. EdgeInv => Between
  BY DEF EdgeInv
<1>2. /\ BaseInv /\ GraphInv /\ Between /\ (BuiltFiles /\ DropsOwn) /\ [Next]_vars
      => (BuiltFiles /\ DropsOwn)'
  BY FilesWorkers, FilesServers, FilesPublishers, FilesGcSteps, FilesStay, StepKinds
<1>3. Init => BuiltFiles /\ DropsOwn
  BY ListInitially
<1>4. QED
  BY BaseInvariance, GraphInvariance, EdgeInvariance, <1>1, <1>2, <1>3, PTL DEF Spec

\* What a request or a manifest lists comes from a job that was done and was
\* not worked on again.
THEOREM ListsInvariance ==
    ASSUME Offline, OneProcess, OneReleasePerVersion
    PROVE  Spec => []ListsOwn
<1>1. BaseInv /\ GraphInv /\ Holding /\ ListsOwn /\ [Next]_vars => ListsOwn'
  BY JobsAdvance, ListsPublishers, ListsOthers
<1>2. Init => ListsOwn
  BY ListInitially
<1>3. QED
  BY BaseInvariance, GraphInvariance, OneWorkerPerJob, <1>1, <1>2, PTL DEF Spec

\* A manifest lists only patches that were built and stored: the fan-in of a
\* publish, the workers of one server process, their crashes and the GC's drops
\* leave no patches_in entry without its finished job and its file.
THEOREM ManifestsListBuiltPatches ==
    ASSUME Offline, OneProcess, OneReleasePerVersion, DistinctContents
    PROVE  Spec => []ListedPatchesBuilt
<1>1. BuiltFiles /\ ListsOwn => ListedPatchesBuilt
  <2> SUFFICES ASSUME BuiltFiles, ListsOwn,
                      NEW v \in Versions, json[v] # None, NEW e \in json[v].patches_in
               PROVE  LET to == json[v].rel
                          from == <<to[1], e[1]>>
                      IN  \E i \in DOMAIN jobs :
                            /\ jobs[i].from = from /\ jobs[i].to = to
                            /\ <<jobs[i].from_blob, jobs[i].to_blob>> = e[2]
                            /\ \/ jobs[i].status = "deleted"
                               \/ jobs[i].status = "done" /\ e[2] \in patchFiles
                               \/ jobs[i].status = "done" /\ Dropping \cap {from, to} # {}
    BY DEF ListedPatchesBuilt
  <2>1. PICK i \in DOMAIN jobs :
          /\ jobs[i].from = <<json[v].rel[1], e[1]>> /\ jobs[i].to = json[v].rel
          /\ ShaOf(jobs[i]) = e[2] /\ jobs[i].status \in {"done", "deleted"}
    BY DEF ListsOwn, Listed
  <2>2. jobs[i].status = "done" =>
          \/ e[2] \in patchFiles
          \/ Dropping \cap {<<json[v].rel[1], e[1]>>, json[v].rel} # {}
    BY <2>1 DEF BuiltFiles
  <2>3. QED
    BY <2>1, <2>2 DEF ShaOf
<1>2. QED
  BY FilesInvariance, ListsInvariance, <1>1, PTL
=============================================================================
