------------------------------ MODULE Delivery ------------------------------
(***************************************************************************)
(* From the publisher's archive to the client's tree: the signed manifest, *)
(* its two files on the server, key rotation and resign-manifests, and how *)
(* Install takes a manifest: trust, signature, patch or blob, extraction.  *)
(* ota-agent verify is a predicate on the same state.                      *)
(*                                                                         *)
(* One publish handler, one resign, one command of one client at a time,   *)
(* each interleaved with the others.  A blob is named by its hash.  An     *)
(* archive is a sequence of entries; a tree is a set of named contents.    *)
(*                                                                         *)
(* Abstractions.  Patches are built, or fail, in one step of the handler   *)
(* (module Publish has the queue).  Of an interrupted download the length  *)
(* of the .part file counts, and of what it is the beginning; module       *)
(* Download has the bytes, where one that ends in zeros is cut back.  The  *)
(* two forms of a link are in ClientInstall, what a client may see in      *)
(* Access.  A drop is one step and does not hit the release that is        *)
(* being published (Publish has that race); it may hit the one the client  *)
(* is on, as the server does not count a client that has not reported.     *)
(***************************************************************************)
EXTENDS Naturals, Sequences, FiniteSets, SequencesExt

CONSTANTS
    Keys, Versions, Blobs,
    Offered,        \* version -> blobs a publisher may publish as it
    Archive,        \* blob -> its tar entries
    Unsafe,         \* the names safeName refuses
    Costly,         \* patches above FallbackRatio of the target's size
    Size,           \* blob or patch -> its length
    FirstKey,       \* the key the server generates when it first runs
    MaxPublishes,   \* bound: publishes
    MaxIncidents,   \* bound: drops, restarts, resigns, changes of the trusted
                    \* keys, recovers, failures of RemoveAll and aborts, at
                    \* most one of each kind
    None

Entries == UNION {{Archive[b][i] : i \in DOMAIN Archive[b]} : b \in Blobs}
File == {<<e.name, e.data>> : e \in Entries}

ASSUME VersionsAssumption == Versions \subseteq Nat
ASSUME OfferedAssumption ==
    /\ Offered \in [Versions -> SUBSET Blobs]
    /\ \A v, w \in Versions : v # w => Offered[v] \cap Offered[w] = {}
ASSUME FirstKeyAssumption == FirstKey \in Keys
ASSUME ArchiveAssumption == \A b \in Blobs : Archive[b] \in Seq(Entries)
ASSUME SizeAssumption == Size \in [Blobs \cup Blobs \X Blobs -> Nat \ {0}]
ASSUME BoundsAssumption == MaxPublishes \in Nat /\ MaxIncidents \in Nat

VARIABLES
    key,        \* the key pair the server process has loaded
    rows,       \* releases, last published first
    json, sig,  \* version -> its two manifest files
    patches,    \* patch files, each named by the blobs it goes between
    pub,        \* locals of the publish handler
    resign,     \* locals of resign-manifests
    published,  \* history: all rows there ever were
    spoiled,    \* history: versions whose signature an incident has outdated
    trusted,    \* OTA_TRUSTED_PUBKEYS, {} when empty
    home,       \* the client's directory; its field torn is history: the
                \* versions whose tree an install began to remove, and that
                \* none has extracted to the end since
    run,        \* locals of its Install; left is history: what RemoveAll,
                \* whose error is ignored, could not remove
    count       \* what the bounds count

served == <<key, rows, json, sig, patches>>
server == <<served, pub, resign, published, spoiled>>
vars == <<server, trusted, home, run, count>>

Row == [version : Versions, blob : Blobs]
Patch == Blobs \X Blobs
\* The fields of a manifest that an install reads; `at' tells two
\* publications of the same content apart, as published_at does.
Manifest == [version : Versions, blob : Blobs, at : 0..MaxPublishes,
             patches_in : SUBSET [from : Versions, patch : Patch]]
Signature == [by : Keys, of : Manifest]

ASSUME NoneAssumption ==
    None \notin Keys \cup Versions \cup Blobs \cup Manifest \cup Signature

Handler(pc, v, b, in) == [pc |-> pc, version |-> v, blob |-> b, patches_in |-> in]
NoPub == Handler("idle", None, None, {})
Resigner(todo, k, v, man) == [todo |-> todo, by |-> k, version |-> v, bytes |-> man]
NoResign == Resigner({}, None, None, None)
Locals(pc, v, k, s, man) ==
    [pc |-> pc, version |-> v, key |-> k, sig |-> s, man |-> man, left |-> {}]
Idle == Locals("idle", None, None, None, None)

Maybe(S) == S \cup {None}

Handlers == [pc : {"idle", "json", "sig", "patches"}, version : Maybe(Versions),
             blob : Maybe(Blobs), patches_in : SUBSET [from : Versions, patch : Patch]]
Resigners == [todo : SUBSET Versions, by : Maybe(Keys),
              version : Maybe(Versions), bytes : Maybe(Manifest)]
\* A .part file: its name (<from>-to-<version>.patch.part, or without `from'
\* <version>.blob.part), its length and what it is the beginning of, None
\* when that is nothing that was ever on offer.
Part == [name : Maybe(Versions) \X Versions, of : Maybe(Blobs \cup Patch), size : Nat]

Homes == [pin : Maybe(Keys), current : Maybe(Versions), link : Maybe(Versions),
          history : Seq(Versions), blobs : [Versions -> Maybe(Blobs)],
          dist : [Versions -> SUBSET File], parts : SUBSET Part, torn : SUBSET Versions]
Runs == [pc : {"idle", "headers", "body", "transfer", "remove", "extract", "flip", "save"},
         version : Maybe(Versions), key : Maybe(Keys), sig : Maybe(Signature),
         man : Maybe(Manifest), left : SUBSET File]

\* The types, and that a version has one row at a time.
TypeOK ==
    /\ key \in Keys
    /\ rows \in Seq(Row)
    /\ \A i, j \in DOMAIN rows : rows[i].version = rows[j].version => i = j
    /\ json \in [Versions -> Maybe(Manifest)]
    /\ sig \in [Versions -> Maybe(Signature)]
    /\ patches \subseteq Patch
    /\ pub \in Handlers
    /\ resign \in Resigners
    /\ published \subseteq Row
    /\ spoiled \subseteq Versions
    /\ trusted \subseteq Keys
    /\ home \in Homes
    /\ run \in Runs

Init ==
    /\ key = FirstKey
    /\ rows = <<>>
    /\ json = [v \in Versions |-> None]
    /\ sig = [v \in Versions |-> None]
    /\ patches = {}
    /\ pub = NoPub
    /\ resign = NoResign
    /\ published = {}
    /\ spoiled = {}
    /\ trusted = {}
    /\ home = [pin |-> None, current |-> None, link |-> None, history |-> <<>>,
               blobs |-> [v \in Versions |-> None], dist |-> [v \in Versions |-> {}],
               parts |-> {}, torn |-> {}]
    /\ run = Idle
    /\ count = [publishes |-> 0, incidents |-> {}]

\* A faulty variant: only the newest row is looked at.
ListedLast(v) == rows # <<>> /\ Head(rows).version = v

Listed(v) == \E i \in DOMAIN rows : rows[i].version = v
Incident(kind) ==
    /\ kind \notin count.incidents
    /\ Cardinality(count.incidents) < MaxIncidents
    /\ count' = [count EXCEPT !.incidents = @ \cup {kind}]

----------------------------------------------------------------------------
(* The publish handler *)

\* insert-release-if-new has made the row, the archive being stored.
Publish(v, b) ==
    /\ pub.pc = "idle"
    /\ count.publishes < MaxPublishes
    /\ count' = [count EXCEPT !.publishes = @ + 1]
    /\ ~Listed(v)
    /\ b \in Offered[v]
    /\ rows' = <<[version |-> v, blob |-> b]>> \o rows
    /\ published' = published \cup {[version |-> v, blob |-> b]}
    /\ pub' = Handler("json", v, b, {})
    /\ UNCHANGED <<key, json, sig, patches, resign, spoiled, trusted, home, run>>

TheManifest == [version |-> pub.version, blob |-> pub.blob, at |-> count.publishes,
                patches_in |-> pub.patches_in]

WriteJson ==
    /\ pub.pc = "json"
    /\ json' = [json EXCEPT ![pub.version] = TheManifest]
    /\ pub' = [pub EXCEPT !.pc = "sig"]
    /\ UNCHANGED <<key, rows, sig, patches, resign, published, spoiled, trusted, home, run, count>>

\* A faulty variant: the rewritten manifest keeps the signature of the first.
WriteSigOnce ==
    /\ pub.pc = "sig"
    /\ sig' = IF pub.patches_in = {}
              THEN [sig EXCEPT ![pub.version] = [by |-> key, of |-> TheManifest]] ELSE sig
    /\ pub' = IF pub.patches_in = {} THEN [pub EXCEPT !.pc = "patches"] ELSE NoPub
    /\ spoiled' = spoiled \ {pub.version}
    /\ UNCHANGED <<key, rows, json, patches, resign, published, trusted, home, run, count>>

\* The second file.  The first time round the patches come next; the second
\* time the handler is done with the manifest.
WriteSig ==
    /\ pub.pc = "sig"
    /\ sig' = [sig EXCEPT ![pub.version] = [by |-> key, of |-> TheManifest]]
    /\ pub' = IF pub.patches_in = {} THEN [pub EXCEPT !.pc = "patches"] ELSE NoPub
    /\ spoiled' = spoiled \ {pub.version}
    /\ UNCHANGED <<key, rows, json, patches, resign, published, trusted, home, run, count>>

\* Patches from those earlier releases for which the build succeeds; the
\* manifest is written again if there are any.
FanIn ==
    /\ pub.pc = "patches"
    /\ \E from \in SUBSET {rows[i] : i \in {j \in DOMAIN rows : rows[j].version # pub.version}} :
         LET in == {[from |-> r.version, patch |-> <<r.blob, pub.blob>>] : r \in from}
         IN  /\ patches' = patches \cup {p.patch : p \in in}
             /\ pub' = IF in = {} THEN NoPub
                       ELSE Handler("json", pub.version, pub.blob, in)
    /\ UNCHANGED <<key, rows, json, sig, resign, published, spoiled, trusted, home, run, count>>

----------------------------------------------------------------------------
(* The operators of the server *)

\* drop-release, of any release but the highest version.
Drop(v) ==
    /\ Incident("drop")
    /\ v # pub.version
    /\ \E i \in DOMAIN rows : rows[i].version > v
    /\ \E i \in DOMAIN rows : rows[i].version = v /\ rows' = RemoveAt(rows, i)
    /\ patches' = {p \in patches : Offered[v] \cap {p[1], p[2]} = {}}
    /\ json' = [json EXCEPT ![v] = None]
    /\ sig' = [sig EXCEPT ![v] = None]
    /\ spoiled' = spoiled \ {v}
    /\ UNCHANGED <<key, pub, resign, published, trusted, home, run>>

\* The server stops and starts, with the key files it finds by then.  A
\* handler between its two writes leaves a manifest without its signature.
\* (With the same key and no handler nothing would change.)
Restart(k) ==
    /\ Incident("restart")
    /\ k # key \/ pub # NoPub
    /\ key' = k
    /\ pub' = NoPub
    /\ spoiled' = IF k # key THEN {v \in Versions : json[v] # None}
                  ELSE IF pub.pc = "sig" THEN spoiled \cup {pub.version} ELSE spoiled
    /\ UNCHANGED <<rows, json, sig, patches, resign, published, trusted, home, run>>

\* resign-manifests, in a process of its own, with the key files of now: the
\* last step of a rotation.
BeginResign ==
    /\ key # FirstKey
    /\ resign = NoResign
    /\ Incident("resign")
    /\ resign' = Resigner({v \in Versions : json[v] # None}, key, None, None)
    /\ UNCHANGED <<served, pub, published, spoiled, trusted, home, run>>

\* A manifest that is gone by now ends the whole run with an error.
ResignRead(v) ==
    /\ resign.version = None
    /\ v \in resign.todo
    /\ resign' = IF json[v] = None THEN NoResign
                 ELSE Resigner(resign.todo, resign.by, v, json[v])
    /\ UNCHANGED <<served, pub, published, spoiled, trusted, home, run, count>>

ResignWrite ==
    /\ resign.version # None
    /\ sig' = [sig EXCEPT ![resign.version] = [by |-> resign.by, of |-> resign.bytes]]
    /\ spoiled' = IF resign.by = key /\ resign.bytes = json[resign.version]
                  THEN spoiled \ {resign.version} ELSE spoiled \cup {resign.version}
    /\ resign' = Resigner(resign.todo \ {resign.version}, resign.by, None, None)
    /\ UNCHANGED <<key, rows, json, patches, pub, published, trusted, home, run, count>>

EndResign ==
    /\ resign.by # None
    /\ resign.todo = {}
    /\ resign' = NoResign
    /\ UNCHANGED <<served, pub, published, spoiled, trusted, home, run, count>>

----------------------------------------------------------------------------
(* What the client decides from *)

\* A faulty variant: a key that is not the pinned one replaces it.
CheckTrustNone(k) == trusted = {} \/ k \in trusted

\* The trusted keys if there are any, else the key of the first install.
CheckTrust(k) ==
    IF trusted # {} THEN k \in trusted ELSE home.pin \in {None, k}

\* ed25519.Verify over the bytes of the manifest.
Verified(man, s, k) == s = [by |-> k, of |-> man]

\* The patches pickPatch may return: from the current version, whose blob is
\* still there, and not too large.  A manifest has one patch for a version.
PickPatch(man) ==
    IF home.current \in {None, man.version} \/ home.blobs[home.current] = None THEN {}
    ELSE {p \in man.patches_in : p.from = home.current /\ p.patch \notin Costly}

\* bspatch makes the target from the blob the patch was built on, and
\* something of another hash from any other.
Applies(p, man) == p[1] = home.blobs[home.current] /\ p[2] = man.blob

SafeName(name) == name \notin Unsafe

\* The tree that an archive stands for: of its regular files, the last of
\* each name.  This is what Extract is to produce.
TreeOf(b) ==
    LET files == {i \in DOMAIN Archive[b] : Archive[b][i].kind = "file"}
    IN  {<<Archive[b][i].name, Archive[b][i].data>> : i \in
            {j \in files : \A k \in files : k > j => Archive[b][k].name # Archive[b][j].name}}

----------------------------------------------------------------------------
(* Install *)

Begin(v) ==
    /\ run.pc = "idle"
    /\ run' = Locals("headers", v, None, None, None)
    /\ UNCHANGED <<server, trusted, home>>

\* A tick of watch, or an upgrade: the first row of the list.
Watch == rows # <<>> /\ Begin(Head(rows).version) /\ UNCHANGED count

\* doctor --recover: a version the user names.
Recover(v) == Incident("recover") /\ Begin(v)

\* The environment of the next command.
SetTrusted(keys) ==
    /\ run.pc = "idle"
    /\ Incident("trust")
    /\ keys # trusted
    /\ trusted' = keys
    /\ UNCHANGED <<server, home, run>>

\* An error return: what is on disk stays.
Fail == run' = Idle /\ UNCHANGED <<server, trusted, home, count>>

Served(v) == Listed(v) /\ json[v] # None /\ sig[v] # None

\* handle-get-manifest reads the signature for the headers ...
GetHeaders ==
    /\ run.pc = "headers"
    /\ run' = IF Served(run.version)
              THEN Locals("body", run.version, key, sig[run.version], None) ELSE Idle
    /\ UNCHANGED <<server, trusted, home, count>>

\* ... and leaves the file to be sent as the body after that.
GetBody ==
    /\ run.pc = "body"
    /\ run' = IF json[run.version] = None THEN Idle
              ELSE Locals("transfer", run.version, run.key, run.sig, json[run.version])
    /\ UNCHANGED <<server, trusted, home, count>>

\* A faulty variant: the pin is asked for although the key is trusted by name.
AcceptableByPin ==
    /\ home.pin \in {None, run.key}
    /\ CheckTrust(run.key)
    /\ Verified(run.man, run.sig, run.key)

Acceptable == CheckTrust(run.key) /\ Verified(run.man, run.sig, run.key)

Refuse == run.pc = "transfer" /\ ~Acceptable /\ Fail

\* A .part file that is as long as what is asked for, or longer, is never
\* resumed: the server answers 416, an error, and the file stays.
Stuck(name, c) == \E p \in home.parts : p.name = name /\ p.size >= Size[c]

\* A shorter one that began as something else ends in a hash mismatch.
Foreign(name, c) == \E p \in home.parts : p.name = name /\ p.of # c

PartsBut(names) == {p \in home.parts : p.name \notin names}

\* The hash does not fit: the .part file is removed (or, of a patch that does
\* not apply, renamed) and the command ends.
FailWithout(name) ==
    /\ home' = [home EXCEPT !.parts = PartsBut({name})]
    /\ run' = Idle
    /\ UNCHANGED <<server, trusted, count>>

\* The blob is in place, the .part files are gone with the renames.  The
\* manifest is not looked at again.
StoreBlob(b, names) ==
    /\ home' = [home EXCEPT !.blobs[run.version] = b, !.parts = PartsBut(names)]
    /\ run' = Locals("remove", run.version, run.key, None, None)
    /\ UNCHANGED <<server, trusted, count>>

BlobPart == <<None, run.version>>
PatchPart(p) == <<p.from, run.version>>

\* A patch that is picked must do: there is no way back to the full blob.
\* The new blob is written to the .part file of a download of it.
ApplyPatch ==
    /\ run.pc = "transfer" /\ Acceptable
    /\ \E p \in PickPatch(run.man) :
         IF p.patch \notin patches \/ Stuck(PatchPart(p), p.patch) THEN Fail
         ELSE IF Foreign(PatchPart(p), p.patch) \/ ~Applies(p.patch, run.man)
         THEN FailWithout(PatchPart(p))
         ELSE StoreBlob(p.patch[2], {PatchPart(p), BlobPart})

OnServer(b) == \E i \in DOMAIN rows : rows[i].blob = b

DownloadBlob ==
    /\ run.pc = "transfer" /\ Acceptable
    /\ PickPatch(run.man) = {}
    /\ IF ~OnServer(run.man.blob) \/ Stuck(BlobPart, run.man.blob) THEN Fail
       ELSE IF Foreign(BlobPart, run.man.blob) THEN FailWithout(BlobPart)
       ELSE StoreBlob(run.man.blob, {BlobPart})

\* What a download of c to this name leaves when it stops: more of the .part
\* file there was, or a new one; up to all of it, before the rename.
CutDownloads(name, c) ==
    {[name |-> name, of |-> IF Foreign(name, c) THEN None ELSE c, size |-> n] :
        n \in {k \in 1..Size[c] : \A p \in home.parts : p.name = name => p.size <= k}}

\* Likewise of the blob that bspatch made, written in one go.
CutRebuilds(b) == {[name |-> BlobPart, of |-> b, size |-> n] : n \in 1..Size[b]}

\* A lost connection, a full disk, a killed process during the transfer.
TransferStops ==
    /\ run.pc = "transfer" /\ Acceptable
    /\ Incident("abort")
    /\ \/ /\ PickPatch(run.man) = {} /\ OnServer(run.man.blob)
          /\ \E part \in CutDownloads(BlobPart, run.man.blob) :
               home' = [home EXCEPT !.parts = PartsBut({BlobPart}) \cup {part}]
       \/ \E p \in PickPatch(run.man) :
            /\ p.patch \in patches
            /\ \/ \E part \in CutDownloads(PatchPart(p), p.patch) :
                    home' = [home EXCEPT !.parts = PartsBut({PatchPart(p)}) \cup {part}]
               \/ /\ ~Stuck(PatchPart(p), p.patch) /\ ~Foreign(PatchPart(p), p.patch)
                  /\ Applies(p.patch, run.man)
                  /\ \E part \in CutRebuilds(p.patch[2]) :
                       home' = [home EXCEPT !.parts =
                                  PartsBut({PatchPart(p), BlobPart}) \cup {part}]
    /\ run' = Idle
    /\ UNCHANGED <<server, trusted>>

TheBlob == home.blobs[run.version]

\* RemoveAll, then MkdirAll: of the old tree nothing is left, or, as the error
\* is ignored, what could not be removed.
RemoveDist ==
    /\ run.pc = "remove"
    /\ \E left \in SUBSET home.dist[run.version] :
         /\ IF left = {} THEN UNCHANGED count ELSE Incident("locked")
         /\ home' = [home EXCEPT !.dist[run.version] = left, !.torn = @ \cup {run.version}]
         /\ run' = [run EXCEPT !.pc = "extract", !.left = left]
    /\ UNCHANGED <<server, trusted>>

\* A faulty variant: a file that is already there is left as it is.
WrittenOnce(tree, e) ==
    IF e.kind # "file" \/ \E f \in tree : f[1] = e.name THEN tree
    ELSE tree \cup {<<e.name, e.data>>}

\* tarx.Extract writes one regular file after the other, over one of the same
\* name, and passes over whatever else there is.
Written(tree, e) ==
    IF e.kind # "file" THEN tree
    ELSE {f \in tree : f[1] # e.name} \cup {<<e.name, e.data>>}

Extracted(n) ==
    LET tree[i \in 0..Len(Archive[TheBlob])] ==
            IF i = 0 THEN home.dist[run.version]
            ELSE Written(tree[i - 1], Archive[TheBlob][i])
    IN  tree[n]

\* The entries before the first one with an unsafe name.
SafePrefix(b) ==
    CHOOSE n \in 0..Len(Archive[b]) :
        /\ \A i \in 1..n : Archive[b][i].kind = "file" => SafeName(Archive[b][i].name)
        /\ n < Len(Archive[b]) =>
             Archive[b][n + 1].kind = "file" /\ ~SafeName(Archive[b][n + 1].name)

\* The whole archive ...
Extract ==
    /\ run.pc = "extract"
    /\ SafePrefix(TheBlob) = Len(Archive[TheBlob])
    /\ home' = [home EXCEPT !.dist[run.version] = Extracted(Len(Archive[TheBlob])),
                            !.torn = @ \ {run.version}]
    /\ run' = [run EXCEPT !.pc = "flip"]
    /\ UNCHANGED <<server, trusted, count>>

\* ... or an error at the unsafe name, the files before it staying.
ExtractRefuses ==
    /\ run.pc = "extract"
    /\ SafePrefix(TheBlob) < Len(Archive[TheBlob])
    /\ home' = [home EXCEPT !.dist[run.version] = Extracted(SafePrefix(TheBlob))]
    /\ run' = Idle
    /\ UNCHANGED <<server, trusted, count>>

\* The command ends inside RemoveAll ...
RemoveStops ==
    /\ run.pc = "remove"
    /\ Incident("abort")
    /\ \E left \in SUBSET home.dist[run.version] :
         home' = [home EXCEPT !.dist[run.version] = left, !.torn = @ \cup {run.version}]
    /\ run' = Idle
    /\ UNCHANGED <<server, trusted>>

\* ... or between two files of the archive, also because one that could not
\* be removed cannot be written to either.
ExtractStops ==
    /\ run.pc = "extract"
    /\ Incident("abort") \/ (run.left # {} /\ UNCHANGED count)
    /\ \E n \in 0..SafePrefix(TheBlob) :
         home' = [home EXCEPT !.dist[run.version] = Extracted(n)]
    /\ run' = Idle
    /\ UNCHANGED <<server, trusted>>

\* A faulty variant: only a link that exists is moved.
FlipExisting ==
    /\ run.pc = "flip"
    /\ home' = [home EXCEPT !.link = IF @ = None THEN None ELSE run.version]
    /\ run' = [run EXCEPT !.pc = "save"]
    /\ UNCHANGED <<server, trusted, count>>

FlipCurrent ==
    /\ run.pc = "flip"
    /\ home' = [home EXCEPT !.link = run.version]
    /\ run' = [run EXCEPT !.pc = "save"]
    /\ UNCHANGED <<server, trusted, count>>

\* The last three entries of state.History, all that retention looks at.
Pushed(h, v) ==
    LET all == Append(h, v) IN IF Len(all) > 3 THEN Tail(all) ELSE all

\* Save, then pruneOldArtefacts, which takes the .part files of patches from
\* the pruned version along; the key that was presented is the pin now.
SaveAndPrune ==
    /\ run.pc = "save"
    /\ LET h == IF home.current = run.version THEN home.history
                ELSE Pushed(home.history, run.version)
       IN  home' = [pin |-> run.key, current |-> run.version, link |-> home.link, history |-> h,
                    blobs |-> IF Len(h) < 3 THEN home.blobs ELSE [home.blobs EXCEPT ![h[1]] = None],
                    dist |-> home.dist,
                    parts |-> IF Len(h) < 3 THEN home.parts
                              ELSE {p \in home.parts : p.name[1] # h[1]},
                    torn |-> home.torn]
    /\ run' = Idle
    /\ UNCHANGED <<server, trusted, count>>

\* The command ends before the transfer, or in its last steps, also between
\* the renaming of `current' to `previous' and the making of the new link.
Abort ==
    /\ run.pc \in {"headers", "body", "flip", "save"}
    /\ Incident("abort")
    /\ \/ UNCHANGED home
       \/ run.pc = "flip" /\ home' = [home EXCEPT !.link = None]
    /\ run' = Idle
    /\ UNCHANGED <<server, trusted>>

----------------------------------------------------------------------------
(* ota-agent verify: the checks that fail *)

OfflineFailures ==
    {check \in {"current link", "distribution dir"} :
        \/ check = "current link" /\ home.link = None
        \/ check = "distribution dir" /\ home.dist[home.current] = {}}

\* verify goes by the trusted keys alone, not by the pin.
OnlineFailures ==
    LET v == home.current
    IN  IF ~Served(v) THEN {"manifest fetch"}
        ELSE IF ~Verified(json[v], sig[v], key) THEN {"manifest signature"}
        ELSE IF trusted # {} /\ key \notin trusted THEN {"pubkey trusted"}
        ELSE IF home.blobs[v] \notin {None, json[v].blob} THEN {"blob sha256"}
        ELSE {}

Verify(offline) ==
    IF home.current = None THEN {"current version"}
    ELSE OfflineFailures \cup (IF offline THEN {} ELSE OnlineFailures)

AllOK(offline) == Verify(offline) = {}

----------------------------------------------------------------------------
PublishStep == WriteJson \/ WriteSig \/ FanIn
ResignStep == (\E v \in Versions : ResignRead(v)) \/ ResignWrite \/ EndResign
InstallStep ==
    \/ Watch \/ GetHeaders \/ GetBody \/ Refuse
    \/ ApplyPatch \/ DownloadBlob
    \/ RemoveDist \/ Extract \/ ExtractRefuses
    \/ FlipCurrent \/ SaveAndPrune

Next ==
    \/ \E v \in Versions : (\E b \in Blobs : Publish(v, b)) \/ Drop(v) \/ Recover(v)
    \/ PublishStep
    \/ \E k \in Keys : Restart(k)
    \/ BeginResign \/ ResignStep
    \/ \E keys \in SUBSET Keys : SetTrusted(keys)
    \/ InstallStep
    \/ TransferStops \/ RemoveStops \/ ExtractStops \/ Abort

Spec == Init /\ [][Next]_vars

\* A command that has begun goes on, and watch ticks for ever; whether the
\* server's processes go on does not matter.
FairSpec == Spec /\ WF_vars(InstallStep)

----------------------------------------------------------------------------
(* Properties *)

\* What an install is about to record is what a publisher offered: the blob
\* is one published for that version, and the tree is exactly that archive's,
\* plus only what this run's RemoveAll failed to remove and the archive does
\* not overwrite; whether the blob came whole or as a patch, and whatever
\* earlier runs, stopped in the middle of a removal, of an extraction or of a
\* different archive, had left there.
InstalledIsPublished ==
    run.pc = "save" =>
        /\ [version |-> run.version, blob |-> TheBlob] \in published
        /\ home.dist[run.version] =
             TreeOf(TheBlob) \cup {f \in run.left : \A g \in TreeOf(TheBlob) : g[1] # f[1]}

\* The pinned key is only ever replaced by one that the user trusts by name:
\* neither a rotated server key nor a manifest signed by it does it alone
\* (checkTrust, and the assignment of ServerPubKeyHX after every install).
PinChangesAreSanctioned ==
    [][home.pin # None /\ home'.pin # home.pin => home'.pin \in trusted]_vars

\* While nobody is between its two writes, the two files of a manifest fit
\* each other and the server's key, unless a new key, a restart between the
\* writes or a resign that overlapped a rewrite has come since they were
\* last written.
SignedUnlessSpoiled ==
    pub.pc # "sig" =>
        \A v \in Versions \ spoiled :
            json[v] # None => Verified(json[v], sig[v], key)

\* verify's complaint about the hash of the saved blob is never about the
\* client's disk: the version was published with another content since.
BlobMismatchMeansRepublished ==
    home.current # None /\ "blob sha256" \in Verify(FALSE) =>
        \E r, s \in published : r.version = home.current /\ s.version = home.current /\ r # s

\* A manifest that cannot be fetched was there once and has been dropped; one
\* with a bad signature is outdated by an incident, or its publisher is just
\* between the two writes.
ManifestAlarmIsReal ==
    /\ home.current # None /\ "manifest fetch" \in Verify(FALSE) =>
         "drop" \in count.incidents
    /\ home.current # None /\ "manifest signature" \in Verify(FALSE) =>
         home.current \in spoiled \/ (pub.pc = "sig" /\ pub.version = home.current)

\* An empty distribution directory is that of an archive without files, or of
\* a version whose reinstall removed the tree and did not extract it to the
\* end; the current link is missing only after a command that was cut off.
OfflineAlarmIsReal ==
    home.current # None =>
        /\ "distribution dir" \in Verify(TRUE) =>
             \/ home.current \in home.torn
             \/ \E r \in published : r.version = home.current /\ TreeOf(r.blob) = {}
        /\ "current link" \in Verify(TRUE) => "abort" \in count.incidents

\* The checks of ota-agent verify that fail on a home directory that the agent
\* alone has written have these causes and no other, whatever was installed,
\* recovered, republished and cut off.  Two checks are not spoken of: "pubkey
\* trusted" is by definition about the user's own list, and "current version"
\* about a client without one.  The statement is of one instant and for
\* releases that anyone may see: verify sends no bearer, so of a classified
\* release it never gets the manifest.
AlarmsAreReal ==
    BlobMismatchMeansRepublished /\ ManifestAlarmIsReal /\ OfflineAlarmIsReal

Latest == Head(rows)

UpToDate ==
    \/ rows = <<>>
    \/ /\ home.current = Latest.version
       /\ home.link = Latest.version
       /\ home.dist[Latest.version] = TreeOf(Latest.blob)

\* Why an agent may stay behind: it is refused the manifest, or the archive.
Refused ==
    LET v == Latest.version
    IN  \/ ~Served(v)
        \/ ~Verified(json[v], sig[v], key)
        \/ ~CheckTrust(key)
        \/ SafePrefix(Latest.blob) < Len(Archive[Latest.blob])

\* The patch it would pick was deleted by a drop, or was built on another
\* content of the version it has.
PatchUnusable ==
    \E p \in PickPatch(json[Latest.version]) :
        p.patch \notin patches \/ ~Applies(p.patch, json[Latest.version])

\* The download it needs has left a .part file that is as long as what it is
\* to become: a command stopped between the last byte and the rename, or the
\* .part file of a longer content, published under the same version before.
Wedged ==
    LET v == Latest.version
        man == json[v]
    IN  \/ PickPatch(man) = {} /\ Stuck(<<None, v>>, man.blob)
        \/ \E p \in PickPatch(man) : Stuck(<<p.from, v>>, p.patch)

\* An agent that watches gets the latest release again and again, after any
\* crash, rotation or interrupted run, resumed download or hash mismatch,
\* unless the server cannot serve it, the user does not trust the key, or the
\* archive or the patch is bad, or the agent is wedged by a complete .part
\* file: that one no retry ever gets over (transport.go:467).
UpgradesArrive ==
    []<>(UpToDate \/ Refused \/ Wedged \/ PatchUnusable)

\* The same without the last reason: a patch that cannot be had is made up
\* for by the full blob.
FullBlobFallback == []<>(UpToDate \/ Refused \/ Wedged)

=============================================================================
