--------------------------- MODULE DeliveryProofs ---------------------------
(* Proofs about Delivery for any keys, versions, archives and bounds.       *)
EXTENDS Delivery, DataLemmas, FiniteSetTheorems, SequenceTheorems, TLAPS

\* A directory has its fields: enough of a type to see which of them a step
\* leaves alone.
HomeShape ==
    /\ DOMAIN home = {"pin", "current", "link", "history", "blobs", "dist", "parts", "torn"}
    /\ home = [f \in DOMAIN home |-> home[f]]

\* The key of a run that is past its checks is one they accept; neither the
\* pin nor the trusted keys change before that run ends.
KeyAccepted ==
    run.pc \in {"remove", "extract", "flip", "save"} => CheckTrust(run.key)

PinInv == HomeShape /\ KeyAccepted

\* The two halves of a step.
ServerStep ==
    \/ \E v \in Versions : (\E b \in Blobs : Publish(v, b)) \/ Drop(v)
    \/ PublishStep
    \/ \E k \in Keys : Restart(k)
    \/ BeginResign \/ ResignStep

ClientStep ==
    \/ \E v \in Versions : Recover(v)
    \/ \E keys \in SUBSET Keys : SetTrusted(keys)
    \/ InstallStep \/ TransferStops \/ RemoveStops \/ ExtractStops \/ Abort

\* Every step is one of the server or one of the client machine.
LEMMA StepIsOneSided == Next => ServerStep \/ ClientStep
  BY DEF Next, ServerStep, ClientStep

\* What the server does leaves the client alone.
LEMMA ServerStepsKeepClient ==
    ASSUME ServerStep
    PROVE  UNCHANGED <<home, run, trusted>>
BY DEF ServerStep, Publish, Drop, PublishStep, WriteJson, WriteSig, FanIn, Restart, BeginResign,
       ResignStep, ResignRead, ResignWrite, EndResign

\* Steps that begin a command, end it or go on before its checks.
LEMMA EarlyStepsKeepPin ==
    ASSUME PinInv,
           \/ \E v \in Versions : Recover(v)
           \/ Watch \/ GetHeaders \/ GetBody \/ Refuse \/ Abort
           \/ \E keys \in SUBSET Keys : SetTrusted(keys)
    PROVE  PinInv' /\ home'.pin = home.pin
<1>1. CASE Watch \/ \E v \in Versions : Recover(v)
      BY <1>1 DEF PinInv, HomeShape, KeyAccepted, Watch, Recover, Begin, Locals
<1>2. CASE GetHeaders \/ GetBody
      BY <1>2 DEF PinInv, HomeShape, KeyAccepted, GetHeaders, GetBody, Idle, Locals
<1>3. CASE Refuse
      BY <1>3 DEF PinInv, HomeShape, KeyAccepted, Refuse, Fail, Idle, Locals
<1>4. CASE Abort
  <2>1. run' = Idle /\ (home' = home \/ home' = [home EXCEPT !.link = None])
      BY <1>4 DEF Abort
  <2> QED BY <2>1 DEF PinInv, HomeShape, KeyAccepted, Idle, Locals
<1>5. CASE \E keys \in SUBSET Keys : SetTrusted(keys)
      BY <1>5 DEF PinInv, HomeShape, KeyAccepted, SetTrusted
<1> QED BY <1>1, <1>2, <1>3, <1>4, <1>5

\* Storing a blob for a key that was accepted.
LEMMA StoreKeepsPin ==
    ASSUME PinInv, NEW b, NEW names, StoreBlob(b, names), CheckTrust(run.key)
    PROVE  PinInv' /\ home'.pin = home.pin
<1>1. HomeShape' /\ home'.pin = home.pin
      BY DEF PinInv, HomeShape, StoreBlob
<1>2. run'.key = run.key /\ trusted' = trusted
      BY DEF StoreBlob, Locals
<1> QED BY <1>1, <1>2 DEF PinInv, KeyAccepted, CheckTrust

\* A command that ends with no more than other .part files.
LEMMA PartsKeepPin ==
    ASSUME PinInv, NEW parts, home' = [home EXCEPT !.parts = parts], run' = Idle
    PROVE  PinInv' /\ home'.pin = home.pin
  BY DEF PinInv, HomeShape, KeyAccepted, Idle, Locals

\* The transfer, from a patch or whole, done or cut off.
LEMMA TransferKeepsPin ==
    ASSUME PinInv, ApplyPatch \/ DownloadBlob \/ TransferStops
    PROVE  PinInv' /\ home'.pin = home.pin
<1>1. CheckTrust(run.key) BY DEF ApplyPatch, DownloadBlob, TransferStops, Acceptable
<1>2. CASE Fail
      BY <1>2 DEF Fail, PinInv, HomeShape, KeyAccepted, Idle, Locals
<1>3. CASE \E b, names : StoreBlob(b, names)
      BY <1>1, <1>3, StoreKeepsPin
<1>4. CASE \E name : FailWithout(name)
      BY <1>4, PartsKeepPin DEF FailWithout
<1>5. CASE TransferStops
  <2>1. run' = Idle /\ \E parts : home' = [home EXCEPT !.parts = parts]
      BY <1>5 DEF TransferStops
  <2> QED BY <2>1, PartsKeepPin
<1>6. CASE ApplyPatch \/ DownloadBlob
  <2>1. Fail \/ (\E name : FailWithout(name)) \/ \E b, names : StoreBlob(b, names)
      BY <1>6 DEF ApplyPatch, DownloadBlob
  <2> QED BY <1>2, <1>3, <1>4, <2>1
<1> QED BY <1>5, <1>6

\* Removal, extraction and flip, finished or cut off.
LEMMA ExtractKeepsPin ==
    ASSUME PinInv,
           RemoveDist \/ Extract \/ ExtractRefuses \/ RemoveStops \/ ExtractStops \/ FlipCurrent
    PROVE  PinInv' /\ home'.pin = home.pin
<1>1. ASSUME NEW tree, NEW torn,
             \/ home' = [home EXCEPT !.dist[run.version] = tree, !.torn = torn]
             \/ home' = [home EXCEPT !.dist[run.version] = tree]
             \/ home' = [home EXCEPT !.link = run.version]
      PROVE  HomeShape' /\ home'.pin = home.pin
      BY <1>1 DEF PinInv, HomeShape
<1>2. \E tree, torn :
        \/ home' = [home EXCEPT !.dist[run.version] = tree, !.torn = torn]
        \/ home' = [home EXCEPT !.dist[run.version] = tree]
        \/ home' = [home EXCEPT !.link = run.version]
  <2>1. CASE Extract \/ ExtractRefuses \/ ExtractStops \/ FlipCurrent
      BY <2>1 DEF Extract, ExtractRefuses, ExtractStops, FlipCurrent
  <2>2. CASE RemoveDist
      BY <2>2 DEF RemoveDist
  <2>3. CASE RemoveStops
      BY <2>3 DEF RemoveStops
  <2> QED BY <2>1, <2>2, <2>3
<1>3. HomeShape' /\ home'.pin = home.pin
      BY <1>1, <1>2
<1>4. CASE run' = Idle
      BY <1>3, <1>4 DEF PinInv, KeyAccepted, Idle, Locals
<1>5. CASE RemoveDist \/ Extract \/ FlipCurrent
  <2>1. CASE RemoveDist
    <3>1. PICK left : run' = [run EXCEPT !.pc = "extract", !.left = left]
      BY <2>1 DEF RemoveDist
    <3>2. run'.key = run.key
      BY <3>1
    <3> QED BY <1>3, <2>1, <3>2 DEF PinInv, KeyAccepted, CheckTrust, RemoveDist
  <2>2. CASE Extract \/ FlipCurrent
    <3>1. trusted' = trusted /\ run.pc \in {"extract", "flip"} /\ \E pc : run' = [run EXCEPT !.pc = pc]
      BY <2>2 DEF Extract, FlipCurrent
    <3>2. run'.key = run.key
      BY <3>1
    <3> QED BY <3>2, <1>3, <3>1 DEF PinInv, KeyAccepted, CheckTrust
  <2> QED BY <1>5, <2>1, <2>2
<1> QED BY <1>4, <1>5 DEF RemoveStops, ExtractStops, ExtractRefuses

\* The save, which replaces the pin by the accepted key.
LEMMA SaveSetsPin ==
    ASSUME PinInv, SaveAndPrune
    PROVE  /\ PinInv'
           /\ home.pin # None /\ home'.pin # home.pin => home'.pin \in trusted
<1>1. home'.pin = run.key /\ CheckTrust(run.key)
      BY DEF PinInv, KeyAccepted, SaveAndPrune
<1>2. HomeShape'
      BY DEF SaveAndPrune, HomeShape
<1>3. KeyAccepted'
      BY DEF SaveAndPrune, KeyAccepted, Idle, Locals
<1> QED BY <1>1, <1>2, <1>3 DEF PinInv, CheckTrust

\* Every step keeps the invariant and the pin, unless the user trusts the new
\* key by name.
LEMMA NextKeepsPin ==
    ASSUME PinInv, [Next]_vars
    PROVE  /\ PinInv'
           /\ home.pin # None /\ home'.pin # home.pin => home'.pin \in trusted
<1>1. CASE UNCHANGED <<home, run, trusted>>
      BY <1>1 DEF PinInv, HomeShape, KeyAccepted, CheckTrust
<1>2. CASE \/ \E v \in Versions : Recover(v)
           \/ Watch \/ GetHeaders \/ GetBody \/ Refuse \/ Abort
           \/ \E keys \in SUBSET Keys : SetTrusted(keys)
      BY <1>2, EarlyStepsKeepPin
<1>3. CASE ApplyPatch \/ DownloadBlob \/ TransferStops
      BY <1>3, TransferKeepsPin
<1>4. CASE RemoveDist \/ Extract \/ ExtractRefuses \/ RemoveStops \/ ExtractStops \/ FlipCurrent
      BY <1>4, ExtractKeepsPin
<1>5. CASE SaveAndPrune
      BY <1>5, SaveSetsPin
<1> QED BY <1>1, <1>2, <1>3, <1>4, <1>5, ServerStepsKeepClient, StepIsOneSided
       DEF ClientStep, InstallStep, vars

\* No rotation, resign, republication or interrupted command makes a client
\* replace its pinned key by one that is not in OTA_TRUSTED_PUBKEYS.
THEOREM PinIsSanctioned == Spec => PinChangesAreSanctioned
<1>1. Init => PinInv
  <2> SUFFICES ASSUME Init PROVE PinInv
      OBVIOUS
  <2>1. home = [pin |-> None, current |-> None, link |-> None, history |-> <<>>,
                blobs |-> [v \in Versions |-> None], dist |-> [v \in Versions |-> {}],
                parts |-> {}, torn |-> {}]
      BY DEF Init
  <2>2. HomeShape
      BY <2>1 DEF HomeShape
  <2>3. run.pc = "idle"
      BY DEF Init, Idle, Locals
  <2> QED BY <2>2, <2>3 DEF PinInv, KeyAccepted
<1>2. PinInv /\ [Next]_vars => PinInv'
      BY NextKeepsPin
<1>3. PinInv /\ [Next]_vars =>
        [home.pin # None /\ home'.pin # home.pin => home'.pin \in trusted]_vars
      BY NextKeepsPin
<1> QED BY <1>1, <1>2, <1>3, PTL DEF Spec, PinChangesAreSanctioned

----------------------------------------------------------------------------
(* Extraction *)

\* The regular files among the first n entries, and what they make: of each
\* name the last.
FilesUpTo(b, n) == {i \in 1..n : Archive[b][i].kind = "file"}
LastsUpTo(b, n) ==
    {j \in FilesUpTo(b, n) :
        \A k \in FilesUpTo(b, n) : k > j => Archive[b][k].name # Archive[b][j].name}
TreeUpTo(b, n) == {<<Archive[b][i].name, Archive[b][i].data>> : i \in LastsUpTo(b, n)}

\* An archive is a finite sequence of entries.
LEMMA ArchiveLength ==
    ASSUME NEW b \in Blobs
    PROVE  Len(Archive[b]) \in Nat /\ DOMAIN Archive[b] = 1..Len(Archive[b])
  BY ArchiveAssumption

\* An entry is written over the file of its name, or passed over.
LEMMA TreeGrows ==
    ASSUME NEW b \in Blobs, NEW n \in Nat, n > 0
    PROVE  TreeUpTo(b, n) = Written(TreeUpTo(b, n - 1), Archive[b][n])
<1> DEFINE A == Archive[b]
<1>1. n - 1 \in Nat /\ 1..n = (1..(n - 1)) \cup {n} /\ n \notin 1..(n - 1)
  OBVIOUS
<1>2. CASE A[n].kind # "file"
  <2>1. FilesUpTo(b, n) = FilesUpTo(b, n - 1)
    BY <1>1, <1>2 DEF FilesUpTo
  <2>2. QED
    BY <1>2, <2>1 DEF TreeUpTo, LastsUpTo, Written
<1>3. CASE A[n].kind = "file"
  <2>1. FilesUpTo(b, n) = FilesUpTo(b, n - 1) \cup {n}
    BY <1>1, <1>3 DEF FilesUpTo
  <2>2. \A i \in FilesUpTo(b, n - 1) : i \in Nat /\ n > i
    BY DEF FilesUpTo
  <2>3. LastsUpTo(b, n) = {j \in LastsUpTo(b, n - 1) : A[j].name # A[n].name} \cup {n}
    <3>1. ASSUME NEW j \in LastsUpTo(b, n) PROVE j = n \/ (j \in LastsUpTo(b, n - 1) /\ A[j].name # A[n].name)
      BY <2>1, <2>2 DEF LastsUpTo
    <3>2. ASSUME NEW j \in LastsUpTo(b, n - 1), A[j].name # A[n].name PROVE j \in LastsUpTo(b, n)
      BY <2>1, <2>2, <3>2 DEF LastsUpTo
    <3>3. n \in LastsUpTo(b, n)
      BY <2>1, <2>2 DEF LastsUpTo
    <3>4. QED
      BY <3>1, <3>2, <3>3
  <2> DEFINE t == TreeUpTo(b, n - 1)
             e == <<A[n].name, A[n].data>>
  <2>4. ASSUME NEW f \in TreeUpTo(b, n) PROVE f \in {g \in t : g[1] # A[n].name} \cup {e}
    <3>1. PICK i \in LastsUpTo(b, n) : f = <<A[i].name, A[i].data>>
      BY DEF TreeUpTo
    <3>2. QED
      BY <2>3, <3>1 DEF TreeUpTo
  <2>5. ASSUME NEW f \in {g \in t : g[1] # A[n].name} \cup {e} PROVE f \in TreeUpTo(b, n)
    <3>1. CASE f = e
      BY <2>3, <3>1 DEF TreeUpTo
    <3>2. CASE f \in t /\ f[1] # A[n].name
      <4>1. PICK i \in LastsUpTo(b, n - 1) : f = <<A[i].name, A[i].data>>
        BY <3>2 DEF TreeUpTo
      <4>2. A[i].name # A[n].name
        BY <3>2, <4>1
      <4>3. QED
        BY <2>3, <4>1, <4>2 DEF TreeUpTo
    <3>3. QED
      BY <3>1, <3>2
  <2>6. TreeUpTo(b, n) = {g \in t : g[1] # A[n].name} \cup {e}
    BY <2>4, <2>5
  <2>7. QED
    BY <1>3, <2>6 DEF Written
<1>4. QED
  BY <1>2, <1>3

\* A tree over what was there before: what it does not overwrite stays.
Over(tree, left) == tree \cup {f \in left : \A g \in tree : g[1] # f[1]}

\* Writing an entry over a tree that covers others covers them likewise.
LEMMA WrittenOver ==
    ASSUME NEW tree, NEW left, NEW e
    PROVE  Written(Over(tree, left), e) = Over(Written(tree, e), left)
<1>1. CASE e.kind # "file"
  BY <1>1 DEF Written
<1>2. CASE e.kind = "file"
  <2> DEFINE x == <<e.name, e.data>>
             kept == {f \in tree : f[1] # e.name}
             new == kept \cup {x}
  <2>1. x[1] = e.name
    OBVIOUS
  <2>2. Written(Over(tree, left), e) = {f \in Over(tree, left) : f[1] # e.name} \cup {x}
    BY <1>2 DEF Written
  <2>3. Written(tree, e) = new
    BY <1>2 DEF Written
  <2> HIDE DEF x
  <2>4. ASSUME NEW f PROVE (f \in left /\ (\A g \in tree : g[1] # f[1]) /\ f[1] # e.name)
                            => (f \in left /\ \A g \in new : g[1] # f[1])
    BY <2>1
  <2>5. ASSUME NEW f PROVE (f \in left /\ \A g \in new : g[1] # f[1])
                            => (f \in left /\ (\A g \in tree : g[1] # f[1]) /\ f[1] # e.name)
    BY <2>1
  <2>6. {f \in Over(tree, left) : f[1] # e.name} \cup {x} = Over(new, left)
    BY <2>4, <2>5 DEF Over
  <2>7. QED
    BY <2>2, <2>3, <2>6
<1>3. QED
  BY <1>1, <1>2

\* tarx.Extract, which writes entry by entry, makes that tree over what is
\* there.  Both satisfy the same recursion, and at the least entry where they
\* differ it says that they agree.
LEMMA ExtractedIsTree ==
    ASSUME NEW n \in 0..Len(Archive[TheBlob]), TheBlob \in Blobs
    PROVE  Extracted(n) = Over(TreeUpTo(TheBlob, n), home.dist[run.version])
<1> DEFINE b == TheBlob
           A == Archive[b]
           L == Len(A)
           S == home.dist[run.version]
           F(t) == [i \in 0..L |-> IF i = 0 THEN S ELSE Written(t[i - 1], A[i])]
           tree == CHOOSE t : t = F(t)
           w == [i \in 0..L |-> Over(TreeUpTo(b, i), S)]
<1>1. L \in Nat
  BY ArchiveLength
<1>2. Extracted(n) = tree[n]
  BY DEF Extracted
<1>3. Over(TreeUpTo(b, 0), S) = S
  <2>1. FilesUpTo(b, 0) = {}
    BY DEF FilesUpTo
  <2>2. TreeUpTo(b, 0) = {}
    BY <2>1 DEF TreeUpTo, LastsUpTo
  <2>3. QED
    BY <2>2 DEF Over
<1> HIDE DEF b, A, L, S
<1>4. w = F(w)
  <2>1. ASSUME NEW i \in 0..L, i # 0 PROVE w[i] = Written(w[i - 1], A[i])
    <3>1. i \in Nat /\ i > 0 /\ i - 1 \in 0..L
      BY <1>1, <2>1
    <3>2. TreeUpTo(b, i) = Written(TreeUpTo(b, i - 1), A[i])
      BY <3>1, TreeGrows DEF b, A
    <3>3. Over(TreeUpTo(b, i), S) = Written(Over(TreeUpTo(b, i - 1), S), A[i])
      BY <3>2, WrittenOver
    <3>4. QED
      BY <3>1, <3>3
  <2>2. \A i \in 0..L : w[i] = F(w)[i]
    BY <1>1, <1>3, <2>1
  <2>3. QED
    BY <2>2
<1>5. tree = F(tree)
  BY <1>4
<1> HIDE DEF tree
<1>6. \A i \in 0..L : tree[i] = w[i]
  <2> DEFINE D == {i \in 0..L : tree[i] # w[i]}
  <2> SUFFICES ASSUME D # {} PROVE FALSE
    OBVIOUS
  <2>1. D \in SUBSET Nat
    BY <1>1
  <2>2. PICK m \in D : \A k \in D : m <= k
    BY <2>1, LeastNumber
  <2>3. m \in 0..L /\ tree[m] # w[m]
    BY <2>2
  <2>4. m # 0
    BY <1>1, <1>4, <1>5, <2>3
  <2>5. m - 1 \in 0..L /\ ~ (m <= m - 1)
    BY <1>1, <2>3, <2>4
  <2>6. tree[m - 1] = w[m - 1]
    BY <2>2, <2>5
  <2>7. tree[m] = Written(tree[m - 1], A[m])
    BY <1>5, <2>3, <2>4
  <2>8. w[m] = Written(w[m - 1], A[m])
    BY <1>4, <2>3, <2>4
  <2>9. QED
    BY <2>3, <2>6, <2>7, <2>8
<1>7. n \in 0..L
  BY DEF L, A, b
<1>8. QED
  BY <1>2, <1>6, <1>7 DEF b, S

\* Extracting all the entries of an archive gives the whole of its tree.
LEMMA WholeTree ==
    ASSUME NEW b \in Blobs
    PROVE  TreeUpTo(b, Len(Archive[b])) = TreeOf(b)
  BY ArchiveLength DEF TreeUpTo, LastsUpTo, FilesUpTo, TreeOf

\* What any number of entries extracts to, over files, is a set of files.
LEMMA TreeTypes ==
    ASSUME NEW b \in Blobs, NEW n \in 0..Len(Archive[b])
    PROVE  TreeUpTo(b, n) \in SUBSET File
<1>1. Len(Archive[b]) \in Nat /\ DOMAIN Archive[b] = 1..Len(Archive[b])
  BY ArchiveLength
<1>2. 1..n \subseteq DOMAIN Archive[b] /\ LastsUpTo(b, n) \subseteq 1..n
  BY <1>1 DEF LastsUpTo, FilesUpTo
<1>3. \A i \in LastsUpTo(b, n) : Archive[b][i] \in Entries
  BY <1>2 DEF Entries
<1>4. QED
  BY <1>3 DEF TreeUpTo, File

\* The same of the tree on disk, in the middle of an extraction too.
LEMMA ExtractedTypes ==
    ASSUME NEW n \in 0..Len(Archive[TheBlob]), TheBlob \in Blobs,
           home.dist[run.version] \in SUBSET File
    PROVE  Extracted(n) \in SUBSET File
<1>1. TreeUpTo(TheBlob, n) \in SUBSET File
  BY TreeTypes
<1>2. QED
  BY <1>1, ExtractedIsTree DEF Over

\* The entries up to the first with an unsafe name: there is such a place.
LEMMA SafePrefixType ==
    ASSUME NEW b \in Blobs
    PROVE  SafePrefix(b) \in 0..Len(Archive[b])
<1> DEFINE A == Archive[b]
           L == Len(A)
           bad(i) == A[i].kind = "file" /\ ~ SafeName(A[i].name)
           B == {i \in 1..L : bad(i)}
           P(n) == /\ \A i \in 1..n : A[i].kind = "file" => SafeName(A[i].name)
                   /\ n < L => A[n + 1].kind = "file" /\ ~SafeName(A[n + 1].name)
<1>1. L \in Nat
  BY ArchiveLength
<1>2. \E n \in 0..L : P(n)
  <2> HIDE DEF A, L
  <2>1. CASE B = {}
    <3>1. P(L)
      BY <1>1, <2>1
    <3>2. QED
      BY <1>1, <3>1
  <2>2. CASE B # {}
    <3>1. PICK m \in B : \A k \in B : m <= k
      <4>1. B \in SUBSET Nat
        BY <1>1
      <4>2. QED
        BY <2>2, <4>1, LeastNumber
    <3>2. m \in 1..L /\ m - 1 \in 0..L /\ m - 1 + 1 = m
      BY <1>1
    <3>3. \A i \in 1..(m - 1) : i \in 1..L /\ ~ (m <= i)
      BY <1>1, <3>2
    <3>4. P(m - 1)
      BY <3>1, <3>2, <3>3
    <3>5. QED
      BY <3>2, <3>4
  <2>3. QED
    BY <2>1, <2>2
<1>3. SafePrefix(b) = CHOOSE n \in 0..L : P(n)
  BY DEF SafePrefix
<1> HIDE DEF P, L
<1>4. QED
  BY <1>2, <1>3 DEF L

\* What Extract makes of an archive without unsafe names, for any archive and
\* any files in the directory before: the tree of its regular files, of each
\* name the last, over those of the old files that it does not name.
THEOREM ExtractMakesTheTree ==
    ASSUME TheBlob \in Blobs
    PROVE  Extracted(Len(Archive[TheBlob])) =
             TreeOf(TheBlob) \cup {f \in home.dist[run.version] :
                                    \A g \in TreeOf(TheBlob) : g[1] # f[1]}
<1>1. Len(Archive[TheBlob]) \in 0..Len(Archive[TheBlob])
  BY ArchiveLength
<1>2. QED
  BY <1>1, ExtractedIsTree, WholeTree DEF Over

----------------------------------------------------------------------------
(* The invariants *)

Kinds == {"drop", "restart", "resign", "trust", "recover", "locked", "abort"}

CountOK == count \in [publishes : 0..MaxPublishes, incidents : SUBSET Kinds]

\* The types of the server's state; whoever is at work has what its next step
\* uses.
ServerTypes ==
    /\ key \in Keys
    /\ rows \in Seq(Row)
    /\ \A i, j \in DOMAIN rows : rows[i].version = rows[j].version => i = j
    /\ json \in [Versions -> Maybe(Manifest)]
    /\ sig \in [Versions -> Maybe(Signature)]
    /\ patches \subseteq Patch
    /\ pub \in Handlers
    /\ pub.pc # "idle" => pub.version \in Versions /\ pub.blob \in Blobs
    /\ resign \in Resigners
    /\ resign.todo # {} => resign.by \in Keys
    /\ resign.version # None => resign.by \in Keys /\ resign.bytes \in Manifest
    /\ published \subseteq Row
    /\ spoiled \subseteq Versions

\* The same of the client's.
ClientTypes ==
    /\ trusted \subseteq Keys
    /\ home \in Homes
    /\ run \in Runs
    /\ run.pc # "idle" => run.version \in Versions
    /\ run.pc \in {"body", "transfer"} => run.key \in Keys /\ run.sig \in Signature
    /\ run.pc = "transfer" => run.man \in Manifest
    /\ run.pc \in {"remove", "extract", "flip", "save"} =>
         run.key \in Keys /\ home.blobs[run.version] \in Blobs

TypeInv == ServerTypes /\ ClientTypes /\ CountOK

\* The two files of a manifest fit, but for the one that the handler is
\* between writing; and what it is about to sign is what it wrote.
Signed ==
    /\ pub.pc = "sig" => json[pub.version] = TheManifest
    /\ \A v \in Versions \ spoiled :
         json[v] # None /\ ~ (pub.pc = "sig" /\ pub.version = v) =>
            Verified(json[v], sig[v], key)

\* A blob is spoken of, or kept, for a version it was published as: by the
\* server, and by the client.
ManifestsSourced ==
    /\ pub.pc # "idle" => [version |-> pub.version, blob |-> pub.blob] \in published
    /\ \A v \in Versions :
         json[v] # None => [version |-> v, blob |-> json[v].blob] \in published

ClientSourced ==
    /\ run.pc = "transfer" =>
         [version |-> run.version, blob |-> run.man.blob] \in published
    /\ \A v \in Versions :
         home.blobs[v] # None => [version |-> v, blob |-> home.blobs[v]] \in published

Sourced == ManifestsSourced /\ ClientSourced

\* What a removal left is what the extraction begins with; what that makes of
\* it stays until the save.
Unpacked ==
    /\ run.pc = "extract" =>
         home.dist[run.version] = run.left /\ run.version \in home.torn
    /\ run.pc \in {"flip", "save"} =>
         home.dist[run.version] = Over(TreeOf(home.blobs[run.version]), run.left)

\* A recorded version has files, unless its archive has none or a removal of
\* its tree has not been followed by a whole extraction.
Emptied(v) ==
    \/ v \in home.torn
    \/ \E r \in published : r.version = v /\ TreeOf(r.blob) = {}

Filled == home.current # None => home.dist[home.current] # {} \/ Emptied(home.current)

\* It has its link, and what is recorded or being installed can be fetched,
\* unless these incidents have come.
Linked ==
    (home.current # None \/ run.pc = "save") /\ home.link = None =>
        "abort" \in count.incidents

Fetchable ==
    "drop" \notin count.incidents =>
        /\ home.current # None => Served(home.current)
        /\ run.pc \notin {"idle", "headers"} => Served(run.version)

----------------------------------------------------------------------------
(* Rows *)

\* The newest release comes first.
LEMMA Prepended ==
    ASSUME NEW S, NEW s \in Seq(S), NEW e \in S
    PROVE  /\ <<e>> \o s \in Seq(S)
           /\ Len(<<e>> \o s) = Len(s) + 1
           /\ (<<e>> \o s)[1] = e
           /\ \A i \in 1..Len(s) : (<<e>> \o s)[i + 1] = s[i]
OBVIOUS

\* Removing one element of a sequence keeps its type and closes the gap.
LEMMA Removed ==
    ASSUME NEW S, NEW s \in Seq(S), NEW k \in 1..Len(s)
    PROVE  /\ RemoveAt(s, k) \in Seq(S)
           /\ Len(RemoveAt(s, k)) = Len(s) - 1
           /\ \A i \in 1..(Len(s) - 1) :
                RemoveAt(s, k)[i] = IF i < k THEN s[i] ELSE s[i + 1]
<1> DEFINE a == SubSeq(s, 1, k - 1)
           b == SubSeq(s, k + 1, Len(s))
<1>1. Len(s) \in Nat /\ k \in Nat
  OBVIOUS
<1>2. a \in Seq(S) /\ Len(a) = k - 1 /\ \A i \in 1..(k - 1) : a[i] = s[i]
  BY <1>1
<1>3. b \in Seq(S) /\ Len(b) = Len(s) - k /\ \A i \in 1..(Len(s) - k) : b[i] = s[k + i]
  BY <1>1
<1> HIDE DEF a, b
<1>4. RemoveAt(s, k) = a \o b
  BY DEF RemoveAt, a, b
<1>5. /\ a \o b \in Seq(S) /\ Len(a \o b) = Len(s) - 1
      /\ \A i \in 1..(Len(s) - 1) : (a \o b)[i] = IF i <= k - 1 THEN a[i] ELSE b[i - (k - 1)]
  <2>1. /\ a \o b \in Seq(S) /\ Len(a \o b) = Len(a) + Len(b)
        /\ \A i \in 1..(Len(a) + Len(b)) :
             (a \o b)[i] = IF i <= Len(a) THEN a[i] ELSE b[i - Len(a)]
    BY <1>2, <1>3, ConcatProperties
  <2>2. Len(a) + Len(b) = Len(s) - 1
    BY <1>1, <1>2, <1>3
  <2>3. QED
    BY <1>2, <2>1, <2>2
<1>6. ASSUME NEW i \in 1..(Len(s) - 1)
      PROVE  (a \o b)[i] = IF i < k THEN s[i] ELSE s[i + 1]
  <2>1. CASE i < k
    BY <1>1, <1>2, <1>5, <2>1
  <2>2. CASE ~ (i < k)
    <3>1. i - (k - 1) \in 1..(Len(s) - k) /\ k + (i - (k - 1)) = i + 1
      BY <1>1, <2>2
    <3>2. QED
      BY <1>1, <1>3, <1>5, <2>2, <3>1
  <2>3. QED
    BY <2>1, <2>2
<1>7. QED
  BY <1>4, <1>5, <1>6

----------------------------------------------------------------------------
(* Types: the server *)

\* What the constructor of a publish request returns, field by field.
LEMMA HandlerType ==
    ASSUME NEW pc \in {"idle", "json", "sig", "patches"}, NEW v \in Maybe(Versions),
           NEW b \in Maybe(Blobs), NEW in \in SUBSET [from : Versions, patch : Patch]
    PROVE  /\ Handler(pc, v, b, in) \in Handlers
           /\ Handler(pc, v, b, in).pc = pc /\ Handler(pc, v, b, in).version = v
           /\ Handler(pc, v, b, in).blob = b /\ Handler(pc, v, b, in).patches_in = in
  BY DEF Handler, Handlers

\* The server without a publish request.
LEMMA NoPubType == NoPub \in Handlers /\ NoPub.pc = "idle" /\ NoPub.version = None
  BY DEF NoPub, Handler, Handlers, Maybe

\* What the constructor of a resign run returns, field by field.
LEMMA ResignerType ==
    ASSUME NEW todo \in SUBSET Versions, NEW k \in Maybe(Keys),
           NEW v \in Maybe(Versions), NEW man \in Maybe(Manifest)
    PROVE  /\ Resigner(todo, k, v, man) \in Resigners
           /\ Resigner(todo, k, v, man).todo = todo /\ Resigner(todo, k, v, man).by = k
           /\ Resigner(todo, k, v, man).version = v /\ Resigner(todo, k, v, man).bytes = man
  BY DEF Resigner, Resigners

\* The server without a resign run.
LEMMA NoResignType ==
    NoResign \in Resigners /\ NoResign.todo = {} /\ NoResign.version = None
  BY DEF NoResign, Resigner, Resigners, Maybe

\* The next value of `pc' alone.
LEMMA PubMoves ==
    ASSUME ServerTypes, NEW pc \in {"json", "sig", "patches"},
           pub' = [pub EXCEPT !.pc = pc]
    PROVE  /\ pub' \in Handlers /\ pub'.pc = pc /\ pub'.version = pub.version
           /\ pub'.blob = pub.blob /\ pub'.patches_in = pub.patches_in
<1>1. pub \in Handlers
  BY DEF ServerTypes
<1>2. QED
  BY <1>1 DEF Handlers

\* A running request writes a well-formed manifest of its own release and blob.
LEMMA ManifestType ==
    ASSUME ServerTypes, CountOK, pub.pc # "idle"
    PROVE  /\ TheManifest \in Manifest
           /\ TheManifest.version = pub.version /\ TheManifest.blob = pub.blob
<1>1. pub.version \in Versions /\ pub.blob \in Blobs
  BY DEF ServerTypes
<1>2. pub.patches_in \in SUBSET [from : Versions, patch : Patch]
  BY DEF ServerTypes, Handlers
<1>3. count.publishes \in 0..MaxPublishes
  BY DEF CountOK
<1>4. QED
  BY <1>1, <1>2, <1>3 DEF TheManifest, Manifest

\* A key and a manifest make a signature.
LEMMA SignatureType ==
    ASSUME NEW k \in Keys, NEW man \in Manifest
    PROVE  [by |-> k, of |-> man] \in Signature
  BY DEF Signature

\* An incident is noted once, and the publish count stays.
LEMMA IncidentCounted ==
    ASSUME CountOK, NEW kind \in Kinds, Incident(kind)
    PROVE  /\ CountOK' /\ count'.publishes = count.publishes
           /\ count'.incidents = count.incidents \cup {kind}
  BY DEF CountOK, Incident

\* Accepting a publication keeps the types of the server.
LEMMA PublishTypes ==
    ASSUME TypeInv, NEW v \in Versions, NEW b \in Blobs, Publish(v, b)
    PROVE  ServerTypes' /\ CountOK'
<1> USE DEF TypeInv
<1> DEFINE r == [version |-> v, blob |-> b]
<1>1. r \in Row /\ r.version = v
  BY DEF Row
<1>2. /\ rows' = <<r>> \o rows /\ published' = published \cup {r}
      /\ pub' = Handler("json", v, b, {}) /\ ~ Listed(v)
      /\ UNCHANGED <<key, json, sig, patches, resign, spoiled>>
  BY DEF Publish
<1> HIDE DEF r
<1>3. rows \in Seq(Row)
  BY DEF ServerTypes
<1>4. /\ rows' \in Seq(Row) /\ Len(rows') = Len(rows) + 1 /\ rows'[1] = r
      /\ \A i \in 1..Len(rows) : rows'[i + 1] = rows[i]
  BY <1>1, <1>2, <1>3, Prepended
<1>5. ASSUME NEW i \in DOMAIN rows', NEW j \in DOMAIN rows', rows'[i].version = rows'[j].version
      PROVE  i = j
  <2>1. DOMAIN rows = 1..Len(rows) /\ Len(rows) \in Nat /\ i \in 1..(Len(rows) + 1) /\ j \in 1..(Len(rows) + 1)
    BY <1>3, <1>4
  <2>2. ASSUME NEW k \in 1..(Len(rows) + 1), k # 1
        PROVE  k - 1 \in DOMAIN rows /\ rows'[k] = rows[k - 1]
    <3>1. k - 1 \in 1..Len(rows) /\ (k - 1) + 1 = k
      BY <2>1, <2>2
    <3>2. QED
      BY <1>4, <2>1, <3>1
  <2>3. \A k \in DOMAIN rows : rows[k].version # v
    BY <1>2 DEF Listed
  <2>4. i = 1 <=> j = 1
    BY <1>1, <1>4, <1>5, <2>1, <2>2, <2>3
  <2>5. CASE i # 1
    <3>1. /\ i - 1 \in DOMAIN rows /\ rows'[i] = rows[i - 1]
          /\ j - 1 \in DOMAIN rows /\ rows'[j] = rows[j - 1]
      BY <2>1, <2>2, <2>4, <2>5
    <3>2. i - 1 = j - 1
      BY <1>5, <3>1 DEF ServerTypes
    <3>3. QED
      BY <2>1, <3>2
  <2>6. QED
    BY <2>4, <2>5
<1>6. {} \in SUBSET [from : Versions, patch : Patch] /\ v \in Maybe(Versions) /\ b \in Maybe(Blobs)
  BY DEF Maybe
<1>7. pub' \in Handlers /\ pub'.version = v /\ pub'.blob = b
  BY <1>2, <1>6, HandlerType
<1>8. CountOK'
  <2>1. count \in [publishes : 0..MaxPublishes, incidents : SUBSET Kinds]
    BY DEF CountOK
  <2>2. count.publishes < MaxPublishes /\ count' = [count EXCEPT !.publishes = @ + 1]
    BY DEF Publish
  <2>3. count.publishes + 1 \in 0..MaxPublishes
    BY <2>1, <2>2, BoundsAssumption
  <2>4. QED
    BY <2>1, <2>2, <2>3 DEF CountOK
<1>9. QED
  BY <1>1, <1>2, <1>4, <1>5, <1>7, <1>8 DEF ServerTypes

\* Writing the manifest keeps the types of the server.
LEMMA WriteJsonTypes ==
    ASSUME TypeInv, WriteJson
    PROVE  ServerTypes' /\ CountOK'
<1> USE DEF TypeInv
<1>1. /\ pub.pc = "json" /\ json' = [json EXCEPT ![pub.version] = TheManifest]
      /\ pub' = [pub EXCEPT !.pc = "sig"]
      /\ UNCHANGED <<key, rows, sig, patches, resign, published, spoiled, count>>
  BY DEF WriteJson
<1>2. TheManifest \in Manifest /\ pub.version \in Versions /\ pub.blob \in Blobs
  BY <1>1, ManifestType DEF ServerTypes
<1>3. pub' \in Handlers /\ pub'.version = pub.version /\ pub'.blob = pub.blob
  BY <1>1, PubMoves
<1>4. json' \in [Versions -> Maybe(Manifest)]
  <2>1. TheManifest \in Maybe(Manifest)
    BY <1>2 DEF Maybe
  <2>2. QED
    BY <1>1, <1>2, <2>1 DEF ServerTypes
<1>5. QED
  BY <1>1, <1>2, <1>3, <1>4 DEF ServerTypes, CountOK

\* Writing the signature keeps the types of the server.
LEMMA WriteSigTypes ==
    ASSUME TypeInv, WriteSig
    PROVE  ServerTypes' /\ CountOK'
<1> USE DEF TypeInv
<1> DEFINE s == [by |-> key, of |-> TheManifest]
<1>1. /\ pub.pc = "sig" /\ sig' = [sig EXCEPT ![pub.version] = s]
      /\ pub' = IF pub.patches_in = {} THEN [pub EXCEPT !.pc = "patches"] ELSE NoPub
      /\ spoiled' = spoiled \ {pub.version}
      /\ UNCHANGED <<key, rows, json, patches, resign, published, count>>
  BY DEF WriteSig
<1>2. TheManifest \in Manifest /\ pub.version \in Versions /\ pub.blob \in Blobs /\ key \in Keys
  BY <1>1, ManifestType DEF ServerTypes
<1>3. pub' \in Handlers /\ (pub'.pc # "idle" => pub'.version = pub.version /\ pub'.blob = pub.blob)
  <2>1. CASE pub.patches_in = {}
    BY <1>1, <2>1, PubMoves
  <2>2. CASE pub.patches_in # {}
    BY <1>1, <2>2, NoPubType
  <2>3. QED
    BY <2>1, <2>2
<1>4. s \in Maybe(Signature)
  BY <1>2, SignatureType DEF Maybe
<1> HIDE DEF s
<1>5. sig' \in [Versions -> Maybe(Signature)]
  BY <1>1, <1>2, <1>4 DEF ServerTypes
<1>6. QED
  BY <1>1, <1>2, <1>3, <1>5 DEF ServerTypes, CountOK

\* Collecting the built patches keeps the types of the server.
LEMMA FanInTypes ==
    ASSUME TypeInv, FanIn
    PROVE  ServerTypes' /\ CountOK'
<1> USE DEF TypeInv
<1>0. pub.pc = "patches" /\ pub.version \in Versions /\ pub.blob \in Blobs
  BY DEF FanIn, ServerTypes
<1> DEFINE others == {rows[i] : i \in {j \in DOMAIN rows : rows[j].version # pub.version}}
           refs(from) == {[from |-> r.version, patch |-> <<r.blob, pub.blob>>] : r \in from}
<1>1. PICK from \in SUBSET others :
        /\ patches' = patches \cup {p.patch : p \in refs(from)}
        /\ pub' = IF refs(from) = {} THEN NoPub ELSE Handler("json", pub.version, pub.blob, refs(from))
  BY DEF FanIn
<1>2. UNCHANGED <<key, rows, json, sig, resign, published, spoiled, count>>
  BY DEF FanIn
<1>3. from \subseteq Row
  <2>1. rows \in Seq(Row)
    BY DEF ServerTypes
  <2>2. \A i \in DOMAIN rows : rows[i] \in Row
    BY <2>1, ElementType
  <2>3. QED
    BY <2>2
<1> HIDE DEF others
<1>4. \A r \in from : r.version \in Versions /\ <<r.blob, pub.blob>> \in Patch
  BY <1>0, <1>3 DEF Row, Patch
<1>5. refs(from) \in SUBSET [from : Versions, patch : Patch] /\ {p.patch : p \in refs(from)} \subseteq Patch
  BY <1>4
<1> HIDE DEF refs
<1>6. pub' \in Handlers /\ (pub'.pc # "idle" => pub'.version = pub.version /\ pub'.blob = pub.blob)
  <2>1. CASE refs(from) = {}
    BY <1>1, <2>1, NoPubType
  <2>2. CASE refs(from) # {}
    <3>1. pub' = Handler("json", pub.version, pub.blob, refs(from))
      BY <1>1, <2>2
    <3>2. pub.version \in Maybe(Versions) /\ pub.blob \in Maybe(Blobs)
      BY <1>0 DEF Maybe
    <3>3. QED
      BY <1>5, <3>1, <3>2, HandlerType
  <2>3. QED
    BY <2>1, <2>2
<1>7. QED
  BY <1>0, <1>1, <1>2, <1>5, <1>6 DEF ServerTypes, CountOK

\* A dropped release's rows, files and patches go, and nothing else.
LEMMA DropTypes ==
    ASSUME TypeInv, NEW v \in Versions, Drop(v)
    PROVE  ServerTypes' /\ CountOK'
<1> USE DEF TypeInv
<1>1. /\ patches' = {p \in patches : Offered[v] \cap {p[1], p[2]} = {}}
      /\ json' = [json EXCEPT ![v] = None] /\ sig' = [sig EXCEPT ![v] = None]
      /\ spoiled' = spoiled \ {v} /\ Incident("drop")
      /\ UNCHANGED <<key, pub, resign, published>>
  BY DEF Drop
<1>2. PICK k \in DOMAIN rows : rows' = RemoveAt(rows, k)
  BY DEF Drop
<1>3. rows \in Seq(Row) /\ Len(rows) \in Nat /\ DOMAIN rows = 1..Len(rows)
  BY DEF ServerTypes
<1>4. /\ rows' \in Seq(Row) /\ Len(rows') = Len(rows) - 1
      /\ \A i \in 1..(Len(rows) - 1) : rows'[i] = IF i < k THEN rows[i] ELSE rows[i + 1]
  BY <1>2, <1>3, Removed
<1>5. ASSUME NEW i \in DOMAIN rows', NEW j \in DOMAIN rows', rows'[i].version = rows'[j].version
      PROVE  i = j
  <2>1. i \in 1..(Len(rows) - 1) /\ j \in 1..(Len(rows) - 1)
    BY <1>4
  <2> DEFINE at(m) == IF m < k THEN m ELSE m + 1
  <2>2. ASSUME NEW m \in 1..(Len(rows) - 1)
        PROVE  at(m) \in DOMAIN rows /\ rows'[m] = rows[at(m)]
    <3>1. k \in 1..Len(rows)
      BY <1>3
    <3>2. CASE m < k
      BY <1>3, <1>4, <3>1, <3>2
    <3>3. CASE ~ (m < k)
      BY <1>3, <1>4, <3>1, <3>3
    <3>4. QED
      BY <3>2, <3>3
  <2>3. at(i) = at(j)
    BY <1>5, <2>1, <2>2 DEF ServerTypes
  <2>4. QED
    BY <1>3, <2>1, <2>3
<1>6. json' \in [Versions -> Maybe(Manifest)] /\ sig' \in [Versions -> Maybe(Signature)]
  BY <1>1 DEF ServerTypes, Maybe
<1>7. CountOK'
  BY <1>1, IncidentCounted DEF Kinds
<1>8. QED
  BY <1>1, <1>4, <1>5, <1>6, <1>7 DEF ServerTypes

\* A restart under any key keeps the types of the server.
LEMMA RestartTypes ==
    ASSUME TypeInv, NEW k \in Keys, Restart(k)
    PROVE  ServerTypes' /\ CountOK'
<1> USE DEF TypeInv
<1>1. /\ key' = k /\ pub' = NoPub /\ Incident("restart")
      /\ spoiled' = IF k # key THEN {v \in Versions : json[v] # None}
                    ELSE IF pub.pc = "sig" THEN spoiled \cup {pub.version} ELSE spoiled
      /\ UNCHANGED <<rows, json, sig, patches, resign, published>>
  BY DEF Restart
<1>2. CountOK'
  BY <1>1, IncidentCounted DEF Kinds
<1>3. spoiled' \subseteq Versions
  BY <1>1 DEF ServerTypes
<1>4. QED
  BY <1>1, <1>2, <1>3, NoPubType DEF ServerTypes

\* Both steps of a resign keep the types of the server.
LEMMA ResignTypes ==
    ASSUME TypeInv, BeginResign \/ ResignStep
    PROVE  ServerTypes' /\ CountOK'
<1> USE DEF TypeInv
<1>1. CASE BeginResign
  <2> DEFINE T == {v \in Versions : json[v] # None}
  <2>1. resign' = Resigner(T, key, None, None) /\ Incident("resign")
        /\ UNCHANGED <<key, rows, json, sig, patches, pub, published, spoiled>>
    BY <1>1 DEF BeginResign, served
  <2>2. T \in SUBSET Versions /\ key \in Maybe(Keys) /\ None \in Maybe(Versions) /\ None \in Maybe(Manifest)
    BY DEF ServerTypes, Maybe
  <2> HIDE DEF T
  <2>3. resign' \in Resigners /\ resign'.by = key /\ resign'.version = None
    BY <2>1, <2>2, ResignerType
  <2>4. CountOK'
    BY <2>1, IncidentCounted DEF Kinds
  <2>5. QED
    BY <2>1, <2>3, <2>4 DEF ServerTypes
<1>2. ASSUME NEW v \in Versions, ResignRead(v) PROVE ServerTypes' /\ CountOK'
  <2>1. /\ resign' = IF json[v] = None THEN NoResign
                     ELSE Resigner(resign.todo, resign.by, v, json[v])
        /\ UNCHANGED <<key, rows, json, sig, patches, pub, published, spoiled, count>>
        /\ v \in resign.todo
    BY <1>2 DEF ResignRead, served
  <2>2. CASE json[v] = None
    BY <2>1, <2>2, NoResignType DEF ServerTypes, CountOK
  <2>3. CASE json[v] # None
    <3>1. json[v] \in Manifest /\ json[v] \in Maybe(Manifest) /\ v \in Maybe(Versions)
      BY <2>3 DEF ServerTypes, Maybe
    <3>2. resign.todo \in SUBSET Versions /\ resign.by \in Maybe(Keys)
      BY DEF ServerTypes, Resigners
    <3>3. resign.by \in Keys
      BY <2>1 DEF ServerTypes
    <3>4. resign' \in Resigners /\ resign'.by = resign.by /\ resign'.bytes = json[v]
      BY <2>1, <2>3, <3>1, <3>2, ResignerType
    <3>5. QED
      BY <2>1, <3>1, <3>3, <3>4 DEF ServerTypes, CountOK
  <2>4. QED
    BY <2>2, <2>3
<1>3. CASE ResignWrite
  <2> DEFINE s == [by |-> resign.by, of |-> resign.bytes]
  <2>1. /\ sig' = [sig EXCEPT ![resign.version] = s]
        /\ spoiled' = IF resign.by = key /\ resign.bytes = json[resign.version]
                      THEN spoiled \ {resign.version} ELSE spoiled \cup {resign.version}
        /\ resign' = Resigner(resign.todo \ {resign.version}, resign.by, None, None)
        /\ resign.version # None
        /\ UNCHANGED <<key, rows, json, patches, pub, published, count>>
    BY <1>3 DEF ResignWrite
  <2>2. resign.version \in Versions /\ resign.todo \in SUBSET Versions /\ resign.by \in Maybe(Keys)
    BY <2>1 DEF ServerTypes, Resigners, Maybe
  <2>3. resign.by \in Keys /\ resign.bytes \in Manifest
    BY <2>1 DEF ServerTypes
  <2>4. s \in Maybe(Signature)
    BY <2>3, SignatureType DEF Maybe
  <2> HIDE DEF s
  <2>5. sig' \in [Versions -> Maybe(Signature)]
    BY <2>1, <2>2, <2>4 DEF ServerTypes
  <2>6. spoiled' \subseteq Versions
    BY <2>1, <2>2 DEF ServerTypes
  <2>7. resign' \in Resigners /\ resign'.by = resign.by /\ resign'.version = None
    <3>1. resign.todo \ {resign.version} \in SUBSET Versions /\ None \in Maybe(Versions) /\ None \in Maybe(Manifest)
      BY <2>2 DEF Maybe
    <3>2. QED
      BY <2>1, <2>2, <3>1, ResignerType
  <2>8. QED
    BY <2>1, <2>3, <2>5, <2>6, <2>7 DEF ServerTypes, CountOK
<1>4. CASE EndResign
  BY <1>4, NoResignType DEF EndResign, served, ServerTypes, CountOK
<1>5. QED
  BY <1>1, <1>2, <1>3, <1>4 DEF ResignStep

----------------------------------------------------------------------------
(* Types: the client *)

\* What the constructor of a client run returns, field by field.
LEMMA LocalsType ==
    ASSUME NEW pc \in {"idle", "headers", "body", "transfer", "remove"},
           NEW v \in Maybe(Versions), NEW k \in Maybe(Keys),
           NEW s \in Maybe(Signature), NEW man \in Maybe(Manifest)
    PROVE  /\ Locals(pc, v, k, s, man) \in Runs
           /\ Locals(pc, v, k, s, man).pc = pc /\ Locals(pc, v, k, s, man).version = v
           /\ Locals(pc, v, k, s, man).key = k /\ Locals(pc, v, k, s, man).sig = s
           /\ Locals(pc, v, k, s, man).man = man /\ Locals(pc, v, k, s, man).left = {}
  BY DEF Locals, Runs

\* The client without a run.
LEMMA IdleType == Idle \in Runs /\ Idle.pc = "idle"
  BY DEF Idle, Locals, Runs, Maybe

\* None and every member of a set are optional members of it.
LEMMA MaybeNone == \A S : None \in Maybe(S) /\ S \subseteq Maybe(S)
  BY DEF Maybe

\* A command that is over leaves types behind wherever the directory has them.
LEMMA IdleTypes ==
    ASSUME run' = Idle, home' \in Homes, trusted' \subseteq Keys
    PROVE  ClientTypes'
  BY IdleType DEF ClientTypes

\* A run that is past the transfer goes one step on.
LEMMA RunMoves ==
    ASSUME ClientTypes, NEW pc \in {"flip", "save"}, run' = [run EXCEPT !.pc = pc]
    PROVE  /\ run' \in Runs /\ run'.pc = pc /\ run'.version = run.version
           /\ run'.key = run.key /\ run'.left = run.left
<1>1. run \in Runs
  BY DEF ClientTypes
<1>2. QED
  BY <1>1 DEF Runs

\* The typed fields of the client's state directory.
LEMMA HomeFields ==
    ASSUME ClientTypes
    PROVE  /\ home \in Homes
           /\ home.pin \in Maybe(Keys) /\ home.current \in Maybe(Versions)
           /\ home.link \in Maybe(Versions) /\ home.history \in Seq(Versions)
           /\ home.blobs \in [Versions -> Maybe(Blobs)] /\ home.dist \in [Versions -> SUBSET File]
           /\ home.parts \in SUBSET Part /\ home.torn \in SUBSET Versions
<1>1. home \in Homes
  BY DEF ClientTypes
<1>2. QED
  BY <1>1 DEF Homes

\* One entry of one of its tables changes, and .part files with it.
LEMMA HomeBlob ==
    ASSUME ClientTypes, NEW v \in Versions, NEW b \in Blobs, NEW parts \in SUBSET Part,
           home' = [home EXCEPT !.blobs[v] = b, !.parts = parts]
    PROVE  /\ home' \in Homes /\ home'.blobs = [home.blobs EXCEPT ![v] = b]
           /\ home'.dist = home.dist /\ home'.link = home.link /\ home'.torn = home.torn
           /\ home'.current = home.current /\ home'.history = home.history
<1>1. home \in Homes /\ b \in Maybe(Blobs)
  BY DEF ClientTypes, Maybe
<1>2. QED
  BY <1>1 DEF Homes

\* Only .part files change.
LEMMA HomeParts ==
    ASSUME ClientTypes, NEW parts \in SUBSET Part, home' = [home EXCEPT !.parts = parts]
    PROVE  /\ home' \in Homes /\ home'.blobs = home.blobs /\ home'.torn = home.torn
           /\ home'.dist = home.dist /\ home'.link = home.link
           /\ home'.current = home.current /\ home'.history = home.history
<1>1. home \in Homes
  BY DEF ClientTypes
<1>2. QED
  BY <1>1 DEF Homes

\* Writing one distribution tree, and noting whether that is the whole of it,
\* changes nothing else in the state directory.
LEMMA HomeDist ==
    ASSUME ClientTypes, NEW v \in Versions, NEW tree \in SUBSET File,
           NEW torn \in SUBSET Versions, home' = [home EXCEPT !.dist[v] = tree, !.torn = torn]
    PROVE  /\ home' \in Homes /\ home'.dist = [home.dist EXCEPT ![v] = tree]
           /\ home'.blobs = home.blobs /\ home'.link = home.link /\ home'.torn = torn
           /\ home'.current = home.current /\ home'.history = home.history
           /\ home'.dist[v] = tree /\ \A w \in Versions : w # v => home'.dist[w] = home.dist[w]
<1>1. home \in Homes
  BY DEF ClientTypes
<1>2. home.dist \in [Versions -> SUBSET File] /\ home.torn \in SUBSET Versions
  BY HomeFields
<1> DEFINE dist == [home.dist EXCEPT ![v] = tree]
<1>3. dist \in [Versions -> SUBSET File]
  BY <1>2
<1>4. home' = [home EXCEPT !.dist = dist, !.torn = torn]
  OBVIOUS
<1> HIDE DEF dist
<1>5. /\ home' \in Homes /\ home'.dist = dist
      /\ home'.blobs = home.blobs /\ home'.link = home.link /\ home'.torn = torn
      /\ home'.current = home.current /\ home'.history = home.history
  BY <1>1, <1>3, <1>4 DEF Homes
<1>6. QED
  BY <1>2, <1>5 DEF dist

\* Moving or losing the current link changes nothing else in the state directory.
LEMMA HomeLink ==
    ASSUME ClientTypes, NEW v \in Maybe(Versions), home' = [home EXCEPT !.link = v]
    PROVE  /\ home' \in Homes /\ home'.link = v /\ home'.torn = home.torn
           /\ home'.blobs = home.blobs /\ home'.dist = home.dist
           /\ home'.current = home.current /\ home'.history = home.history
<1>1. home \in Homes
  BY DEF ClientTypes
<1>2. QED
  BY <1>1 DEF Homes

\* Starting a run keeps the types of the client.
LEMMA BeginTypes ==
    ASSUME ClientTypes, NEW v \in Versions, Begin(v)
    PROVE  ClientTypes' /\ run'.pc = "headers"
<1>1. run' = Locals("headers", v, None, None, None) /\ UNCHANGED <<trusted, home>>
  BY DEF Begin
<1>2. run' \in Runs /\ run'.pc = "headers" /\ run'.version = v
  BY <1>1, LocalsType, MaybeNone
<1>3. QED
  BY <1>1, <1>2 DEF ClientTypes

\* The newest row names a version.
LEMMA WatchedVersion ==
    ASSUME ServerTypes, rows # <<>>
    PROVE  Head(rows).version \in Versions
<1>1. rows \in Seq(Row)
  BY DEF ServerTypes
<1>2. Head(rows) \in Row
  BY <1>1
<1>3. QED
  BY <1>2 DEF Row

\* The answer: the headers, then the body.
LEMMA GetTypes ==
    ASSUME TypeInv, GetHeaders \/ GetBody
    PROVE  /\ ClientTypes' /\ UNCHANGED <<server, trusted, home, count>>
           /\ run'.pc \in {"idle", "body", "transfer"}
           /\ run'.pc = "transfer" => /\ run'.version = run.version /\ run.version \in Versions
                                      /\ run'.man = json[run.version] /\ json[run.version] # None
<1> USE DEF TypeInv
<1>1. CASE GetHeaders
  <2>1. run.version \in Versions /\ UNCHANGED <<server, trusted, home, count>>
    BY <1>1 DEF GetHeaders, ClientTypes
  <2>2. CASE Served(run.version)
    <3>1. run' = Locals("body", run.version, key, sig[run.version], None)
      BY <1>1, <2>2 DEF GetHeaders
    <3>2. key \in Keys /\ sig[run.version] \in Signature
      BY <2>1, <2>2 DEF Served, ServerTypes, Maybe
    <3>3. /\ run' \in Runs /\ run'.pc = "body" /\ run'.version = run.version
          /\ run'.key = key /\ run'.sig = sig[run.version]
      BY <2>1, <3>1, <3>2, LocalsType, MaybeNone
    <3>4. QED
      BY <2>1, <3>2, <3>3 DEF ClientTypes
  <2>3. CASE ~ Served(run.version)
    BY <1>1, <2>1, <2>3, IdleType, IdleTypes DEF GetHeaders, ClientTypes
  <2>4. QED
    BY <2>2, <2>3
<1>2. CASE GetBody
  <2>1. /\ run.version \in Versions /\ run.key \in Keys /\ run.sig \in Signature
        /\ UNCHANGED <<server, trusted, home, count>>
    BY <1>2 DEF GetBody, ClientTypes
  <2>2. CASE json[run.version] # None
    <3>1. run' = Locals("transfer", run.version, run.key, run.sig, json[run.version])
      BY <1>2, <2>2 DEF GetBody
    <3>2. json[run.version] \in Manifest
      BY <2>1, <2>2 DEF ServerTypes, Maybe
    <3>3. /\ run' \in Runs /\ run'.pc = "transfer" /\ run'.version = run.version
          /\ run'.key = run.key /\ run'.sig = run.sig /\ run'.man = json[run.version]
      <4> DEFINE man == json[run.version]
      <4>1. man \in Manifest /\ run' = Locals("transfer", run.version, run.key, run.sig, man)
        BY <3>1, <3>2
      <4> HIDE DEF man
      <4>2. /\ run' \in Runs /\ run'.pc = "transfer" /\ run'.version = run.version
            /\ run'.key = run.key /\ run'.sig = run.sig /\ run'.man = man
        <5>1. /\ run.version \in Maybe(Versions) /\ run.key \in Maybe(Keys)
              /\ run.sig \in Maybe(Signature) /\ man \in Maybe(Manifest)
          BY <2>1, <4>1, MaybeNone
        <5>2. QED
          BY <4>1, <5>1, LocalsType
      <4>3. QED
        BY <4>2 DEF man
    <3>4. QED
      BY <2>1, <2>2, <3>2, <3>3 DEF ClientTypes
  <2>3. CASE json[run.version] = None
    BY <1>2, <2>1, <2>3, IdleType, IdleTypes DEF GetBody, ClientTypes
  <2>4. QED
    BY <2>2, <2>3
<1>3. QED
  BY <1>1, <1>2

\* The blob that is stored is the one the manifest names, whole or patched.
LEMMA TransferStores ==
    ASSUME TypeInv, ApplyPatch \/ DownloadBlob
    PROVE  /\ run.pc = "transfer"
           /\ \/ Fail
              \/ \E name : FailWithout(name)
              \/ \E names : StoreBlob(run.man.blob, names)
<1>1. CASE ApplyPatch
  <2>1. PICK p \in PickPatch(run.man) :
          \/ Fail
          \/ FailWithout(PatchPart(p))
          \/ Applies(p.patch, run.man) /\ StoreBlob(p.patch[2], {PatchPart(p), BlobPart})
    BY <1>1 DEF ApplyPatch
  <2>2. QED
    BY <1>1, <2>1 DEF ApplyPatch, Applies
<1>2. CASE DownloadBlob
  BY <1>2 DEF DownloadBlob
<1>3. QED
  BY <1>1, <1>2

\* Storing the blob moves the run to the removal and records the blob.
LEMMA StoreBlobTypes ==
    ASSUME TypeInv, run.pc = "transfer", NEW names, StoreBlob(run.man.blob, names)
    PROVE  /\ ClientTypes' /\ UNCHANGED <<server, trusted, count>>
           /\ run.version \in Versions /\ run.man.blob \in Blobs
           /\ run'.pc = "remove" /\ run'.version = run.version
           /\ home'.blobs = [home.blobs EXCEPT ![run.version] = run.man.blob]
           /\ home'.dist = home.dist /\ home'.link = home.link /\ home'.current = home.current
           /\ home'.torn = home.torn
<1> USE DEF TypeInv
<1> DEFINE b == run.man.blob
           v == run.version
           parts == PartsBut(names)
<1>1. v \in Versions /\ run.key \in Keys /\ run.man \in Manifest
  BY DEF ClientTypes
<1>2. b \in Blobs /\ parts \in SUBSET Part
  BY <1>1, HomeFields DEF Manifest, PartsBut
<1>3. /\ home' = [home EXCEPT !.blobs[v] = b, !.parts = parts]
      /\ run' = Locals("remove", v, run.key, None, None)
      /\ UNCHANGED <<server, trusted, count>>
  BY DEF StoreBlob
<1> HIDE DEF b, v, parts
<1>4. /\ home' \in Homes /\ home'.blobs = [home.blobs EXCEPT ![v] = b]
      /\ home'.dist = home.dist /\ home'.link = home.link
      /\ home'.current = home.current /\ home'.torn = home.torn
  BY <1>1, <1>2, <1>3, HomeBlob
<1>5. run' \in Runs /\ run'.pc = "remove" /\ run'.version = v /\ run'.key = run.key
  BY <1>1, <1>3, LocalsType, MaybeNone
<1>6. home'.blobs[v] = b
  BY <1>1, <1>4, HomeFields
<1>7. ClientTypes'
  BY <1>1, <1>2, <1>3, <1>4, <1>5, <1>6 DEF ClientTypes
<1>8. QED
  BY <1>1, <1>2, <1>3, <1>4, <1>5, <1>7 DEF b, v

\* A command that ends with no more than other .part files.
LEMMA PartsTypes ==
    ASSUME TypeInv, NEW parts \in SUBSET Part, home' = [home EXCEPT !.parts = parts],
           run' = Idle, UNCHANGED <<server, trusted>>
    PROVE  /\ ClientTypes' /\ home'.blobs = home.blobs /\ home'.torn = home.torn
           /\ home'.dist = home.dist /\ home'.link = home.link /\ home'.current = home.current
<1>1. /\ home' \in Homes /\ home'.blobs = home.blobs /\ home'.torn = home.torn
      /\ home'.dist = home.dist /\ home'.link = home.link /\ home'.current = home.current
  BY HomeParts DEF TypeInv
<1>2. trusted' \subseteq Keys
  BY DEF TypeInv, ClientTypes
<1>3. QED
  BY <1>1, <1>2, IdleTypes

\* Giving up a .part file is such an end.
LEMMA FailWithoutTypes ==
    ASSUME TypeInv, NEW name, FailWithout(name)
    PROVE  /\ ClientTypes' /\ UNCHANGED <<server, trusted, count>> /\ run' = Idle
           /\ home'.blobs = home.blobs /\ home'.torn = home.torn
           /\ home'.dist = home.dist /\ home'.link = home.link /\ home'.current = home.current
<1>1. PartsBut({name}) \in SUBSET Part
  BY HomeFields DEF TypeInv, PartsBut
<1>2. QED
  BY <1>1, PartsTypes DEF FailWithout, server, served

\* What a cut off transfer leaves is a .part file.
LEMMA CutTypes ==
    ASSUME NEW name \in Maybe(Versions) \X Versions, NEW c \in Blobs \cup Patch
    PROVE  /\ CutDownloads(name, c) \subseteq Part
           /\ c \in Blobs /\ run.version \in Versions => CutRebuilds(c) \subseteq Part
<1>1. Size[c] \in Nat
  BY SizeAssumption DEF Patch
<1>2. \A k \in 1..Size[c] : k \in Nat
  BY <1>1
<1>3. c \in Maybe(Blobs \cup Patch) /\ None \in Maybe(Blobs \cup Patch)
  BY MaybeNone
<1>4. CutDownloads(name, c) \subseteq Part
  BY <1>2, <1>3 DEF CutDownloads, Part
<1>5. run.version \in Versions => BlobPart \in Maybe(Versions) \X Versions
  BY MaybeNone DEF BlobPart
<1>6. ASSUME run.version \in Versions, NEW part \in CutRebuilds(c) PROVE part \in Part
  <2>1. PICK n \in 1..Size[c] : part = [name |-> BlobPart, of |-> c, size |-> n]
    BY <1>6 DEF CutRebuilds
  <2>2. n \in Nat /\ BlobPart \in Maybe(Versions) \X Versions
    BY <1>2, <1>5, <1>6
  <2> HIDE DEF BlobPart
  <2>3. QED
    BY <1>3, <2>1, <2>2 DEF Part
<1>7. QED
  BY <1>4, <1>6

\* A transfer that stops ends the run, as an incident, and leaves a .part file.
LEMMA TransferStopsTypes ==
    ASSUME TypeInv, TransferStops
    PROVE  /\ ClientTypes' /\ CountOK' /\ UNCHANGED <<server, trusted>>
           /\ run' = Idle /\ "abort" \in count'.incidents
           /\ home'.blobs = home.blobs /\ home'.torn = home.torn
           /\ home'.dist = home.dist /\ home'.link = home.link /\ home'.current = home.current
<1> USE DEF TypeInv
<1>1. run' = Idle /\ Incident("abort") /\ UNCHANGED <<server, trusted>> /\ run.pc = "transfer"
  BY DEF TransferStops
<1>2. CountOK' /\ "abort" \in count'.incidents
  BY <1>1, IncidentCounted DEF Kinds
<1>3. run.version \in Versions /\ run.man \in Manifest
  BY <1>1 DEF ClientTypes
<1>4. /\ run.man.blob \in Blobs
      /\ \A p \in PickPatch(run.man) :
           p.from \in Maybe(Versions) /\ p.patch \in Patch /\ p.patch[2] \in Blobs
  BY <1>3, MaybeNone DEF Manifest, PickPatch, Patch
<1>5. BlobPart \in Maybe(Versions) \X Versions
  BY <1>3, MaybeNone DEF BlobPart
<1>6. \A names : PartsBut(names) \subseteq Part
  BY HomeFields DEF PartsBut
<1>7. CutDownloads(BlobPart, run.man.blob) \subseteq Part
  BY <1>4, <1>5, CutTypes
<1>8. ASSUME NEW p \in PickPatch(run.man)
      PROVE  CutDownloads(PatchPart(p), p.patch) \subseteq Part /\ CutRebuilds(p.patch[2]) \subseteq Part
  <2>1. PatchPart(p) \in Maybe(Versions) \X Versions /\ p.patch \in Patch /\ p.patch[2] \in Blobs
    BY <1>3, <1>4 DEF PatchPart
  <2>2. QED
    BY <1>3, <1>5, <2>1, CutTypes
<1>9. PICK parts \in SUBSET Part : home' = [home EXCEPT !.parts = parts]
  <2>1. ASSUME NEW names, NEW part \in Part, home' = [home EXCEPT !.parts = PartsBut(names) \cup {part}]
        PROVE  \E parts \in SUBSET Part : home' = [home EXCEPT !.parts = parts]
    <3>1. PartsBut(names) \cup {part} \in SUBSET Part
      BY <1>6
    <3>2. WITNESS PartsBut(names) \cup {part} \in SUBSET Part
    <3>3. QED
      BY <2>1
  <2>2. CASE \E part \in CutDownloads(BlobPart, run.man.blob) :
               home' = [home EXCEPT !.parts = PartsBut({BlobPart}) \cup {part}]
    BY <1>7, <2>1, <2>2
  <2>3. ASSUME NEW p \in PickPatch(run.man), NEW part \in CutDownloads(PatchPart(p), p.patch),
               home' = [home EXCEPT !.parts = PartsBut({PatchPart(p)}) \cup {part}]
        PROVE  \E parts \in SUBSET Part : home' = [home EXCEPT !.parts = parts]
    BY <1>8, <2>1, <2>3
  <2>4. ASSUME NEW p \in PickPatch(run.man), NEW part \in CutRebuilds(p.patch[2]),
               home' = [home EXCEPT !.parts = PartsBut({PatchPart(p), BlobPart}) \cup {part}]
        PROVE  \E parts \in SUBSET Part : home' = [home EXCEPT !.parts = parts]
    BY <1>8, <2>1, <2>4
  <2>5. QED
    BY <2>2, <2>3, <2>4 DEF TransferStops
<1>10. QED
  BY <1>1, <1>2, <1>9, PartsTypes

\* RemoveAll leaves what it leaves, and says so in the history.
LEMMA RemoveDistTypes ==
    ASSUME TypeInv, RemoveDist
    PROVE  /\ ClientTypes' /\ CountOK' /\ UNCHANGED <<server, trusted>>
           /\ run.pc = "remove" /\ run.version \in Versions
           /\ run'.pc = "extract" /\ run'.version = run.version
           /\ home'.dist[run.version] = run'.left
           /\ home'.torn = home.torn \cup {run.version}
           /\ home'.blobs = home.blobs /\ home'.link = home.link /\ home'.current = home.current
           /\ \A w \in Versions : w # run.version => home'.dist[w] = home.dist[w]
<1> USE DEF TypeInv
<1> DEFINE v == run.version
<1>1. /\ v \in Versions /\ run.key \in Keys /\ run.pc = "remove" /\ run \in Runs
      /\ home.blobs[v] \in Blobs
  BY DEF RemoveDist, ClientTypes
<1>2. PICK left \in SUBSET home.dist[v] :
        /\ IF left = {} THEN UNCHANGED count ELSE Incident("locked")
        /\ home' = [home EXCEPT !.dist[v] = left, !.torn = @ \cup {v}]
        /\ run' = [run EXCEPT !.pc = "extract", !.left = left]
        /\ UNCHANGED <<server, trusted>>
  BY DEF RemoveDist
<1> HIDE DEF v
<1>3. left \in SUBSET File /\ home.torn \cup {v} \in SUBSET Versions
  BY <1>1, HomeFields
<1>4. /\ home' \in Homes /\ home'.torn = home.torn \cup {v} /\ home'.dist[v] = left
      /\ home'.blobs = home.blobs /\ home'.link = home.link /\ home'.current = home.current
      /\ \A w \in Versions : w # v => home'.dist[w] = home.dist[w]
  <2> DEFINE torn == home.torn \cup {v}
  <2>1. home' = [home EXCEPT !.dist[v] = left, !.torn = torn] /\ torn \in SUBSET Versions
    BY <1>2, <1>3
  <2> HIDE DEF torn
  <2>2. /\ home' \in Homes /\ home'.torn = torn /\ home'.dist[v] = left
        /\ home'.blobs = home.blobs /\ home'.link = home.link /\ home'.current = home.current
        /\ \A w \in Versions : w # v => home'.dist[w] = home.dist[w]
    BY <1>1, <1>3, <2>1, HomeDist
  <2>3. QED
    BY <2>2 DEF torn
<1>5. /\ run' \in Runs /\ run'.pc = "extract" /\ run'.version = v
      /\ run'.key = run.key /\ run'.left = left
  BY <1>1, <1>2, <1>3 DEF Runs, v
<1>6. CountOK'
  BY <1>2, IncidentCounted DEF Kinds, CountOK
<1>7. ClientTypes'
  <2>1. home'.blobs[run'.version] \in Blobs
    BY <1>1, <1>4, <1>5 DEF v
  <2>2. QED
    BY <1>1, <1>2, <1>4, <1>5, <2>1 DEF ClientTypes
<1>8. QED
  BY <1>1, <1>2, <1>4, <1>5, <1>6, <1>7 DEF v

\* The whole extraction, and the next step.
LEMMA ExtractTypes ==
    ASSUME TypeInv, Extract
    PROVE  /\ ClientTypes' /\ UNCHANGED <<server, trusted, count>>
           /\ run.version \in Versions /\ TheBlob \in Blobs
           /\ run.pc = "extract" /\ run'.pc = "flip"
           /\ run'.version = run.version /\ run'.left = run.left
           /\ home'.dist[run.version] = Over(TreeOf(TheBlob), home.dist[run.version])
           /\ home'.torn = home.torn \ {run.version}
           /\ home'.blobs = home.blobs /\ home'.link = home.link /\ home'.current = home.current
           /\ \A w \in Versions : w # run.version => home'.dist[w] = home.dist[w]
<1> USE DEF TypeInv
<1> DEFINE v == run.version
           tree == Extracted(Len(Archive[TheBlob]))
           torn == home.torn \ {v}
<1>1. v \in Versions /\ run.key \in Keys /\ TheBlob \in Blobs /\ run.pc = "extract"
  BY DEF Extract, ClientTypes, TheBlob
<1>2. Len(Archive[TheBlob]) \in 0..Len(Archive[TheBlob])
  BY <1>1, ArchiveLength
<1>3. /\ home' = [home EXCEPT !.dist[v] = tree, !.torn = torn]
      /\ run' = [run EXCEPT !.pc = "flip"]
      /\ UNCHANGED <<server, trusted, count>>
  BY DEF Extract
<1>4. tree = Over(TreeOf(TheBlob), home.dist[v])
  BY <1>1, ExtractMakesTheTree DEF Over
<1>5. tree \in SUBSET File /\ torn \in SUBSET Versions
  BY <1>1, <1>2, HomeFields, ExtractedTypes
<1> HIDE DEF v, tree, torn
<1>6. /\ home' \in Homes /\ home'.torn = torn /\ home'.dist[v] = tree
      /\ home'.blobs = home.blobs /\ home'.link = home.link /\ home'.current = home.current
      /\ \A w \in Versions : w # v => home'.dist[w] = home.dist[w]
  BY <1>1, <1>3, <1>5, HomeDist
<1>7. /\ run' \in Runs /\ run'.pc = "flip" /\ run'.version = v
      /\ run'.key = run.key /\ run'.left = run.left
  BY <1>3, RunMoves DEF v
<1>8. ClientTypes'
  <2>1. home'.blobs[v] \in Blobs
    BY <1>1, <1>6 DEF TheBlob, v
  <2>2. QED
    BY <1>1, <1>3, <1>6, <1>7, <2>1 DEF ClientTypes
<1>9. QED
  BY <1>1, <1>3, <1>4, <1>6, <1>7, <1>8 DEF v, torn

\* A removal or an extraction that does not reach its end ends the run; the
\* link and the record of torn trees keep what they say.
LEMMA DistStopsTypes ==
    ASSUME TypeInv, RemoveStops \/ ExtractStops \/ ExtractRefuses
    PROVE  /\ ClientTypes' /\ CountOK' /\ UNCHANGED <<server, trusted>>
           /\ run.pc \in {"remove", "extract"} /\ run.version \in Versions /\ run' = Idle
           /\ run.pc = "extract" => home'.torn = home.torn
           /\ run.pc = "remove" => home'.torn = home.torn \cup {run.version}
           /\ home'.blobs = home.blobs /\ home'.link = home.link /\ home'.current = home.current
           /\ \A w \in Versions : w # run.version => home'.dist[w] = home.dist[w]
<1> USE DEF TypeInv
<1> DEFINE v == run.version
<1>1. /\ v \in Versions /\ TheBlob \in Blobs /\ run' = Idle /\ UNCHANGED <<server, trusted>>
      /\ run.pc \in {"remove", "extract"}
  BY DEF RemoveStops, ExtractStops, ExtractRefuses, ClientTypes, TheBlob
<1>2. UNCHANGED count \/ Incident("abort")
  BY DEF RemoveStops, ExtractStops, ExtractRefuses
<1>3. CountOK'
  BY <1>2, IncidentCounted DEF Kinds, CountOK
<1>4. home.dist[v] \in SUBSET File /\ home.torn \in SUBSET Versions
  BY <1>1, HomeFields
<1>5. ASSUME NEW n \in 0..SafePrefix(TheBlob) PROVE Extracted(n) \in SUBSET File
  <2>1. SafePrefix(TheBlob) \in 0..Len(Archive[TheBlob]) /\ Len(Archive[TheBlob]) \in Nat
    BY <1>1, SafePrefixType, ArchiveLength
  <2>2. n \in 0..Len(Archive[TheBlob])
    BY <2>1
  <2>3. QED
    BY <1>1, <1>4, <2>2, ExtractedTypes
<1>6. \E tree \in SUBSET File, torn \in SUBSET Versions :
        /\ home' = [home EXCEPT !.dist[v] = tree, !.torn = torn]
        /\ run.pc = "extract" => torn = home.torn
        /\ run.pc = "remove" => torn = home.torn \cup {v}
  <2>1. CASE RemoveStops
    <3>1. PICK left \in SUBSET home.dist[v] :
            home' = [home EXCEPT !.dist[v] = left, !.torn = @ \cup {v}]
      BY <2>1 DEF RemoveStops
    <3>2. left \in SUBSET File /\ home.torn \cup {v} \in SUBSET Versions /\ run.pc = "remove"
      BY <1>1, <1>4, <2>1 DEF RemoveStops
    <3>3. home' = [home EXCEPT !.dist[v] = left, !.torn = home.torn \cup {v}]
      BY <3>1
    <3> HIDE DEF v
    <3>4. QED
      BY <3>2, <3>3
  <2>2. CASE ExtractStops \/ ExtractRefuses
    <3>1. SafePrefix(TheBlob) \in 0..SafePrefix(TheBlob)
      BY <1>1, SafePrefixType, ArchiveLength
    <3>2. PICK n \in 0..SafePrefix(TheBlob) : home' = [home EXCEPT !.dist[v] = Extracted(n)]
      BY <2>2, <3>1 DEF ExtractStops, ExtractRefuses
    <3>3. Extracted(n) \in SUBSET File /\ run.pc = "extract"
      BY <1>5, <2>2 DEF ExtractStops, ExtractRefuses
    <3> DEFINE tree == Extracted(n)
               dist == [home.dist EXCEPT ![v] = tree]
    <3>4. home' = [home EXCEPT !.dist[v] = tree, !.torn = home.torn]
      <4>1. home' = [home EXCEPT !.dist = dist] /\ home \in Homes
        BY <3>2, HomeFields
      <4> HIDE DEF dist
      <4>2. home' = [home EXCEPT !.dist = dist, !.torn = home.torn]
        BY <4>1 DEF Homes
      <4>3. QED
        BY <4>2 DEF dist
    <3>5. tree \in SUBSET File
      BY <3>3
    <3> HIDE DEF v, tree
    <3>6. QED
      BY <1>4, <3>3, <3>4, <3>5
  <2>3. QED
    BY <2>1, <2>2
<1> HIDE DEF v
<1>7. PICK tree \in SUBSET File, torn \in SUBSET Versions :
        /\ home' = [home EXCEPT !.dist[v] = tree, !.torn = torn]
        /\ run.pc = "extract" => torn = home.torn
        /\ run.pc = "remove" => torn = home.torn \cup {v}
  BY <1>6
<1>8. /\ home' \in Homes /\ home'.torn = torn
      /\ home'.blobs = home.blobs /\ home'.link = home.link /\ home'.current = home.current
      /\ \A w \in Versions : w # v => home'.dist[w] = home.dist[w]
  BY <1>1, <1>7, HomeDist
<1>9. ClientTypes'
  BY <1>1, <1>8, IdleTypes DEF ClientTypes
<1>10. QED
  BY <1>1, <1>3, <1>7, <1>8, <1>9 DEF v

\* Flipping the link points it at the run's version and touches nothing else.
LEMMA FlipTypes ==
    ASSUME TypeInv, FlipCurrent
    PROVE  /\ ClientTypes' /\ UNCHANGED <<server, trusted, count>>
           /\ run.pc = "flip" /\ run'.pc = "save"
           /\ run.version \in Versions /\ run'.version = run.version /\ run'.left = run.left
           /\ home'.link = run.version /\ home'.blobs = home.blobs /\ home'.torn = home.torn
           /\ home'.dist = home.dist /\ home'.current = home.current
<1> USE DEF TypeInv
<1> DEFINE v == run.version
<1>1. v \in Versions /\ run.key \in Keys /\ home.blobs[v] \in Blobs /\ run.pc = "flip"
  BY DEF FlipCurrent, ClientTypes
<1>2. /\ home' = [home EXCEPT !.link = v]
      /\ run' = [run EXCEPT !.pc = "save"]
      /\ UNCHANGED <<server, trusted, count>>
  BY DEF FlipCurrent
<1>3. /\ run' \in Runs /\ run'.pc = "save" /\ run'.version = v
      /\ run'.key = run.key /\ run'.left = run.left
  BY <1>2, RunMoves
<1> HIDE DEF v
<1>4. /\ home' \in Homes /\ home'.link = v /\ home'.blobs = home.blobs
      /\ home'.dist = home.dist /\ home'.current = home.current /\ home'.torn = home.torn
  BY <1>1, <1>2, HomeLink, MaybeNone
<1>5. ClientTypes'
  BY <1>1, <1>2, <1>3, <1>4 DEF ClientTypes
<1>6. QED
  BY <1>1, <1>2, <1>3, <1>4, <1>5 DEF v

\* A command that ends elsewhere may at most have lost the link.
LEMMA AbortTypes ==
    ASSUME TypeInv, Abort
    PROVE  /\ ClientTypes' /\ CountOK' /\ UNCHANGED <<server, trusted>>
           /\ run' = Idle /\ "abort" \in count'.incidents
           /\ home'.blobs = home.blobs /\ home'.torn = home.torn
           /\ home'.dist = home.dist /\ home'.current = home.current
<1> USE DEF TypeInv
<1>1. /\ run' = Idle /\ Incident("abort") /\ UNCHANGED <<server, trusted>>
      /\ home' = home \/ home' = [home EXCEPT !.link = None]
  BY DEF Abort
<1>2. CountOK' /\ "abort" \in count'.incidents
  BY <1>1, IncidentCounted DEF Kinds
<1>3. /\ home' \in Homes /\ home'.blobs = home.blobs /\ home'.torn = home.torn
      /\ home'.dist = home.dist /\ home'.current = home.current
  <2>1. None \in Maybe(Versions) /\ home \in Homes
    BY HomeFields, MaybeNone
  <2>2. QED
    BY <1>1, <2>1, HomeLink
<1>4. ClientTypes'
  BY <1>1, <1>3, IdleTypes DEF ClientTypes
<1>5. QED
  BY <1>1, <1>2, <1>3, <1>4

\* The history after a push is a sequence of versions again.
LEMMA PushedType ==
    ASSUME NEW h \in Seq(Versions), NEW v \in Versions
    PROVE  Pushed(h, v) \in Seq(Versions)
<1> DEFINE all == Append(h, v)
<1>1. all \in Seq(Versions) /\ Len(all) = Len(h) + 1 /\ Len(h) \in Nat
  OBVIOUS
<1> HIDE DEF all
<1>2. all # <<>>
  BY <1>1
<1>3. Tail(all) \in Seq(Versions)
  BY <1>1, <1>2
<1>4. QED
  BY <1>1, <1>3 DEF Pushed, all

\* The third-last version's blob may go.
LEMMA SaveTypes ==
    ASSUME TypeInv, SaveAndPrune
    PROVE  /\ ClientTypes' /\ UNCHANGED <<server, trusted, count>>
           /\ run.pc = "save" /\ run' = Idle /\ run.version \in Versions
           /\ home'.current = run.version /\ home'.link = home.link /\ home'.dist = home.dist
           /\ home'.torn = home.torn
           /\ \A w \in Versions : home'.blobs[w] \in {home.blobs[w], None}
<1> USE DEF TypeInv
<1> DEFINE v == run.version
           h == IF home.current = v THEN home.history ELSE Pushed(home.history, v)
           bs == IF Len(h) < 3 THEN home.blobs ELSE [home.blobs EXCEPT ![h[1]] = None]
           parts == IF Len(h) < 3 THEN home.parts ELSE {p \in home.parts : p.name[1] # h[1]}
<1>1. v \in Versions /\ run.key \in Keys /\ run.pc = "save"
  BY DEF SaveAndPrune, ClientTypes
<1>2. /\ home' = [pin |-> run.key, current |-> v, link |-> home.link, history |-> h,
                  blobs |-> bs, dist |-> home.dist, parts |-> parts, torn |-> home.torn]
      /\ run' = Idle
      /\ UNCHANGED <<server, trusted, count>>
  BY DEF SaveAndPrune
<1>3. h \in Seq(Versions)
  BY <1>1, HomeFields, PushedType
<1> HIDE DEF v, h
<1>4. bs \in [Versions -> Maybe(Blobs)] /\ \A w \in Versions : bs[w] \in {home.blobs[w], None}
  <2>1. home.blobs \in [Versions -> Maybe(Blobs)] /\ None \in Maybe(Blobs)
    BY HomeFields, MaybeNone
  <2>2. CASE Len(h) < 3
    BY <2>1, <2>2
  <2>3. CASE ~ (Len(h) < 3)
    BY <2>1, <2>3
  <2>4. QED
    BY <2>2, <2>3
<1>5. parts \in SUBSET Part
  BY HomeFields
<1> HIDE DEF bs, parts
<1>6. /\ home' \in Homes /\ home'.current = v /\ home'.link = home.link
      /\ home'.dist = home.dist /\ home'.blobs = bs /\ home'.torn = home.torn
  <2>1. run.key \in Maybe(Keys) /\ v \in Maybe(Versions)
    BY <1>1, MaybeNone
  <2>2. /\ home.link \in Maybe(Versions) /\ home.dist \in [Versions -> SUBSET File]
        /\ home.torn \in SUBSET Versions
    BY HomeFields
  <2>3. QED
    BY <1>2, <1>3, <1>4, <1>5, <2>1, <2>2 DEF Homes
<1>7. ClientTypes'
  BY <1>2, <1>6, IdleTypes DEF ClientTypes
<1>8. QED
  BY <1>1, <1>2, <1>4, <1>6, <1>7 DEF v

\* Every step of the client, by what becomes of the command.
LEMMA ClientStepTypes ==
    ASSUME TypeInv, ClientStep
    PROVE  ClientTypes' /\ CountOK' /\ UNCHANGED server
<1> USE DEF TypeInv
<1>0. home \in Homes /\ trusted \subseteq Keys
  BY DEF ClientTypes
<1>1. ASSUME NEW v \in Versions, Recover(v) PROVE ClientTypes' /\ CountOK' /\ UNCHANGED server
  <2>1. Incident("recover") /\ Begin(v)
    BY <1>1 DEF Recover
  <2>2. QED
    BY <2>1, BeginTypes, IncidentCounted DEF Kinds, Begin
<1>2. ASSUME NEW keys \in SUBSET Keys, SetTrusted(keys) PROVE ClientTypes' /\ CountOK' /\ UNCHANGED server
  <2>1. Incident("trust") /\ trusted' = keys /\ UNCHANGED <<server, home, run>>
    BY <1>2 DEF SetTrusted
  <2>2. CountOK'
    BY <2>1, IncidentCounted DEF Kinds
  <2>3. QED
    BY <2>1, <2>2 DEF ClientTypes
<1>3. CASE Watch
  <2>1. rows # <<>> /\ Begin(Head(rows).version) /\ UNCHANGED count
    BY <1>3 DEF Watch
  <2>2. QED
    BY <2>1, WatchedVersion, BeginTypes DEF Begin, CountOK
<1>4. CASE GetHeaders \/ GetBody
  BY <1>4, GetTypes DEF CountOK
<1>5. CASE Fail
  BY <1>0, <1>5, IdleTypes DEF Fail, CountOK
<1>6. CASE Refuse
  BY <1>5, <1>6 DEF Refuse
<1>7. CASE ApplyPatch \/ DownloadBlob
  <2>1. /\ run.pc = "transfer"
        /\ Fail \/ (\E name : FailWithout(name)) \/ \E names : StoreBlob(run.man.blob, names)
    BY <1>7, TransferStores
  <2>2. QED
    BY <1>5, <2>1, FailWithoutTypes, StoreBlobTypes DEF CountOK
<1>8. CASE RemoveDist
  BY <1>8, RemoveDistTypes
<1>9. CASE Extract
  BY <1>9, ExtractTypes DEF CountOK
<1>10. CASE FlipCurrent
  BY <1>10, FlipTypes DEF CountOK
<1>11. CASE SaveAndPrune
  BY <1>11, SaveTypes DEF CountOK
<1>12. CASE RemoveStops \/ ExtractStops \/ ExtractRefuses
  BY <1>12, DistStopsTypes
<1>13. CASE TransferStops
  BY <1>13, TransferStopsTypes
<1>14. CASE Abort
  BY <1>14, AbortTypes
<1>15. QED
  BY <1>1, <1>2, <1>3, <1>4, <1>6, <1>7, <1>8, <1>9, <1>10, <1>11, <1>12, <1>13, <1>14
     DEF ClientStep, InstallStep

\* Every server step keeps the types of the server.
LEMMA ServerStepTypes ==
    ASSUME TypeInv, ServerStep
    PROVE  ServerTypes' /\ CountOK'
<1>1. CASE PublishStep
  BY <1>1, WriteJsonTypes, WriteSigTypes, FanInTypes DEF PublishStep
<1>2. QED
  BY <1>1, PublishTypes, DropTypes, RestartTypes, ResignTypes DEF ServerStep

\* The types hold at the start.
LEMMA TypeInvInit == Init => TypeInv
<1> SUFFICES ASSUME Init PROVE TypeInv
  OBVIOUS
<1> USE DEF Init
<1>1. ServerTypes
  <2>1. /\ json \in [Versions -> Maybe(Manifest)] /\ sig \in [Versions -> Maybe(Signature)]
        /\ key \in Keys /\ patches \subseteq Patch /\ published \subseteq Row /\ spoiled \subseteq Versions
    BY FirstKeyAssumption, MaybeNone
  <2>2. rows \in Seq(Row) /\ DOMAIN rows = {}
    OBVIOUS
  <2>3. QED
    BY <2>1, <2>2, NoPubType, NoResignType DEF ServerTypes
<1>2. ClientTypes
  <2>1. home \in Homes
    BY MaybeNone DEF Homes
  <2>2. QED
    BY <2>1, IdleType DEF ClientTypes
<1>3. CountOK
  BY BoundsAssumption DEF CountOK
<1>4. QED
  BY <1>1, <1>2, <1>3 DEF TypeInv

\* The types are kept by every step and by stuttering.
LEMMA TypeInvStep ==
    ASSUME TypeInv, [Next]_vars
    PROVE  TypeInv'
<1>1. CASE ServerStep
  <2>1. ServerTypes' /\ CountOK'
    BY <1>1, ServerStepTypes
  <2>2. UNCHANGED <<home, run, trusted>>
    BY <1>1, ServerStepsKeepClient
  <2>3. QED
    BY <2>1, <2>2 DEF TypeInv, ClientTypes
<1>2. CASE ClientStep
  <2>1. ClientTypes' /\ CountOK' /\ UNCHANGED server
    BY <1>2, ClientStepTypes
  <2>2. QED
    BY <2>1 DEF TypeInv, ServerTypes, server, served
<1>3. CASE UNCHANGED vars
  BY <1>3 DEF TypeInv, ServerTypes, ClientTypes, CountOK, vars, server, served
<1>4. QED
  BY <1>1, <1>2, <1>3, StepIsOneSided

\* The types hold in every reachable state, the client's fields included.
LEMMA Typed == Spec => []TypeInv
  BY TypeInvInit, TypeInvStep, PTL DEF Spec

\* Every record on both sides keeps its type, and no version ever has two
\* rows: insert-release-if-new looks at all of them.
THEOREM DeliveryTypes == Spec => []TypeOK
<1>1. TypeInv => TypeOK
  BY DEF TypeInv, ServerTypes, ClientTypes, TypeOK
<1>2. QED
  BY <1>1, Typed, PTL

----------------------------------------------------------------------------
(* Signatures *)

\* The manifest of a request depends only on its release, blob, patches and the clock.
LEMMA ManifestStable ==
    ASSUME pub'.version = pub.version, pub'.blob = pub.blob, pub'.patches_in = pub.patches_in,
           count'.publishes = count.publishes
    PROVE  TheManifest' = TheManifest
  BY DEF TheManifest

\* A new request has written nothing yet.
LEMMA PublishKeepsSigned ==
    ASSUME TypeInv, Signed, NEW v \in Versions, NEW b \in Blobs, Publish(v, b)
    PROVE  Signed'
<1>1. pub.pc = "idle" /\ pub'.pc = "json" /\ UNCHANGED <<key, json, sig, spoiled>>
  BY DEF Publish, Handler
<1>2. QED
  BY <1>1 DEF Signed, Verified

\* A manifest without its signature is the one its request is about to sign.
LEMMA WriteJsonKeepsSigned ==
    ASSUME TypeInv, Signed, WriteJson
    PROVE  Signed'
<1>1. /\ pub.pc = "json" /\ json' = [json EXCEPT ![pub.version] = TheManifest]
      /\ pub' = [pub EXCEPT !.pc = "sig"] /\ UNCHANGED <<key, sig, spoiled, count>>
  BY DEF WriteJson
<1>2. pub'.pc = "sig" /\ pub'.version = pub.version /\ TheManifest' = TheManifest
  BY <1>1, PubMoves, ManifestStable DEF TypeInv
<1>3. pub.version \in Versions /\ json \in [Versions -> Maybe(Manifest)]
  BY <1>1 DEF TypeInv, ServerTypes
<1>4. json'[pub.version] = TheManifest /\ \A v \in Versions : v # pub.version => json'[v] = json[v]
  BY <1>1, <1>3
<1>5. QED
  BY <1>1, <1>2, <1>4 DEF Signed, Verified

\* The signature written is over the manifest of the request, under the current key.
LEMMA WriteSigKeepsSigned ==
    ASSUME TypeInv, Signed, WriteSig
    PROVE  Signed'
<1> DEFINE s == [by |-> key, of |-> TheManifest]
<1>1. /\ pub.pc = "sig" /\ sig' = [sig EXCEPT ![pub.version] = s]
      /\ pub' = IF pub.patches_in = {} THEN [pub EXCEPT !.pc = "patches"] ELSE NoPub
      /\ spoiled' = spoiled \ {pub.version} /\ UNCHANGED <<key, json>>
  BY DEF WriteSig
<1>2. pub'.pc # "sig"
  BY <1>1, PubMoves, NoPubType DEF TypeInv
<1>3. pub.version \in Versions /\ sig \in [Versions -> Maybe(Signature)]
  BY <1>1 DEF TypeInv, ServerTypes
<1>4. sig'[pub.version] = s /\ \A v \in Versions : v # pub.version => sig'[v] = sig[v]
  BY <1>1, <1>3
<1>5. json[pub.version] = TheManifest
  BY <1>1 DEF Signed
<1>6. Verified(json[pub.version], sig'[pub.version], key)
  BY <1>4, <1>5 DEF Verified
<1> HIDE DEF s
<1>7. ASSUME NEW v \in Versions \ spoiled', json'[v] # None
      PROVE  Verified(json[v], sig'[v], key)
  <2>1. CASE v = pub.version
    BY <1>6, <2>1
  <2>2. CASE v # pub.version
    BY <1>1, <1>4, <1>7, <2>2 DEF Signed
  <2>3. QED
    BY <2>1, <2>2
<1>8. QED
  BY <1>1, <1>2, <1>7 DEF Signed, Verified

\* Collecting patches leaves both files alone.
LEMMA FanInKeepsSigned ==
    ASSUME TypeInv, Signed, FanIn
    PROVE  Signed'
<1>1. pub.pc = "patches" /\ pub'.pc # "sig" /\ UNCHANGED <<key, json, sig, spoiled>>
  BY NoPubType DEF FanIn, Handler
<1>2. QED
  BY <1>1 DEF Signed, Verified

\* A drop takes a manifest and its signature together.
LEMMA DropKeepsSigned ==
    ASSUME TypeInv, Signed, NEW v \in Versions, Drop(v)
    PROVE  Signed'
<1>1. /\ json' = [json EXCEPT ![v] = None] /\ sig' = [sig EXCEPT ![v] = None]
      /\ spoiled' = spoiled \ {v} /\ Incident("drop") /\ v # pub.version
      /\ UNCHANGED <<key, pub>>
  BY DEF Drop
<1>2. json \in [Versions -> Maybe(Manifest)] /\ sig \in [Versions -> Maybe(Signature)]
  BY DEF TypeInv, ServerTypes
<1>3. json'[v] = None /\ \A w \in Versions : w # v => json'[w] = json[w] /\ sig'[w] = sig[w]
  BY <1>1, <1>2
<1>4. pub.pc = "sig" => json'[pub.version] = TheManifest'
  <2>1. TheManifest' = TheManifest
    BY <1>1, IncidentCounted, ManifestStable DEF Kinds, TypeInv
  <2>2. pub.pc = "sig" => pub.version \in Versions
    BY DEF TypeInv, ServerTypes
  <2>3. QED
    BY <1>1, <1>3, <2>1, <2>2 DEF Signed
<1>5. ASSUME NEW w \in Versions \ spoiled', json'[w] # None, ~ (pub.pc = "sig" /\ pub.version = w)
      PROVE  Verified(json'[w], sig'[w], key)
  <2>1. w # v /\ w \notin spoiled
    BY <1>1, <1>3, <1>5
  <2>2. QED
    BY <1>3, <1>5, <2>1 DEF Signed, Verified
<1>6. QED
  BY <1>1, <1>4, <1>5 DEF Signed, Verified

\* A new key outdates every signature; a handler cut off between its writes
\* leaves one behind that does not fit.
LEMMA RestartKeepsSigned ==
    ASSUME TypeInv, Signed, NEW k \in Keys, Restart(k)
    PROVE  Signed'
<1>1. /\ key' = k /\ pub' = NoPub
      /\ spoiled' = IF k # key THEN {v \in Versions : json[v] # None}
                    ELSE IF pub.pc = "sig" THEN spoiled \cup {pub.version} ELSE spoiled
      /\ UNCHANGED <<json, sig>>
  BY DEF Restart
<1>2. pub'.pc # "sig"
  BY <1>1, NoPubType
<1>3. CASE k # key
  BY <1>1, <1>2, <1>3 DEF Signed
<1>4. CASE k = key
  <2>1. ASSUME NEW v \in Versions \ spoiled', json[v] # None
        PROVE  Verified(json[v], sig[v], key)
    BY <1>1, <1>4, <2>1 DEF Signed
  <2>2. QED
    BY <1>1, <1>2, <1>4, <2>1 DEF Signed, Verified
<1>5. QED
  BY <1>3, <1>4

\* A resign signs the manifest it read; one that no longer fits is spoiled.
LEMMA ResignKeepsSigned ==
    ASSUME TypeInv, Signed, BeginResign \/ ResignStep
    PROVE  Signed'
<1>1. CASE ~ ResignWrite
  <2>1. UNCHANGED <<key, json, sig, spoiled, pub>> /\ count'.publishes = count.publishes
    <3>1. CASE BeginResign
      BY <3>1, IncidentCounted DEF BeginResign, served, Kinds, TypeInv
    <3>2. CASE EndResign \/ \E v \in Versions : ResignRead(v)
      BY <3>2 DEF EndResign, ResignRead, served
    <3>3. QED
      BY <1>1, <3>1, <3>2 DEF ResignStep
  <2>2. TheManifest' = TheManifest
    BY <2>1, ManifestStable
  <2>3. QED
    BY <2>1, <2>2 DEF Signed, Verified
<1>2. CASE ResignWrite
  <2> DEFINE s == [by |-> resign.by, of |-> resign.bytes]
             v == resign.version
  <2>1. /\ sig' = [sig EXCEPT ![v] = s]
        /\ spoiled' = IF resign.by = key /\ resign.bytes = json[v]
                      THEN spoiled \ {v} ELSE spoiled \cup {v}
        /\ v # None
        /\ UNCHANGED <<key, json, pub, count>>
    BY <1>2 DEF ResignWrite
  <2>2. v \in Versions /\ sig \in [Versions -> Maybe(Signature)]
    BY <2>1 DEF TypeInv, ServerTypes, Resigners, Maybe
  <2>3. sig'[v] = s /\ \A w \in Versions : w # v => sig'[w] = sig[w]
    BY <2>1, <2>2
  <2>4. TheManifest' = TheManifest
    BY <2>1, ManifestStable
  <2>5. resign.by = key /\ resign.bytes = json[v] => Verified(json[v], sig'[v], key)
    BY <2>3 DEF Verified
  <2> HIDE DEF s, v
  <2>6. ASSUME NEW w \in Versions \ spoiled', json[w] # None, ~ (pub.pc = "sig" /\ pub.version = w)
        PROVE  Verified(json[w], sig'[w], key)
    <3>1. CASE w = v
      BY <2>1, <2>5, <2>6, <3>1
    <3>2. CASE w # v
      BY <2>1, <2>3, <2>6, <3>2 DEF Signed
    <3>3. QED
      BY <3>1, <3>2
  <2>7. QED
    BY <2>1, <2>4, <2>6 DEF Signed, Verified
<1>3. QED
  BY <1>1, <1>2

\* No step of a client is a publication, and incidents are not forgotten.
LEMMA ClientPublishesNothing ==
    ASSUME CountOK, ClientStep
    PROVE  /\ count'.publishes = count.publishes
           /\ count.incidents \subseteq count'.incidents
<1>1. CASE UNCHANGED count
  BY <1>1
<1>2. CASE \E kind \in Kinds : Incident(kind)
  BY <1>2, IncidentCounted
<1>3. CASE ApplyPatch \/ DownloadBlob
  BY <1>1, <1>3 DEF ApplyPatch, DownloadBlob, Fail, FailWithout, StoreBlob
<1>4. CASE RemoveDist \/ ExtractStops \/ RemoveStops \/ TransferStops \/ Abort
  <2>1. UNCHANGED count \/ Incident("locked") \/ Incident("abort")
    BY <1>4 DEF RemoveDist, ExtractStops, RemoveStops, TransferStops, Abort
  <2>2. QED
    BY <1>1, <1>2, <2>1 DEF Kinds
<1>5. QED
  BY <1>1, <1>2, <1>3, <1>4 DEF ClientStep, Recover, SetTrusted, InstallStep, Watch, GetHeaders,
     GetBody, Refuse, Fail, Extract, ExtractRefuses, FlipCurrent, SaveAndPrune, Kinds

\* Every step keeps Signed: one case for each action that touches a manifest file.
LEMMA SignedStep ==
    ASSUME TypeInv, Signed, [Next]_vars
    PROVE  Signed'
<1>1. CASE ServerStep
  <2>1. CASE PublishStep
    BY <2>1, WriteJsonKeepsSigned, WriteSigKeepsSigned, FanInKeepsSigned DEF PublishStep
  <2>2. QED
    BY <1>1, <2>1, PublishKeepsSigned, DropKeepsSigned, RestartKeepsSigned, ResignKeepsSigned
       DEF ServerStep
<1>2. CASE ClientStep
  <2>1. UNCHANGED server
    BY <1>2, ClientStepTypes
  <2>2. UNCHANGED <<key, json, sig, spoiled, pub>>
    BY <2>1 DEF server, served
  <2>3. TheManifest' = TheManifest
    BY <1>2, <2>2, ClientPublishesNothing, ManifestStable DEF TypeInv
  <2>4. QED
    BY <2>2, <2>3 DEF Signed, Verified
<1>3. CASE UNCHANGED vars
  BY <1>3 DEF Signed, Verified, TheManifest, vars, server, served
<1>4. QED
  BY <1>1, <1>2, <1>3, StepIsOneSided

\* After any sequence of publications, drops, rotations, crashes and resigns,
\* interleaved as they may be, a manifest and its signature that do not fit
\* were spoiled by one of the named incidents: a publish alone, its rewrite for
\* the patches included, always leaves two files that fit.
THEOREM ManifestsStaySigned == Spec => []SignedUnlessSpoiled
<1>1. Init => Signed
  BY NoPubType DEF Init, Signed
<1>2. TypeInv /\ Signed /\ [Next]_vars => Signed'
  BY SignedStep
<1>3. Signed => SignedUnlessSpoiled
  BY DEF Signed, SignedUnlessSpoiled
<1>4. QED
  BY <1>1, <1>2, <1>3, Typed, PTL DEF Spec

----------------------------------------------------------------------------
(* What is installed *)

\* What a server step writes comes from a publication; publications only accumulate.
LEMMA ServerKeepsSourced ==
    ASSUME TypeInv, ManifestsSourced, ServerStep
    PROVE  ManifestsSourced' /\ published \subseteq published'
<1> USE DEF TypeInv
<1>1. ASSUME NEW v \in Versions, NEW b \in Blobs, Publish(v, b)
      PROVE  ManifestsSourced' /\ published \subseteq published'
  <2>1. /\ published' = published \cup {[version |-> v, blob |-> b]}
        /\ pub' = Handler("json", v, b, {}) /\ UNCHANGED json
    BY <1>1 DEF Publish
  <2>2. pub'.version = v /\ pub'.blob = b
    BY <2>1 DEF Handler
  <2>3. QED
    BY <2>1, <2>2 DEF ManifestsSourced
<1>2. ASSUME NEW v \in Versions, Drop(v)
      PROVE  ManifestsSourced' /\ published \subseteq published'
  <2>1. json' = [json EXCEPT ![v] = None] /\ UNCHANGED <<pub, published>>
    BY <1>2 DEF Drop
  <2>2. \A w \in Versions : json'[w] # None => json'[w] = json[w]
    BY <2>1 DEF ServerTypes
  <2>3. QED
    BY <2>1, <2>2 DEF ManifestsSourced
<1>3. CASE WriteJson
  <2>1. /\ pub.pc = "json" /\ json' = [json EXCEPT ![pub.version] = TheManifest]
        /\ pub' = [pub EXCEPT !.pc = "sig"] /\ UNCHANGED published
    BY <1>3 DEF WriteJson
  <2>2. pub.version \in Versions /\ TheManifest.blob = pub.blob
    BY <2>1, ManifestType DEF ServerTypes
  <2>3. pub'.version = pub.version /\ pub'.blob = pub.blob
    BY <2>1, PubMoves
  <2>4. json'[pub.version] = TheManifest /\ \A w \in Versions : w # pub.version => json'[w] = json[w]
    BY <2>1, <2>2 DEF ServerTypes
  <2>5. QED
    BY <2>1, <2>2, <2>3, <2>4 DEF ManifestsSourced
<1>4. ASSUME pub.pc # "idle", UNCHANGED <<json, published>>,
             pub'.pc # "idle" => pub'.version = pub.version /\ pub'.blob = pub.blob
      PROVE  ManifestsSourced' /\ published \subseteq published'
  BY <1>4 DEF ManifestsSourced
<1>5. CASE WriteSig
  <2>1. /\ pub.pc = "sig" /\ UNCHANGED <<json, published>>
        /\ pub' = IF pub.patches_in = {} THEN [pub EXCEPT !.pc = "patches"] ELSE NoPub
    BY <1>5 DEF WriteSig
  <2>2. pub'.pc # "idle" => pub'.version = pub.version /\ pub'.blob = pub.blob
    BY <2>1, PubMoves, NoPubType
  <2>3. QED
    BY <1>4, <2>1, <2>2
<1>6. CASE FanIn
  <2>1. pub.pc = "patches" /\ UNCHANGED <<json, published>>
    BY <1>6 DEF FanIn
  <2>2. pub'.pc # "idle" => pub'.version = pub.version /\ pub'.blob = pub.blob
    BY <1>6, NoPubType DEF FanIn, Handler
  <2>3. QED
    BY <1>4, <2>1, <2>2
<1>7. ASSUME NEW k \in Keys, Restart(k)
      PROVE  ManifestsSourced' /\ published \subseteq published'
  BY <1>7, NoPubType DEF Restart, ManifestsSourced
<1>8. CASE BeginResign \/ ResignStep
  BY <1>8 DEF BeginResign, ResignStep, ResignRead, ResignWrite, EndResign, served, ManifestsSourced
<1>9. QED
  BY <1>1, <1>2, <1>3, <1>5, <1>6, <1>7, <1>8 DEF ServerStep, PublishStep

\* A command that stores nothing.
LEMMA IdleSourced ==
    ASSUME ClientSourced, UNCHANGED published, run'.pc # "transfer", UNCHANGED home
    PROVE  ClientSourced'
  BY DEF ClientSourced

\* What the client fetches and stores comes from a manifest of the server.
LEMMA ClientKeepsSourced ==
    ASSUME TypeInv, ManifestsSourced, ClientSourced, ClientStep
    PROVE  ClientSourced'
<1> USE DEF TypeInv
<1>0. UNCHANGED server
  BY ClientStepTypes
<1>1. UNCHANGED published
  BY <1>0 DEF server
<1>2. CASE Watch \/ \E v \in Versions : Recover(v)
  <2>1. run'.pc = "headers" /\ UNCHANGED home
    BY <1>2 DEF Watch, Recover, Begin, Locals
  <2>2. QED
    BY <1>1, <2>1, IdleSourced
<1>3. CASE \E keys \in SUBSET Keys : SetTrusted(keys)
  <2>1. run.pc = "idle" /\ UNCHANGED <<home, run>>
    BY <1>3 DEF SetTrusted
  <2>2. QED
    BY <1>1, <2>1, IdleSourced
<1>4. CASE GetHeaders \/ GetBody
  <2>1. /\ UNCHANGED home
        /\ run'.pc = "transfer" => /\ run'.version = run.version /\ run.version \in Versions
                                   /\ run'.man = json[run.version] /\ json[run.version] # None
    BY <1>4, GetTypes
  <2>2. QED
    BY <1>1, <2>1 DEF ClientSourced, ManifestsSourced
<1>5. CASE run' = Idle /\ UNCHANGED home
  BY <1>1, <1>5, IdleType, IdleSourced
<1>6. CASE ApplyPatch \/ DownloadBlob
  <2>1. /\ run.pc = "transfer"
        /\ Fail \/ (\E name : FailWithout(name)) \/ \E names : StoreBlob(run.man.blob, names)
    BY <1>6, TransferStores
  <2>2. CASE Fail
    BY <1>5, <2>2 DEF Fail
  <2>3. CASE \E name : FailWithout(name)
    <3>1. run' = Idle /\ home'.blobs = home.blobs
      BY <2>3, FailWithoutTypes
    <3>2. QED
      BY <1>1, <3>1, IdleType DEF ClientSourced
  <2>4. ASSUME NEW names, StoreBlob(run.man.blob, names) PROVE ClientSourced'
    <3>1. /\ run'.pc = "remove" /\ run.version \in Versions
          /\ home'.blobs = [home.blobs EXCEPT ![run.version] = run.man.blob]
      BY <2>1, <2>4, StoreBlobTypes
    <3>2. /\ home'.blobs[run.version] = run.man.blob
          /\ \A w \in Versions : w # run.version => home'.blobs[w] = home.blobs[w]
      BY <3>1, HomeFields
    <3>3. QED
      BY <1>1, <2>1, <3>1, <3>2 DEF ClientSourced
  <2>5. QED
    BY <2>1, <2>2, <2>3, <2>4
<1>7. CASE \/ RemoveDist \/ Extract \/ FlipCurrent
           \/ TransferStops \/ RemoveStops \/ ExtractStops \/ ExtractRefuses \/ Abort
  <2>1. home'.blobs = home.blobs /\ run'.pc # "transfer"
    BY <1>7, RemoveDistTypes, ExtractTypes, FlipTypes, TransferStopsTypes, DistStopsTypes,
       AbortTypes, IdleType
  <2>2. QED
    BY <1>1, <2>1 DEF ClientSourced
<1>8. CASE SaveAndPrune
  <2>1. run' = Idle /\ \A w \in Versions : home'.blobs[w] \in {home.blobs[w], None}
    BY <1>8, SaveTypes
  <2>2. QED
    BY <1>1, <2>1, IdleType DEF ClientSourced
<1>9. CASE Refuse
  BY <1>5, <1>9 DEF Refuse, Fail
<1>10. QED
  BY <1>2, <1>3, <1>4, <1>6, <1>7, <1>8, <1>9 DEF ClientStep, InstallStep

\* Every step keeps the provenance of the manifests on both sides.
LEMMA SourcedStep ==
    ASSUME TypeInv, Sourced, [Next]_vars
    PROVE  Sourced' /\ published \subseteq published'
<1>0. ManifestsSourced /\ ClientSourced
  BY DEF Sourced
<1>1. CASE ServerStep
  <2>1. ManifestsSourced' /\ published \subseteq published'
    BY <1>0, <1>1, ServerKeepsSourced
  <2>2. UNCHANGED <<home, run>>
    BY <1>1, ServerStepsKeepClient
  <2>3. ClientSourced'
    BY <1>0, <2>1, <2>2 DEF ClientSourced
  <2>4. QED
    BY <2>1, <2>3 DEF Sourced
<1>2. CASE ClientStep
  <2>1. ClientSourced'
    BY <1>0, <1>2, ClientKeepsSourced
  <2>2. UNCHANGED <<pub, json, published>>
    BY <1>2, ClientStepTypes DEF server, served
  <2>3. ManifestsSourced'
    BY <1>0, <2>2 DEF ManifestsSourced
  <2>4. QED
    BY <2>1, <2>2, <2>3 DEF Sourced
<1>3. CASE UNCHANGED vars
  BY <1>3 DEF Sourced, ManifestsSourced, ClientSourced, vars, server, served
<1>4. QED
  BY <1>1, <1>2, <1>3, StepIsOneSided

\* Where the run of a step of the client may go, step by step: the effects on
\* the tree, the link and what is recorded.
LEMMA ClientEffect ==
    ASSUME TypeInv, ClientStep
    PROVE  \/ /\ run'.pc \in {"idle", "headers", "body", "transfer", "remove"}
              /\ home'.current = home.current /\ home'.link = home.link
              /\ home'.dist = home.dist /\ home'.torn = home.torn
              /\ \/ run'.pc \in {"idle", "headers"}
                 \/ run.pc = "headers" /\ run'.version = run.version /\ Served(run.version)
                 \/ run.pc \notin {"idle", "headers"} /\ run'.version = run.version
           \/ RemoveDist \/ Extract \/ FlipCurrent \/ SaveAndPrune
           \/ RemoveStops \/ ExtractStops \/ ExtractRefuses \/ Abort
<1> USE DEF TypeInv
<1>1. CASE (\E v \in Versions : Recover(v)) \/ Watch
  BY <1>1 DEF Recover, Watch, Begin, Locals
<1>2. CASE \E keys \in SUBSET Keys : SetTrusted(keys)
  BY <1>2 DEF SetTrusted
<1>3. CASE Fail
  BY <1>3, IdleType DEF Fail
<1>4. CASE GetHeaders
  BY <1>4 DEF GetHeaders, Locals, Idle
<1>5. CASE GetBody
  BY <1>5 DEF GetBody, Locals, Idle
<1>6. CASE ApplyPatch \/ DownloadBlob
  <2>1. /\ run.pc = "transfer"
        /\ Fail \/ (\E name : FailWithout(name)) \/ \E names : StoreBlob(run.man.blob, names)
    BY <1>6, TransferStores
  <2>2. CASE \E name : FailWithout(name)
    BY <2>2, FailWithoutTypes, IdleType
  <2>3. CASE \E names : StoreBlob(run.man.blob, names)
    BY <2>1, <2>3, StoreBlobTypes
  <2>4. QED
    BY <1>3, <2>1, <2>2, <2>3
<1>7. CASE TransferStops
  BY <1>7, TransferStopsTypes, IdleType
<1>8. QED
  BY <1>1, <1>2, <1>3, <1>4, <1>5, <1>6, <1>7 DEF ClientStep, InstallStep, Refuse

\* Every step keeps what the extraction works on and what it has made.
LEMMA UnpackedStep ==
    ASSUME TypeInv, Unpacked, [Next]_vars
    PROVE  Unpacked'
<1> USE DEF TypeInv
<1>1. CASE UNCHANGED <<home, run>>
  BY <1>1 DEF Unpacked
<1>2. CASE run'.pc \notin {"extract", "flip", "save"}
  BY <1>2 DEF Unpacked
<1>3. CASE ServerStep
  BY <1>1, <1>3, ServerStepsKeepClient
<1>4. CASE RemoveDist
  <2>1. /\ run'.pc = "extract" /\ run'.version = run.version
        /\ home'.dist[run.version] = run'.left /\ home'.torn = home.torn \cup {run.version}
    BY <1>4, RemoveDistTypes
  <2>2. QED
    BY <2>1 DEF Unpacked
<1>5. CASE Extract
  <2>1. /\ run.pc = "extract" /\ run'.pc = "flip" /\ run'.version = run.version
        /\ run'.left = run.left /\ home'.blobs = home.blobs
        /\ home'.dist[run.version] = Over(TreeOf(home.blobs[run.version]), home.dist[run.version])
    BY <1>5, ExtractTypes DEF TheBlob
  <2>2. QED
    BY <2>1 DEF Unpacked
<1>6. CASE FlipCurrent
  <2>1. /\ run.pc = "flip" /\ run'.pc = "save" /\ run'.version = run.version
        /\ run'.left = run.left /\ home'.blobs = home.blobs /\ home'.dist = home.dist
    BY <1>6, FlipTypes
  <2>2. QED
    BY <2>1 DEF Unpacked
<1>7. CASE SaveAndPrune \/ RemoveStops \/ ExtractStops \/ ExtractRefuses \/ Abort
  BY <1>2, <1>7, SaveTypes, DistStopsTypes, AbortTypes, IdleType
<1>8. CASE UNCHANGED vars
  BY <1>1, <1>8 DEF vars
<1>9. QED
  BY <1>2, <1>3, <1>4, <1>5, <1>6, <1>7, <1>8, StepIsOneSided, ClientEffect

\* For every archive, however often an entry is repeated, whatever was on disk
\* before and whatever ran in between: what Install records is a version with
\* the files of an archive that was published as that version, and no other
\* file but one that the removal of the old tree failed on.
THEOREM InstallsArePublished == Spec => []InstalledIsPublished
<1>1. Init => Sourced /\ Unpacked
  BY NoPubType, IdleType DEF Init, Sourced, ManifestsSourced, ClientSourced, Unpacked
<1>2. TypeInv /\ Sourced /\ [Next]_vars => Sourced'
  BY SourcedStep
<1>3. TypeInv /\ Unpacked /\ [Next]_vars => Unpacked'
  BY UnpackedStep
<1>4. TypeInv /\ Sourced /\ Unpacked => InstalledIsPublished
  <2> SUFFICES ASSUME TypeInv, Sourced, Unpacked, run.pc = "save"
               PROVE  /\ [version |-> run.version, blob |-> TheBlob] \in published
                      /\ home.dist[run.version] = Over(TreeOf(TheBlob), run.left)
    BY DEF InstalledIsPublished, Over
  <2>1. run.version \in Versions /\ home.blobs[run.version] \in Blobs
    BY DEF TypeInv, ClientTypes
  <2>2. home.blobs[run.version] # None
    BY <2>1, NoneAssumption
  <2>3. QED
    BY <2>1, <2>2 DEF Sourced, ManifestsSourced, ClientSourced, Unpacked, TheBlob
<1>5. QED
  BY <1>1, <1>2, <1>3, <1>4, Typed, PTL DEF Spec

----------------------------------------------------------------------------
(* verify *)

\* No step forgets an incident.
LEMMA IncidentsStay ==
    ASSUME TypeInv, [Next]_vars
    PROVE  count.incidents \subseteq count'.incidents
<1>1. CASE ClientStep
  BY <1>1, ClientPublishesNothing DEF TypeInv
<1>2. CASE UNCHANGED count
  BY <1>2
<1>3. CASE \E kind \in Kinds : Incident(kind)
  BY <1>3, IncidentCounted DEF TypeInv
<1>4. ASSUME NEW v \in Versions, NEW b \in Blobs, Publish(v, b)
      PROVE  count'.incidents = count.incidents
  <2>1. count' = [count EXCEPT !.publishes = @ + 1]
    BY <1>4 DEF Publish
  <2>2. QED
    BY <2>1 DEF TypeInv, CountOK
<1>5. CASE ServerStep
  <2>1. \/ UNCHANGED count
        \/ \E kind \in Kinds : Incident(kind)
        \/ \E v \in Versions, b \in Blobs : Publish(v, b)
    BY <1>5 DEF ServerStep, Drop, PublishStep, WriteJson, WriteSig, FanIn, Restart, BeginResign,
                ResignStep, ResignRead, ResignWrite, EndResign, Kinds
  <2>2. QED
    BY <1>2, <1>3, <1>4, <2>1
<1>6. CASE UNCHANGED vars
  BY <1>6 DEF vars
<1>7. QED
  BY <1>1, <1>5, <1>6, StepIsOneSided

\* A tree that is empty although the archive was extracted is an empty archive's.
LEMMA ExtractedFills ==
    ASSUME NEW b, NEW v, [version |-> v, blob |-> b] \in published, NEW left
    PROVE  Over(TreeOf(b), left) # {} \/ \E r \in published : r.version = v /\ TreeOf(r.blob) = {}
<1> DEFINE r == [version |-> v, blob |-> b]
<1>1. r.version = v /\ r.blob = b /\ r \in published
  OBVIOUS
<1> HIDE DEF r
<1>2. QED
  BY <1>1 DEF Over

\* Every step keeps the recorded version filled, or its emptiness explained.
LEMMA FilledStep ==
    ASSUME TypeInv, Sourced, Unpacked, Filled, [Next]_vars
    PROVE  Filled'
<1> USE DEF TypeInv
<1>0. /\ published \subseteq published'
      /\ home.current # None => home.current \in Versions
  BY SourcedStep, HomeFields DEF Maybe
<1>1. ASSUME home'.current = home.current, home'.dist = home.dist, home'.torn = home.torn
      PROVE  Filled'
  BY <1>0, <1>1 DEF Filled, Emptied
<1>2. CASE UNCHANGED home
  BY <1>1, <1>2
<1>3. CASE ServerStep
  BY <1>2, <1>3, ServerStepsKeepClient
\* As long as the tree of the run's version counts as torn, it may lack files.
<1>4. ASSUME run.version \in home'.torn, home'.current = home.current, home.torn \subseteq home'.torn,
             \A w \in Versions : w # run.version => home'.dist[w] = home.dist[w]
      PROVE  Filled'
  BY <1>0, <1>4 DEF Filled, Emptied
<1>5. CASE RemoveDist
  BY <1>4, <1>5, RemoveDistTypes
<1>6. CASE RemoveStops \/ ExtractStops \/ ExtractRefuses
  <2>1. /\ run.pc \in {"remove", "extract"} /\ home'.current = home.current
        /\ run.pc = "extract" => home'.torn = home.torn
        /\ run.pc = "remove" => home'.torn = home.torn \cup {run.version}
        /\ \A w \in Versions : w # run.version => home'.dist[w] = home.dist[w]
    BY <1>6, DistStopsTypes
  <2>2. QED
    BY <1>4, <2>1 DEF Unpacked
<1>7. CASE Extract
  <2>1. /\ run.version \in Versions /\ TheBlob \in Blobs /\ home'.current = home.current
        /\ home'.dist[run.version] = Over(TreeOf(TheBlob), home.dist[run.version])
        /\ home'.torn = home.torn \ {run.version}
        /\ \A w \in Versions : w # run.version => home'.dist[w] = home.dist[w]
    BY <1>7, ExtractTypes
  <2>2. [version |-> run.version, blob |-> TheBlob] \in published
    BY <2>1, NoneAssumption DEF Sourced, ClientSourced, TheBlob
  <2>3. \/ home'.dist[run.version] # {}
        \/ \E r \in published : r.version = run.version /\ TreeOf(r.blob) = {}
    BY <2>1, <2>2, ExtractedFills
  <2>4. QED
    BY <1>0, <2>1, <2>3 DEF Filled, Emptied
<1>8. CASE FlipCurrent \/ Abort
  BY <1>1, <1>8, FlipTypes, AbortTypes
<1>9. CASE SaveAndPrune
  <2>1. /\ run.pc = "save" /\ run.version \in Versions
        /\ home'.current = run.version /\ home'.dist = home.dist
    BY <1>9, SaveTypes
  <2>2. home.blobs[run.version] \in Blobs
    BY <2>1 DEF ClientTypes
  <2>3. [version |-> run.version, blob |-> home.blobs[run.version]] \in published
    BY <2>1, <2>2, NoneAssumption DEF Sourced, ClientSourced
  <2>4. home.dist[run.version] = Over(TreeOf(home.blobs[run.version]), run.left)
    BY <2>1 DEF Unpacked
  <2>5. \/ home.dist[run.version] # {}
        \/ \E r \in published : r.version = run.version /\ TreeOf(r.blob) = {}
    BY <2>3, <2>4, ExtractedFills
  <2>6. QED
    BY <1>0, <2>1, <2>5 DEF Filled, Emptied
<1>10. CASE UNCHANGED vars
  BY <1>2, <1>10 DEF vars
<1>11. QED
  BY <1>1, <1>3, <1>5, <1>6, <1>7, <1>8, <1>9, <1>10, StepIsOneSided, ClientEffect

\* Every step keeps the link, or an incident explains that it is gone.
LEMMA LinkedStep ==
    ASSUME TypeInv, Linked, [Next]_vars
    PROVE  Linked'
<1> USE DEF TypeInv
<1>0. count.incidents \subseteq count'.incidents
  BY IncidentsStay
<1>1. ASSUME home'.link = home.link, home'.current = home.current, run'.pc = "save" => run.pc = "save"
      PROVE  Linked'
  BY <1>0, <1>1 DEF Linked
<1>2. CASE ServerStep
  BY <1>1, <1>2, ServerStepsKeepClient
<1>3. CASE RemoveDist \/ Extract \/ RemoveStops \/ ExtractStops \/ ExtractRefuses
  BY <1>1, <1>3, RemoveDistTypes, ExtractTypes, DistStopsTypes, IdleType
<1>4. CASE Abort
  BY <1>4, AbortTypes DEF Linked
<1>5. CASE FlipCurrent
  <2>1. run.version \in Versions /\ home'.link = run.version
    BY <1>5, FlipTypes
  <2>2. QED
    BY <2>1, NoneAssumption DEF Linked
<1>6. CASE SaveAndPrune
  <2>1. run.pc = "save" /\ run' = Idle /\ home'.link = home.link
    BY <1>6, SaveTypes
  <2>2. QED
    BY <1>0, <2>1, IdleType DEF Linked
<1>7. CASE UNCHANGED vars
  BY <1>1, <1>7 DEF vars
<1>8. QED
  BY <1>1, <1>2, <1>3, <1>4, <1>5, <1>6, <1>7, StepIsOneSided, ClientEffect

\* A manifest with its signature and its row stays until a drop.
LEMMA ServedUntilDrop ==
    ASSUME TypeInv, [Next]_vars, ~ \E v \in Versions : Drop(v)
    PROVE  \A w \in Versions : Served(w) => Served(w)'
<1> USE DEF TypeInv
<1>0. \A x \in Manifest \cup Signature : x # None
  BY NoneAssumption
<1>1. CASE UNCHANGED <<rows, json, sig>>
  BY <1>1 DEF Served, Listed
<1>2. ASSUME NEW v \in Versions, NEW b \in Blobs, Publish(v, b)
      PROVE  \A w \in Versions : Served(w) => Served(w)'
  <2> DEFINE r == [version |-> v, blob |-> b]
  <2>1. rows' = <<r>> \o rows /\ UNCHANGED <<json, sig>>
    BY <1>2 DEF Publish
  <2>2. r \in Row /\ rows \in Seq(Row)
    BY DEF Row, ServerTypes
  <2> HIDE DEF r
  <2>3. /\ rows' \in Seq(Row) /\ Len(rows') = Len(rows) + 1
        /\ \A i \in 1..Len(rows) : rows'[i + 1] = rows[i]
    BY <2>1, <2>2, Prepended
  <2>4. ASSUME NEW w, Listed(w) PROVE Listed(w)'
    <3>1. PICK i \in 1..Len(rows) : rows[i].version = w
      BY <2>2, <2>4 DEF Listed
    <3>2. i + 1 \in DOMAIN rows' /\ rows'[i + 1] = rows[i]
      BY <2>2, <2>3
    <3>3. QED
      BY <3>1, <3>2 DEF Listed
  <2>5. QED
    BY <2>1, <2>4 DEF Served
<1>3. CASE WriteJson
  <2>1. /\ json' = [json EXCEPT ![pub.version] = TheManifest] /\ UNCHANGED <<rows, sig>>
        /\ pub.pc = "json"
    BY <1>3 DEF WriteJson
  <2>2. TheManifest # None
    BY <1>0, <2>1, ManifestType
  <2>3. \A w \in Versions : json[w] # None => json'[w] # None
    BY <2>1, <2>2 DEF ServerTypes
  <2>4. QED
    BY <2>1, <2>3 DEF Served, Listed
<1>4. ASSUME NEW v, NEW s \in Signature, sig' = [sig EXCEPT ![v] = s], UNCHANGED <<rows, json>>
      PROVE  \A w \in Versions : Served(w) => Served(w)'
  <2>1. \A w \in Versions : sig[w] # None => sig'[w] # None
    BY <1>0, <1>4 DEF ServerTypes
  <2>2. QED
    BY <1>4, <2>1 DEF Served, Listed
<1>5. CASE WriteSig
  <2> DEFINE s == [by |-> key, of |-> TheManifest]
  <2>1. sig' = [sig EXCEPT ![pub.version] = s] /\ UNCHANGED <<rows, json>> /\ pub.pc = "sig"
    BY <1>5 DEF WriteSig
  <2>2. s \in Signature
    BY <2>1, ManifestType, SignatureType DEF ServerTypes
  <2> HIDE DEF s
  <2>3. QED
    BY <1>4, <2>1, <2>2
<1>6. CASE ResignWrite
  <2> DEFINE s == [by |-> resign.by, of |-> resign.bytes]
  <2>1. sig' = [sig EXCEPT ![resign.version] = s] /\ UNCHANGED <<rows, json>> /\ resign.version # None
    BY <1>6 DEF ResignWrite
  <2>2. s \in Signature
    BY <2>1, SignatureType DEF ServerTypes
  <2> HIDE DEF s
  <2>3. QED
    BY <1>4, <2>1, <2>2
<1>7. CASE FanIn \/ BeginResign \/ EndResign \/ \E v \in Versions : ResignRead(v)
  BY <1>1, <1>7 DEF FanIn, BeginResign, EndResign, ResignRead, served
<1>8. CASE \E k \in Keys : Restart(k)
  BY <1>1, <1>8 DEF Restart
<1>9. CASE ClientStep
  BY <1>1, <1>9, ClientStepTypes DEF server, served
<1>10. CASE UNCHANGED vars
  BY <1>1, <1>10 DEF vars, server, served
<1>11. QED
  BY <1>2, <1>3, <1>5, <1>6, <1>7, <1>8, <1>9, <1>10, StepIsOneSided
     DEF ServerStep, PublishStep, ResignStep

\* Every step keeps what the client has, or installs, to be fetched.
LEMMA FetchableStep ==
    ASSUME TypeInv, Fetchable, [Next]_vars
    PROVE  Fetchable'
<1> USE DEF TypeInv
<1>0. count.incidents \subseteq count'.incidents
  BY IncidentsStay
<1>1. CASE \E v \in Versions : Drop(v)
  <2>1. Incident("drop")
    BY <1>1 DEF Drop
  <2>2. "drop" \in count'.incidents
    BY <2>1, IncidentCounted DEF Kinds
  <2>3. QED
    BY <2>2 DEF Fetchable
<1>2. CASE "drop" \in count'.incidents
  BY <1>2 DEF Fetchable
<1>3. CASE ~ (\E v \in Versions : Drop(v)) /\ "drop" \notin count'.incidents
  <2>1. \A w \in Versions : Served(w) => Served(w)'
    BY <1>3, ServedUntilDrop
  <2>2. /\ home.current # None => Served(home.current)
        /\ run.pc \notin {"idle", "headers"} => Served(run.version)
    BY <1>0, <1>3 DEF Fetchable
  <2>3. /\ home.current # None => home.current \in Versions
        /\ run.pc # "idle" => run.version \in Versions
    BY HomeFields DEF Maybe, ClientTypes
  <2>4. ASSUME /\ home'.current = home.current \/ (home'.current = run.version /\ run.pc = "save")
               /\ \/ run'.pc \in {"idle", "headers"}
                  \/ run.pc = "headers" /\ run'.version = run.version /\ Served(run.version)
                  \/ run.pc \notin {"idle", "headers"} /\ run'.version = run.version
        PROVE  Fetchable'
    BY <2>1, <2>2, <2>3, <2>4 DEF Fetchable
  <2>5. CASE ServerStep \/ UNCHANGED vars
    <3>1. UNCHANGED <<home, run>>
      BY <2>5, ServerStepsKeepClient DEF vars
    <3>2. QED
      BY <2>1, <2>2, <2>3, <3>1 DEF Fetchable
  <2>6. CASE RemoveDist \/ Extract \/ FlipCurrent
    BY <2>4, <2>6, RemoveDistTypes, ExtractTypes, FlipTypes
  <2>7. CASE RemoveStops \/ ExtractStops \/ ExtractRefuses \/ Abort
    BY <2>4, <2>7, DistStopsTypes, AbortTypes, IdleType
  <2>8. CASE SaveAndPrune
    BY <2>4, <2>8, SaveTypes, IdleType
  <2>9. QED
    BY <2>4, <2>5, <2>6, <2>7, <2>8, StepIsOneSided, ClientEffect
<1>4. QED
  BY <1>1, <1>2, <1>3

\* A blob that verify finds at odds with the manifest is one of two that were
\* published for the version.
LEMMA MismatchMeansRepublished ==
    ASSUME TypeInv, Sourced
    PROVE  BlobMismatchMeansRepublished
<1> SUFFICES ASSUME home.current # None, "blob sha256" \in Verify(FALSE)
             PROVE  \E r, s \in published : /\ r.version = home.current
                                            /\ s.version = home.current /\ r # s
  BY DEF BlobMismatchMeansRepublished
<1> DEFINE v == home.current
           r == [version |-> v, blob |-> home.blobs[v]]
           s == [version |-> v, blob |-> json[v].blob]
<1>1. v \in Versions
  BY HomeFields DEF TypeInv, Maybe
<1>2. "blob sha256" \in OnlineFailures
  BY DEF Verify, OfflineFailures
<1>3. json[v] # None /\ home.blobs[v] # None /\ home.blobs[v] # json[v].blob
  BY <1>2 DEF OnlineFailures, Served
<1>4. r \in published /\ s \in published
  BY <1>1, <1>3 DEF Sourced, ManifestsSourced, ClientSourced
<1>5. r.version = v /\ s.version = v /\ r.blob # s.blob
  BY <1>3
<1>6. r # s
  BY <1>5
<1> HIDE DEF r, s
<1>7. QED
  BY <1>4, <1>5, <1>6 DEF v

\* A manifest that verify cannot fetch, or whose signature it rejects, has its
\* cause on the server.
LEMMA ManifestAlarmHasCause ==
    ASSUME TypeInv, Signed, Fetchable
    PROVE  ManifestAlarmIsReal
<1> SUFFICES ASSUME home.current # None
             PROVE  /\ "manifest fetch" \in Verify(FALSE) => "drop" \in count.incidents
                    /\ "manifest signature" \in Verify(FALSE) =>
                         home.current \in spoiled \/ (pub.pc = "sig" /\ pub.version = home.current)
  BY DEF ManifestAlarmIsReal
<1> DEFINE v == home.current
<1>1. v \in Versions
  BY HomeFields DEF TypeInv, Maybe
<1>2. \A check : check \in Verify(FALSE) => check \in OfflineFailures \cup OnlineFailures
  BY DEF Verify
<1>3. ASSUME "manifest fetch" \in Verify(FALSE) PROVE "drop" \in count.incidents
  <2>1. "manifest fetch" \in OnlineFailures
    BY <1>2, <1>3 DEF OfflineFailures
  <2>2. ~ Served(v)
    BY <2>1 DEF OnlineFailures
  <2>3. QED
    BY <2>2 DEF Fetchable
<1>4. ASSUME "manifest signature" \in Verify(FALSE)
      PROVE  v \in spoiled \/ (pub.pc = "sig" /\ pub.version = v)
  <2>1. "manifest signature" \in OnlineFailures
    BY <1>2, <1>4 DEF OfflineFailures
  <2>2. Served(v) /\ ~ Verified(json[v], sig[v], key)
    BY <2>1 DEF OnlineFailures
  <2>3. QED
    BY <1>1, <2>2 DEF Signed, Served
<1>5. QED
  BY <1>3, <1>4

\* An empty tree and a missing link have theirs on the client.
LEMMA OfflineAlarmHasCause ==
    ASSUME TypeInv, Filled, Linked
    PROVE  OfflineAlarmIsReal
<1> SUFFICES ASSUME home.current # None
             PROVE  /\ "distribution dir" \in Verify(TRUE) => Emptied(home.current)
                    /\ "current link" \in Verify(TRUE) => "abort" \in count.incidents
  BY DEF OfflineAlarmIsReal, Emptied
<1>1. Verify(TRUE) = OfflineFailures
  BY DEF Verify
<1>2. "distribution dir" \in OfflineFailures => home.dist[home.current] = {}
  BY DEF OfflineFailures
<1>3. "current link" \in OfflineFailures => home.link = None
  BY DEF OfflineFailures
<1>4. QED
  BY <1>1, <1>2, <1>3 DEF Filled, Linked

\* For any archives and any history of publications, drops, rotations, resigns
\* and commands cut off: a wrong blob means that the version was published
\* twice, a missing manifest that one was dropped, a bad signature that an
\* incident has outdated it or its publisher is at work, an empty tree that
\* its removal was not followed by a whole extraction or its archive has no
\* files, a missing link that a command was cut off.
THEOREM VerifyAlarmsAreReal == Spec => []AlarmsAreReal
<1> DEFINE I == Sourced /\ Signed /\ Unpacked /\ Filled /\ Linked /\ Fetchable
<1>1. Init => I
  <2> SUFFICES ASSUME Init PROVE I
    OBVIOUS
  <2>1. pub.pc = "idle" /\ run.pc = "idle"
    BY NoPubType, IdleType DEF Init
  <2>2. home.current = None /\ \A v \in Versions : home.blobs[v] = None /\ json[v] = None
    BY DEF Init
  <2>3. QED
    BY <2>1, <2>2 DEF Sourced, ManifestsSourced, ClientSourced, Signed, Unpacked, Filled, Linked,
                      Fetchable
<1>2. TypeInv /\ I /\ [Next]_vars => I'
  BY SourcedStep, SignedStep, UnpackedStep, FilledStep, LinkedStep, FetchableStep
<1>3. TypeInv /\ I => AlarmsAreReal
  BY MismatchMeansRepublished, ManifestAlarmHasCause, OfflineAlarmHasCause DEF AlarmsAreReal
<1>4. QED
  BY <1>1, <1>2, <1>3, Typed, PTL DEF Spec
=============================================================================
