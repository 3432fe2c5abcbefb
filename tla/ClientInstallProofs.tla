------------------------ MODULE ClientInstallProofs ------------------------
(***************************************************************************)
(* Proofs for module ClientInstall, for every set of versions, every bound *)
(* on the history and every set of archive depths.                         *)
(*                                                                         *)
(* The properties are not inductive by themselves: each speaks of files at *)
(* some point of a run and depends on what the run did before it.  IndInv  *)
(* records, for every program counter, what the steps so far have          *)
(* established.                                                            *)
(***************************************************************************)
EXTENDS ClientInstall, TLAPS

\* Which command a program counter belongs to, and which version it is for.
PcMatchesOp ==
    /\ pc = "idle" => op = "none"
    /\ pc \in {"transfer", "remove", "mkdir", "extract", "pruneOld"} => op = "install"
    /\ pc \in {"swap", "swapRename", "set", "save", "report"} =>
         op \in {"install", "revert"}
    /\ pc = "delete" => op = "prune"
    /\ op \in {"install", "revert"} => target \in Versions

\* Until the run saves it, state.json is what the run loaded; Revert goes to
\* the version that it calls previous.
MemIsState ==
    pc \in {"transfer", "remove", "mkdir", "extract", "swap", "swapRename", "set", "save"} =>
        /\ mem = state
        /\ op = "revert" => target = state.Previous

\* Between RemoveAll and the end of Extract the target's tree is known torn.
RemovalBegun ==
    pc \in {"mkdir", "extract"} => target \in torn

\* From Extract to the end of an install the tree of its version is whole.
TargetWhole ==
    op = "install" /\ pc \in {"swap", "swapRename", "set", "save", "pruneOld", "report"} =>
        dist[target] = "whole"

\* The flip: `current` is there to be renamed, and after SetCurrent it leads
\* to the target.
FlipProgress ==
    /\ pc = "swapRename" => current # NoLink /\ previous = NoLink
    /\ pc \in {"save", "pruneOld", "report"} => ReadCurrent(current) = target

\* After Save an install's version is the current one of state.json.
Saved ==
    op = "install" /\ pc \in {"pruneOld", "report"} => state.Current = target

\* Whatever state.json names, and whatever is about to be reported, is on
\* the history.
NamedInHistory ==
    /\ state.Current # NoVersion => HistoryHas(state, state.Current)
    /\ state.Previous # NoVersion => HistoryHas(state, state.Previous)
    /\ pc \in {"pruneOld", "report"} => HistoryHas(state, target)

\* prune never has a version on its list that state.json names.
TodoUnnamed ==
    op = "prune" => todo \cap {state.Current, state.Previous} = {}

IndInv ==
    /\ TypeOK
    /\ PcMatchesOp
    /\ MemIsState
    /\ RemovalBegun
    /\ TargetWhole
    /\ FlipProgress
    /\ Saved
    /\ NamedInHistory
    /\ TodoUnnamed
    /\ NoMixedKinds
    /\ SomeLinkSurvives
    /\ CommittedKept
    /\ SnapshotNeverAhead

----------------------------------------------------------------------------

\* What SaveInstall writes is a state again, and nothing leaves the history.
LEMMA InstalledState ==
    ASSUME NEW st \in State, NEW v \in Versions
    PROVE  /\ Installed(st, v) \in State
           /\ Installed(st, v).Current = v
           /\ Installed(st, v).Previous \in {st.Current, st.Previous}
           /\ HistoryHas(st, st.Current) => HistoryHas(Installed(st, v), v)
           /\ st.Current # v => HistoryHas(Installed(st, v), v)
           /\ \A w : HistoryHas(st, w) => HistoryHas(Installed(st, v), w)
<1>1. CASE st.Current = v
  BY <1>1 DEF Installed, State, HistoryHas, MaybeVersion
<1>2. CASE st.Current # v
  <2> DEFINE new == Installed(st, v)
  <2>1. /\ new.Current = v
        /\ new.Previous \in {st.Current, st.Previous}
        /\ new.History = Append(st.History, v)
        /\ new \in State
    BY <1>2, NoVersionAssumption DEF Installed, State, MaybeVersion
  <2>2. st.History \in Seq(Versions)
    BY DEF State
  <2>3. /\ Len(new.History) = Len(st.History) + 1
        /\ new.History[Len(st.History) + 1] = v
        /\ \A i \in 1..Len(st.History) : new.History[i] = st.History[i]
        /\ Len(st.History) \in Nat
    BY <2>1, <2>2
  <2>4. HistoryHas(new, v)
    BY <2>3 DEF HistoryHas
  <2>5. \A w : HistoryHas(st, w) => HistoryHas(new, w)
    BY <2>3 DEF HistoryHas
  <2>6. QED
    BY <1>2, <2>1, <2>4, <2>5
<1>3. QED
  BY <1>1, <1>2

\* prune's list holds versions on disk that state.json does not name.
LEMMA CandidatesUnnamed ==
    ASSUME NEW depth, NEW list \in PruneCandidates(depth)
    PROVE  /\ list \subseteq Versions
           /\ list \cap {state.Current, state.Previous} = {}
  BY DEF PruneCandidates, ScanDistributions

\* Every step preserves IndInv.  Most actions move one file and leave the rest
\* alone; the ones that commit state.json, and prune's, need the lemmas above.
LEMMA IndInvStep == IndInv /\ [Next]_vars => IndInv'
<1> SUFFICES ASSUME IndInv, [Next]_vars
             PROVE  IndInv'
  OBVIOUS
<1> USE NoVersionAssumption
<1> USE DEF IndInv, TypeOK, PcMatchesOp, MemIsState, RemovalBegun, TargetWhole, FlipProgress, Saved,
         NamedInHistory, TodoUnnamed, NoMixedKinds, SomeLinkSurvives, CommittedKept,
         SnapshotNeverAhead
<1>1. ASSUME NEW v \in Versions, BeginInstall(v) PROVE IndInv'
  BY <1>1 DEF BeginInstall, disk, Link, NoLink, State, EmptyState, MaybeVersion, PCs, Ops, ReadCurrent, HistoryHas
<1>2. CASE ApplyPatch
  BY <1>2 DEF ApplyPatch, disk, Link, NoLink, State, EmptyState, MaybeVersion, PCs, Ops, ReadCurrent, HistoryHas
<1>3. CASE DownloadBlob
  BY <1>3 DEF DownloadBlob, disk, Link, NoLink, State, EmptyState, MaybeVersion, PCs, Ops, ReadCurrent, HistoryHas
<1>4. CASE RemoveDist
  BY <1>4 DEF RemoveDist, disk, Link, NoLink, State, EmptyState, MaybeVersion, PCs, Ops, ReadCurrent, HistoryHas
<1>5. CASE MakeDist
  BY <1>5 DEF MakeDist, disk, Link, NoLink, State, EmptyState, MaybeVersion, PCs, Ops, ReadCurrent, HistoryHas
<1>6. CASE Extract
  BY <1>6 DEF Extract, disk, Link, NoLink, State, EmptyState, MaybeVersion, PCs, Ops, ReadCurrent, HistoryHas
<1>7. CASE AbortExtract
  <2>1. /\ pc = "extract" /\ target \in Versions /\ target \in torn
        /\ dist' = [dist EXCEPT ![target] = "partial"] /\ Exit
        /\ UNCHANGED <<blobs, current, previous, state, snapshot, torn>>
    BY <1>7 DEF AbortExtract
  <2>2. TypeOK'
    BY <2>1 DEF Exit, EmptyState, State, MaybeVersion, PCs, Ops
  <2>3. /\ PcMatchesOp' /\ MemIsState' /\ RemovalBegun' /\ TargetWhole'
        /\ FlipProgress' /\ Saved' /\ NamedInHistory' /\ TodoUnnamed'
    BY <2>1 DEF Exit, HistoryHas
  <2>4. NoMixedKinds' /\ SomeLinkSurvives' /\ CommittedKept' /\ SnapshotNeverAhead'
    BY <2>1 DEF HistoryHas
  <2>5. QED
    BY <2>2, <2>3, <2>4
<1>8. CASE SwapNothing
  BY <1>8 DEF SwapNothing, disk, Link, NoLink, State, EmptyState, MaybeVersion, PCs, Ops, ReadCurrent, HistoryHas
<1>9. CASE SwapClear
  BY <1>9 DEF SwapClear, disk, Link, NoLink, State, EmptyState, MaybeVersion, PCs, Ops, ReadCurrent, HistoryHas
<1>10. CASE SwapRename
  BY <1>10 DEF SwapRename, disk, Link, NoLink, State, EmptyState, MaybeVersion, PCs, Ops, ReadCurrent, HistoryHas
<1>11. CASE SetCurrent
  BY <1>11 DEF SetCurrent, disk, Link, NoLink, State, EmptyState, MaybeVersion, PCs, Ops, ReadCurrent, HistoryHas
<1>12. CASE SaveInstall
  <2>1. /\ pc = "save" /\ op = "install" /\ pc' = "pruneOld"
        /\ mem = state /\ mem \in State /\ target \in Versions
        /\ dist[target] = "whole" /\ ReadCurrent(current) = target
        /\ state' = Installed(state, target)
        /\ UNCHANGED <<blobs, dist, current, previous, snapshot, op, target, mem, todo, torn>>
    BY <1>12 DEF SaveInstall
  <2>2. /\ state' \in State
        /\ state'.Current = target
        /\ state'.Previous \in {state.Current, state.Previous}
        /\ HistoryHas(state', target)
        /\ \A w : HistoryHas(state, w) => HistoryHas(state', w)
    <3>1. state.Current = target => HistoryHas(state, state.Current)
      BY <2>1
    <3>2. QED
      BY <2>1, <3>1, InstalledState
  <2>3. TypeOK'
    BY <2>1, <2>2 DEF PCs
  <2>4. PcMatchesOp' /\ MemIsState' /\ RemovalBegun' /\ TargetWhole' /\ FlipProgress' /\ Saved'
    BY <2>1, <2>2 DEF ReadCurrent
  <2>5. NamedInHistory' /\ SnapshotNeverAhead'
    BY <2>1, <2>2
  <2>6. TodoUnnamed' /\ NoMixedKinds' /\ SomeLinkSurvives'
    BY <2>1 DEF ReadCurrent, NoLink
  <2>7. CommittedKept'
    BY <2>1, <2>2
  <2>8. QED
    BY <2>3, <2>4, <2>5, <2>6, <2>7
<1>13. CASE PruneOldArtefacts
  BY <1>13 DEF PruneOldArtefacts, disk, Link, NoLink, State, EmptyState, MaybeVersion, PCs, Ops, ReadCurrent, HistoryHas
<1>14. CASE BeginRevert
  BY <1>14 DEF BeginRevert, disk, Link, NoLink, State, EmptyState, MaybeVersion, PCs, Ops, ReadCurrent, HistoryHas
<1>15. CASE SaveRevert
  <2>1. /\ pc = "save" /\ op = "revert" /\ pc' = "report"
        /\ state \in State /\ target \in Versions /\ target = state.Previous
        /\ ReadCurrent(current) = target
        /\ state' = [state EXCEPT !.Current = state.Previous, !.Previous = state.Current]
        /\ UNCHANGED <<blobs, dist, current, previous, snapshot, op, target, mem, todo, torn>>
    BY <1>15 DEF SaveRevert
  <2>2. /\ state' \in State
        /\ state'.Current = state.Previous
        /\ state'.Previous = state.Current
        /\ state'.History = state.History
    BY <2>1 DEF State
  <2>3. \A w : HistoryHas(state', w) <=> HistoryHas(state, w)
    BY <2>2 DEF HistoryHas
  <2>4. TypeOK' /\ PcMatchesOp' /\ MemIsState' /\ RemovalBegun' /\ TargetWhole' /\ FlipProgress' /\ Saved'
    BY <2>1, <2>2 DEF PCs, ReadCurrent
  <2>5. NamedInHistory' /\ SnapshotNeverAhead'
    BY <2>1, <2>2, <2>3 DEF HistoryHas
  <2>6. TodoUnnamed' /\ NoMixedKinds' /\ SomeLinkSurvives' /\ CommittedKept'
    BY <2>1, <2>2 DEF ReadCurrent, NoLink
  <2>7. QED
    BY <2>4, <2>5, <2>6
<1>16. CASE ReportClientState
  BY <1>16 DEF ReportClientState, Exit, disk, Link, NoLink, State, EmptyState, MaybeVersion, PCs, Ops, HistoryHas
<1>17. ASSUME NEW depth \in ArchiveDepths, BeginPrune(depth) PROVE IndInv'
  <2>1. /\ pc = "idle" /\ pc' = "delete" /\ op' = "prune"
        /\ todo' \in PruneCandidates(depth)
        /\ UNCHANGED <<disk, snapshot, target, mem, torn>>
    BY <1>17 DEF BeginPrune
  <2>2. todo' \subseteq Versions /\ todo' \cap {state.Current, state.Previous} = {}
    BY <2>1, CandidatesUnnamed
  <2>3. QED
    BY <2>1, <2>2 DEF disk, PCs, Ops, HistoryHas
<1>18. ASSUME NEW v \in Versions, DeleteDistribution(v) PROVE IndInv'
  <2>1. /\ pc = "delete" /\ op = "prune" /\ v \in todo
        /\ v \notin {state.Current, state.Previous}
        /\ dist' = [dist EXCEPT ![v] = "absent"]
        /\ UNCHANGED <<blobs, current, previous, state, snapshot, torn>>
    BY <1>18 DEF DeleteDistribution
  <2>2. CommittedKept' /\ NoMixedKinds' /\ SomeLinkSurvives' /\ SnapshotNeverAhead'
    BY <2>1 DEF HistoryHas, State, MaybeVersion
  <2>3. CASE todo = {v}
    <3>1. Exit
      BY <1>18, <2>3 DEF DeleteDistribution
    <3>2. TypeOK'
      BY <2>1, <3>1 DEF Exit, EmptyState, State, MaybeVersion, PCs, Ops
    <3>3. /\ PcMatchesOp' /\ MemIsState' /\ RemovalBegun' /\ TargetWhole'
          /\ FlipProgress' /\ Saved' /\ TodoUnnamed'
      BY <2>1, <3>1 DEF Exit
    <3>4. NamedInHistory'
      BY <2>1, <3>1 DEF Exit
    <3>5. QED
      BY <2>2, <3>2, <3>3, <3>4
  <2>4. CASE todo # {v}
    BY <1>18, <2>1, <2>2, <2>4 DEF DeleteDistribution, HistoryHas
  <2>5. QED
    BY <2>3, <2>4
<1>19. ASSUME NEW v \in Versions, AbortDelete(v) PROVE IndInv'
  BY <1>19 DEF AbortDelete, Exit, Link, NoLink, State, EmptyState, MaybeVersion, PCs, Ops, HistoryHas
<1>20. CASE Abort
  BY <1>20 DEF Abort, Exit, disk, Link, NoLink, State, EmptyState, MaybeVersion, PCs, Ops, HistoryHas
<1>21. CASE UNCHANGED vars
  BY <1>21 DEF vars, ReadCurrent, HistoryHas
<1>22. QED
  BY <1>1, <1>2, <1>3, <1>4, <1>5, <1>8, <1>9, <1>10, <1>11, <1>12, <1>13, <1>14, <1>15, <1>16, <1>17, <1>18, <1>19, <1>20, <1>21,
     <1>6, <1>7 DEF Next

----------------------------------------------------------------------------

\* Before the first run nothing is installed and IndInv holds.
LEMMA IndInvInit == Init => IndInv
<1> SUFFICES ASSUME Init PROVE IndInv
  OBVIOUS
<1> USE NoVersionAssumption
<1>1. TypeOK
  BY DEF Init, TypeOK, Link, NoLink, State, EmptyState, MaybeVersion, PCs, Ops
<1>2. PcMatchesOp /\ MemIsState /\ RemovalBegun /\ TargetWhole /\ FlipProgress /\ Saved /\ TodoUnnamed
  BY DEF Init, PcMatchesOp, MemIsState, RemovalBegun, TargetWhole, FlipProgress, Saved, TodoUnnamed
<1>3. NamedInHistory /\ SomeLinkSurvives /\ CommittedKept /\ SnapshotNeverAhead
  BY DEF Init, EmptyState, NamedInHistory, SomeLinkSurvives, CommittedKept,
         SnapshotNeverAhead
<1>4. NoMixedKinds
  BY DEF Init, NoLink, NoMixedKinds
<1>5. QED
  BY <1>1, <1>2, <1>3, <1>4 DEF IndInv

\* The inductive invariant holds in every state of every run, with any number
\* of interrupted commands.
THEOREM IndInvHolds == Spec => []IndInv
  BY IndInvInit, IndInvStep, PTL DEF Spec

\* Every variable keeps its type: state.json, the links and the directories
\* only ever name versions that were asked for.
THEOREM TypeCorrect == Spec => []TypeOK
<1>1. IndInv => TypeOK
  BY DEF IndInv
<1>2. QED
  BY <1>1, IndInvHolds, PTL

\* The links of the flip (platform.go): never two forms of one link, and never
\* both links lost once an installation is recorded.
THEOREM LinksSurvive == Spec => []LinksUsable
<1>1. IndInv => LinksUsable
  BY DEF IndInv, LinksUsable
<1>2. QED
  BY <1>1, IndInvHolds, PTL

\* The trees of the current and the previous version named by state.json lose
\* files only to a reinstall of that same version that did not come to the end
\* of its extraction: neither prune, nor a revert, nor the install of another
\* version, interrupted at any call, harms them.
THEOREM CommittedDistributionsKept == Spec => []CommittedKept
<1>1. IndInv => CommittedKept
  BY DEF IndInv
<1>2. QED
  BY <1>1, IndInvHolds, PTL

\* An install that saves state.json leaves link, state.json and tree agreeing,
\* from whatever earlier interrupted runs left behind.
THEOREM InstallAlwaysRepairs == Spec => []InstallRepairs
<1>1. IndInv => InstallRepairs
  BY DEF IndInv, InstallRepairs, TargetWhole, FlipProgress, Saved
<1>2. QED
  BY <1>1, IndInvHolds, PTL

\* The row the server counts users by only ever names a release that the client
\* committed to its state.json.
THEOREM ReportsAreCommitted == Spec => []SnapshotNeverAhead
<1>1. IndInv => SnapshotNeverAhead
  BY DEF IndInv
<1>2. QED
  BY <1>1, IndInvHolds, PTL

\* One step of the action property: only an install of that version and prune
\* make a whole distribution less than whole.
LEMMA DistLossStep ==
    ASSUME IndInv, [Next]_vars, NEW v \in Versions,
           dist[v] = "whole", dist'[v] # "whole"
    PROVE  \/ op = "install" /\ v = target
           \/ op = "prune" /\ v \notin {state.Current, state.Previous}
<1> USE DEF IndInv, TypeOK
<1>1. CASE RemoveDist \/ MakeDist \/ Extract \/ AbortExtract
  BY <1>1 DEF RemoveDist, MakeDist, Extract, AbortExtract, PcMatchesOp
<1>2. ASSUME NEW w \in Versions, DeleteDistribution(w) \/ AbortDelete(w)
      PROVE  op = "prune" /\ v \notin {state.Current, state.Previous}
  BY <1>2 DEF DeleteDistribution, AbortDelete, PcMatchesOp, TodoUnnamed
<1>3. CASE UNCHANGED dist
  BY <1>3
<1>4. \/ UNCHANGED dist
      \/ RemoveDist \/ MakeDist \/ Extract \/ AbortExtract
      \/ \E w \in Versions : DeleteDistribution(w) \/ AbortDelete(w)
  BY DEF Next, vars, disk, BeginInstall, ApplyPatch, DownloadBlob, SwapNothing,
         SwapClear, SwapRename, SetCurrent, SaveInstall, PruneOldArtefacts,
         BeginRevert, SaveRevert, ReportClientState, BeginPrune, Abort
<1>5. QED
  BY <1>1, <1>2, <1>3, <1>4

\* No step harms the tree of a version other than the one being installed, and
\* prune spares those that state.json names.
THEOREM DistLossAlwaysDeliberate == Spec => DistLossIsDeliberate
<1>1. IndInv /\ [Next]_vars =>
        [\A v \in Versions :
           dist[v] = "whole" /\ dist'[v] # "whole" =>
             \/ op = "install" /\ v = target
             \/ op = "prune" /\ v \notin {state.Current, state.Previous}]_vars
  BY DistLossStep
<1>2. QED
  BY <1>1, IndInvHolds, PTL DEF Spec, DistLossIsDeliberate

----------------------------------------------------------------------------
(* Local retention *)

Distinct(h) == \A i, j \in 1..Len(h) : h[i] = h[j] => i = j

\* As long as no version was installed twice, the last two entries of the
\* history have their blobs; and from the transfer to the save so has the
\* version that is about to become the last.
LastTwoKept ==
    Distinct(state.History) =>
        \A i \in 1..Len(state.History) :
            i + 1 >= Len(state.History) => state.History[i] \in blobs

TargetStored ==
    op = "install" /\ pc \in {"remove", "mkdir", "extract", "swap", "swapRename", "set", "save"} =>
        target \in blobs

RetentionInv == LastTwoKept /\ TargetStored

\* A new entry at the end: the last two are the new one and the former last.
LEMMA AppendedHistory ==
    ASSUME NEW h \in Seq(Versions), NEW v \in blobs, LastTwoKept, h = state.History,
           Distinct(Append(h, v)),
           NEW i \in 1..Len(Append(h, v)), i + 1 >= Len(Append(h, v))
    PROVE  Append(h, v)[i] \in blobs
<1> DEFINE g == Append(h, v)
<1>1. /\ Len(h) \in Nat /\ Len(g) = Len(h) + 1 /\ g[Len(h) + 1] = v
      /\ \A j \in 1..Len(h) : g[j] = h[j]
  OBVIOUS
<1> HIDE DEF g
<1>2. Distinct(h)
  BY <1>1 DEF Distinct, g
<1>3. i \in 1..(Len(h) + 1) /\ i >= Len(h)
  BY <1>1 DEF g
<1>4. CASE i = Len(h) + 1
  BY <1>1, <1>4 DEF g
<1>5. CASE i # Len(h) + 1
  <2>1. i \in 1..Len(h) /\ i + 1 >= Len(h)
    BY <1>1, <1>3, <1>5
  <2>2. QED
    BY <1>1, <1>2, <2>1 DEF LastTwoKept, g
<1>6. QED
  BY <1>4, <1>5

\* The third-last entry is neither of the last two, unless it is there twice.
LEMMA PruneKeepsLastTwo ==
    ASSUME TypeOK, LastTwoKept, PruneOldArtefacts
    PROVE  LastTwoKept'
<1> DEFINE h == state.History
<1>1. h \in Seq(Versions) /\ Len(h) \in Nat
  BY DEF TypeOK, State
<1>2. /\ blobs' = IF Len(h) < 3 THEN blobs ELSE blobs \ {h[Len(h) - 2]}
      /\ UNCHANGED state
  BY DEF PruneOldArtefacts
<1> HIDE DEF h
<1>3. ASSUME Distinct(h), NEW i \in 1..Len(h), i + 1 >= Len(h)
      PROVE  h[i] \in blobs'
  <2>1. h[i] \in blobs
    BY <1>3 DEF LastTwoKept, h
  <2>2. CASE Len(h) < 3
    BY <1>2, <2>1, <2>2
  <2>3. CASE ~ (Len(h) < 3)
    <3>1. Len(h) - 2 \in 1..Len(h) /\ i # Len(h) - 2
      BY <1>1, <1>3, <2>3
    <3>2. h[i] # h[Len(h) - 2]
      BY <1>3, <3>1 DEF Distinct
    <3>3. QED
      BY <1>2, <2>1, <2>3, <3>2
  <2>4. QED
    BY <2>2, <2>3
<1>4. QED
  BY <1>2, <1>3 DEF LastTwoKept, h

\* Every step keeps the retention invariant, given the inductive one.
LEMMA RetentionStep == IndInv /\ RetentionInv /\ [Next]_vars => RetentionInv'
<1> SUFFICES ASSUME IndInv, RetentionInv, [Next]_vars
             PROVE  RetentionInv'
  OBVIOUS
<1> USE DEF RetentionInv
<1>1. ASSUME blobs \subseteq blobs', state'.History = state.History PROVE LastTwoKept'
  BY <1>1 DEF LastTwoKept, Distinct
<1>2. CASE \/ RemoveDist \/ MakeDist \/ Extract \/ SwapNothing \/ SwapClear \/ SwapRename \/ SetCurrent
  <2>1. UNCHANGED <<blobs, state, op, target>> /\ TargetStored'
    BY <1>2 DEF RemoveDist, MakeDist, Extract, SwapNothing, SwapClear, SwapRename, SetCurrent, disk, TargetStored
  <2>2. QED
    BY <1>1, <2>1
<1>3. CASE ApplyPatch \/ DownloadBlob
  <2>1. blobs' = blobs \cup {target} /\ UNCHANGED <<state, target>>
    BY <1>3 DEF ApplyPatch, DownloadBlob
  <2>2. QED
    BY <1>1, <2>1 DEF TargetStored
<1>4. CASE SaveInstall
  <2>1. /\ mem = state /\ state \in State /\ target \in Versions /\ target \in blobs
        /\ pc' = "pruneOld" /\ state' = Installed(state, target) /\ UNCHANGED blobs
    BY <1>4 DEF SaveInstall, IndInv, TypeOK, MemIsState, PcMatchesOp, TargetStored
  <2>2. TargetStored'
    BY <2>1 DEF TargetStored
  <2>3. CASE state.Current = target
    BY <1>1, <2>1, <2>2, <2>3 DEF Installed
  <2>4. CASE state.Current # target
    <3>1. state.History \in Seq(Versions) /\ state'.History = Append(state.History, target)
      BY <2>1, <2>4 DEF State, Installed
    <3>2. LastTwoKept'
      BY <2>1, <3>1, AppendedHistory DEF LastTwoKept
    <3>3. QED
      BY <2>2, <3>2
  <2>5. QED
    BY <2>3, <2>4
<1>5. CASE PruneOldArtefacts
  <2>1. pc' = "report"
    BY <1>5 DEF PruneOldArtefacts
  <2>2. QED
    BY <1>5, <2>1, PruneKeepsLastTwo DEF IndInv, TargetStored
<1>6. CASE SaveRevert
  <2>1. /\ state \in State /\ pc' = "report" /\ UNCHANGED blobs
        /\ state' = [state EXCEPT !.Current = state.Previous, !.Previous = state.Current]
    BY <1>6 DEF SaveRevert, IndInv, TypeOK, MemIsState
  <2>2. state'.History = state.History
    BY <2>1 DEF State
  <2>3. QED
    BY <1>1, <2>1, <2>2 DEF TargetStored
<1>7. CASE \/ \E v \in Versions : BeginInstall(v) \/ DeleteDistribution(v) \/ AbortDelete(v)
           \/ BeginRevert \/ ReportClientState \/ Abort \/ AbortExtract
           \/ \E depth \in ArchiveDepths : BeginPrune(depth)
  <2>1. UNCHANGED <<blobs, state>>
    BY <1>7 DEF BeginInstall, DeleteDistribution, AbortDelete, BeginRevert, ReportClientState,
                Abort, AbortExtract, BeginPrune, disk
  <2>2. op' # "install" \/ pc' \notin {"remove", "mkdir", "extract", "swap", "swapRename", "set", "save"}
    BY <1>7 DEF BeginInstall, DeleteDistribution, AbortDelete, BeginRevert, ReportClientState,
                Abort, AbortExtract, BeginPrune, Exit
  <2>3. QED
    BY <1>1, <2>1, <2>2 DEF TargetStored
<1>8. CASE UNCHANGED vars
  BY <1>8 DEF vars, LastTwoKept, Distinct, TargetStored
<1>9. QED
  BY <1>2, <1>3, <1>4, <1>5, <1>6, <1>7, <1>8 DEF Next

\* pruneOldArtefacts never takes the base of the next patch, nor the blob of
\* the version to revert to: the history's last two entries keep their blobs
\* through any interrupted and repeated runs, as long as none is there twice.
THEOREM RetentionSparesTheBase == Spec => []RetentionKeepsBase
<1>1. Init => RetentionInv
  BY DEF Init, EmptyState, RetentionInv, LastTwoKept, TargetStored
<1>2. IndInv /\ RetentionInv => RetentionKeepsBase
  <2> DEFINE h == state.History
             n == Len(h)
  <2> SUFFICES ASSUME IndInv, RetentionInv, n >= 2, Distinct(h),
                      state.Current = h[n], state.Previous = h[n - 1]
               PROVE  {state.Current, state.Previous} \subseteq blobs
    BY DEF RetentionKeepsBase, Distinct
  <2>1. n \in Nat
    BY DEF IndInv, TypeOK, State
  <2>2. n \in 1..n /\ n - 1 \in 1..n /\ n + 1 >= n /\ (n - 1) + 1 >= n
    BY <2>1
  <2>3. h[n] \in blobs /\ h[n - 1] \in blobs
    BY <2>2 DEF RetentionInv, LastTwoKept
  <2>4. QED
    BY <2>3
<1>3. QED
  BY <1>1, <1>2, RetentionStep, IndInvHolds, PTL DEF Spec
=============================================================================
