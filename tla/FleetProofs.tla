---------------------------- MODULE FleetProofs ----------------------------
(***************************************************************************)
(* Proofs for module Fleet, for every finite fleet, all versions and any   *)
(* order of them, all sizes and hashes of patches, and every value of the  *)
(* knobs of the GC.                                                        *)
(*                                                                         *)
(* What a drop may do depends on what the run established when it counted, *)
(* some publishes, reports and ticks of the clock ago.  GcInv says what of *)
(* it still holds, at every point of the run.                              *)
(*                                                                         *)
(* The second half is about shortest-patch-path.  SearchInv is what its    *)
(* search knows after each step; with the step that ends it, no chain is   *)
(* cheaper than the one it has found.  PlanInv follows what the plan makes *)
(* of these chains, up to the last drop.                                   *)
(***************************************************************************)
EXTENDS Fleet, DataLemmas, SequenceTheorems, FiniteSetTheorems, TLAPS

----------------------------------------------------------------------------
(* Sequences: what the operations on rows and candidates do to them *)

\* Append adds one element to the range.
LEMMA AppendRange ==
    ASSUME NEW S, NEW s \in Seq(S), NEW x \in S
    PROVE  Append(s, x) \in Seq(S) /\ Range(Append(s, x)) = Range(s) \cup {x}
<1> DEFINE t == Append(s, x)
<1>1. /\ t \in Seq(S) /\ Len(t) = Len(s) + 1 /\ Len(s) \in Nat
      /\ (\A i \in 1..Len(s) : t[i] = s[i]) /\ t[Len(s) + 1] = x
    BY AppendProperties, LenProperties
<1> HIDE DEF t
<1>2. Range(t) = {t[i] : i \in 1..(Len(s) + 1)}
    BY <1>1, RangeEquality
<1>3. Range(s) = {s[i] : i \in 1..Len(s)}
    BY RangeEquality
<1>4. Range(t) = Range(s) \cup {x}
    BY <1>1, <1>2, <1>3
<1> QED BY <1>1, <1>4 DEF t

\* The first element and the rest are elements of the sequence.
LEMMA HeadTailRange ==
    ASSUME NEW S, NEW s \in Seq(S), s # <<>>
    PROVE  /\ Head(s) \in S /\ Tail(s) \in Seq(S)
           /\ Head(s) \in Range(s) /\ Range(Tail(s)) \subseteq Range(s)
<1>1. Len(s) \in Nat \ {0}
    BY EmptySeq
<1>2. Head(s) = s[1] /\ Head(s) \in S
    BY <1>1, HeadTailProperties
<1>3. /\ Tail(s) \in Seq(S) /\ Len(Tail(s)) = Len(s) - 1
      /\ \A i \in 1..Len(Tail(s)) : Tail(s)[i] = s[i + 1]
    BY HeadTailProperties
<1>4. Range(s) = {s[i] : i \in 1..Len(s)}
    BY RangeEquality
<1>5. Range(Tail(s)) = {Tail(s)[i] : i \in 1..Len(Tail(s))}
    BY <1>3, RangeEquality
<1>6. Head(s) \in Range(s)
    BY <1>1, <1>2, <1>4
<1>7. Range(Tail(s)) \subseteq Range(s)
    BY <1>1, <1>3, <1>4, <1>5
<1> QED BY <1>2, <1>3, <1>6, <1>7

\* RemoveAt leaves out one element and keeps the others in order.
LEMMA RemoveAtElements ==
    ASSUME NEW S, NEW s \in Seq(S), NEW i \in 1..Len(s)
    PROVE  /\ RemoveAt(s, i) \in Seq(S)
           /\ Len(RemoveAt(s, i)) = Len(s) - 1
           /\ \A j \in 1..(Len(s) - 1) : RemoveAt(s, i)[j] = s[IF j < i THEN j ELSE j + 1]
<1> DEFINE left == SubSeq(s, 1, i - 1)
           right == SubSeq(s, i + 1, Len(s))
<1>1. Len(s) \in Nat /\ \A j \in 1..Len(s) : s[j] \in S
    BY ElementOfSeq, LenProperties
<1>2. /\ left \in Seq(S) /\ Len(left) = i - 1
      /\ \A j \in 1..(i - 1) : left[j] = s[j]
    <2>1. \A j \in 1..(i - 1) : s[j] \in S
        BY <1>1
    <2>2. /\ left \in Seq(S) /\ Len(left) = IF 1 <= i - 1 THEN i - 1 - 1 + 1 ELSE 0
          /\ \A j \in 1..(i - 1 - 1 + 1) : left[j] = s[1 + j - 1]
        BY <2>1, <1>1, SubSeqProperties
    <2> QED BY <2>2, <1>1
<1>3. /\ right \in Seq(S) /\ Len(right) = Len(s) - i
      /\ \A j \in 1..(Len(s) - i) : right[j] = s[i + j]
    <2>1. \A j \in (i + 1)..Len(s) : s[j] \in S
        BY <1>1
    <2>2. /\ right \in Seq(S)
          /\ Len(right) = IF i + 1 <= Len(s) THEN Len(s) - (i + 1) + 1 ELSE 0
          /\ \A j \in 1..(Len(s) - (i + 1) + 1) : right[j] = s[i + 1 + j - 1]
        BY <2>1, <1>1, SubSeqProperties
    <2> QED BY <2>2, <1>1
<1> HIDE DEF left, right
<1>4. left \o right \in Seq(S) /\ Len(left \o right) = Len(s) - 1
    <2>1. left \o right \in Seq(S) /\ Len(left \o right) = Len(left) + Len(right)
        BY <1>2, <1>3, ConcatProperties
    <2> QED BY <2>1, <1>1, <1>2, <1>3
<1>5. ASSUME NEW j \in 1..(Len(s) - 1)
      PROVE  (left \o right)[j] = s[IF j < i THEN j ELSE j + 1]
    <2>1. (left \o right)[j] = IF j <= Len(left) THEN left[j] ELSE right[j - Len(left)]
        BY <1>1, <1>2, <1>3
    <2>2. CASE j < i
        BY <2>1, <2>2, <1>1, <1>2
    <2>3. CASE ~(j < i)
        BY <2>1, <2>3, <1>1, <1>2, <1>3
    <2> QED BY <2>2, <2>3
<1>6. RemoveAt(s, i) = left \o right
    BY DEF RemoveAt, left, right
<1> QED BY <1>4, <1>5, <1>6

----------------------------------------------------------------------------
(* Rows: each version has at most one *)

Unique(rows) == \A i, j \in DOMAIN rows : rows[i].version = rows[j].version => i = j

\* The versions of a list of rows: a finite set of versions.
LEMMA ListedVersions ==
    ASSUME NEW rows \in Seq(Row)
    PROVE  /\ Listed(rows) \subseteq Versions
           /\ IsFiniteSet(Listed(rows))
           /\ DOMAIN rows = 1..Len(rows) /\ Len(rows) \in Nat
           /\ Listed(rows) = {rows[i].version : i \in 1..Len(rows)}
<1>1. /\ Range(rows) = {rows[i] : i \in 1..Len(rows)} /\ Len(rows) \in Nat
      /\ DOMAIN rows = 1..Len(rows) /\ \A i \in 1..Len(rows) : rows[i] \in Row
    BY RangeEquality, LenProperties, ElementOfSeq
<1>2. Listed(rows) = {rows[i].version : i \in 1..Len(rows)}
    BY <1>1 DEF Listed
<1>3. Listed(rows) \subseteq Versions
    BY <1>1, <1>2 DEF Row
<1>4. IsFiniteSet(Listed(rows))
    <2> DEFINE f == [i \in 1..Len(rows) |-> rows[i].version]
    <2>1. f \in Surjection(1..Len(rows), Listed(rows))
        BY <1>2 DEF Surjection
    <2>2. IsFiniteSet(1..Len(rows))
        BY <1>1, FS_Interval
    <2> QED BY <2>1, <2>2, FS_Surjection
<1> QED BY <1>1, <1>2, <1>3, <1>4

\* The row of a publish comes first.
LEMMA AddRow ==
    ASSUME NEW rows \in Seq(Row), Unique(rows),
           NEW r \in Row, r.version \notin Listed(rows)
    PROVE  /\ <<r>> \o rows \in Seq(Row) /\ Unique(<<r>> \o rows)
           /\ Listed(<<r>> \o rows) = Listed(rows) \cup {r.version}
<1> DEFINE new == <<r>> \o rows
<1>1. Len(rows) \in Nat /\ \A i \in 1..Len(rows) : rows[i] \in Row
    BY LenProperties, ElementOfSeq
<1>2. <<r>> \in Seq(Row) /\ Len(<<r>>) = 1 /\ <<r>>[1] = r
    OBVIOUS
<1>3. new \in Seq(Row) /\ Len(new) = Len(rows) + 1
    <2>1. new \in Seq(Row) /\ Len(new) = Len(<<r>>) + Len(rows)
        BY <1>2, ConcatProperties
    <2> QED BY <2>1, <1>1, <1>2
<1>4. \A i \in 1..(Len(rows) + 1) : new[i] = IF i = 1 THEN r ELSE rows[i - 1]
    BY <1>1, <1>2
<1> HIDE DEF new
<1>5. /\ DOMAIN new = 1..(Len(rows) + 1)
      /\ Listed(new) = {new[i].version : i \in 1..(Len(rows) + 1)}
    BY <1>3, ListedVersions
<1>6. DOMAIN rows = 1..Len(rows) /\ Listed(rows) = {rows[i].version : i \in 1..Len(rows)}
    BY ListedVersions
<1>7. Unique(new)
    <2>1. SUFFICES ASSUME NEW i \in 1..(Len(rows) + 1), NEW j \in 1..(Len(rows) + 1),
                          new[i].version = new[j].version
                   PROVE  i = j
        BY <1>5 DEF Unique
    <2>2. CASE i = 1 \/ j = 1
        BY <2>1, <2>2, <1>1, <1>4, <1>6
    <2>3. CASE i # 1 /\ j # 1
        <3>1. i - 1 \in DOMAIN rows /\ j - 1 \in DOMAIN rows
            BY <2>3, <1>1, <1>6
        <3>2. rows[i - 1].version = rows[j - 1].version
            BY <2>1, <2>3, <1>4
        <3>3. i - 1 = j - 1
            BY <3>1, <3>2 DEF Unique
        <3> QED BY <3>3, <1>1
    <2> QED BY <2>2, <2>3
<1>8. Listed(new) = Listed(rows) \cup {r.version}
    <2>1. Listed(new) \subseteq Listed(rows) \cup {r.version}
        BY <1>1, <1>4, <1>5, <1>6
    <2>2. r.version \in Listed(new)
        BY <1>1, <1>4, <1>5
    <2>3. ASSUME NEW i \in 1..Len(rows)
          PROVE  rows[i].version \in Listed(new)
        <3>1. i + 1 \in 1..(Len(rows) + 1) /\ new[i + 1] = rows[i]
            BY <1>1, <1>4
        <3> QED BY <3>1, <1>5
    <2> QED BY <2>1, <2>2, <2>3, <1>6
<1> QED BY <1>3, <1>7, <1>8 DEF new

\* A drop takes away the row of its version, and no other.
LEMMA RemoveRow ==
    ASSUME NEW rows \in Seq(Row), Unique(rows), NEW k \in DOMAIN rows
    PROVE  /\ RemoveAt(rows, k) \in Seq(Row) /\ Unique(RemoveAt(rows, k))
           /\ Listed(RemoveAt(rows, k)) = Listed(rows) \ {rows[k].version}
<1> DEFINE new == RemoveAt(rows, k)
           old(i) == IF i < k THEN i ELSE i + 1
<1>1. /\ Len(rows) \in Nat /\ DOMAIN rows = 1..Len(rows)
      /\ Listed(rows) = {rows[i].version : i \in 1..Len(rows)}
    BY ListedVersions
<1>2. /\ new \in Seq(Row) /\ Len(new) = Len(rows) - 1
      /\ \A i \in 1..(Len(rows) - 1) : new[i] = rows[old(i)]
    BY <1>1, RemoveAtElements
<1> HIDE DEF new
<1>3. /\ DOMAIN new = 1..(Len(rows) - 1)
      /\ Listed(new) = {new[i].version : i \in 1..(Len(rows) - 1)}
    BY <1>2, ListedVersions
<1>4. \A i \in 1..(Len(rows) - 1) : old(i) \in DOMAIN rows /\ old(i) # k
    BY <1>1
<1>5. Unique(new)
    <2>1. SUFFICES ASSUME NEW i \in 1..(Len(rows) - 1), NEW j \in 1..(Len(rows) - 1),
                          new[i].version = new[j].version
                   PROVE  i = j
        BY <1>3 DEF Unique
    <2>2. old(i) \in DOMAIN rows /\ old(j) \in DOMAIN rows
        BY <1>4
    <2>3. rows[old(i)].version = rows[old(j)].version
        BY <2>1, <1>2
    <2>4. old(i) = old(j)
        <3> HIDE DEF old
        <3> QED BY <2>2, <2>3 DEF Unique
    <2> QED BY <2>4, <1>1
<1>6. Listed(new) \subseteq Listed(rows) \ {rows[k].version}
    <2>1. SUFFICES ASSUME NEW i \in 1..(Len(rows) - 1)
                   PROVE  new[i].version \in Listed(rows) \ {rows[k].version}
        BY <1>3
    <2>2. new[i].version = rows[old(i)].version /\ old(i) \in DOMAIN rows /\ old(i) # k
        BY <1>2, <1>4
    <2>3. rows[old(i)].version # rows[k].version
        BY <2>2 DEF Unique
    <2> HIDE DEF old
    <2> QED BY <2>2, <2>3, <1>1
<1>7. ASSUME NEW i \in 1..Len(rows), rows[i].version # rows[k].version
      PROVE  rows[i].version \in Listed(new)
    <2> DEFINE j == IF i < k THEN i ELSE i - 1
    <2>1. j \in 1..(Len(rows) - 1) /\ old(j) = i
        BY <1>1, <1>7
    <2>2. new[j] = rows[i]
        BY <2>1, <1>2
    <2> QED BY <2>1, <2>2, <1>3
<1> QED BY <1>1, <1>2, <1>5, <1>6, <1>7 DEF new

\* A pin changes no version.
LEMMA PinRow ==
    ASSUME NEW rows \in Seq(Row), Unique(rows), NEW k \in DOMAIN rows
    PROVE  LET new == [rows EXCEPT ![k].uncollectable = TRUE]
           IN  new \in Seq(Row) /\ Unique(new) /\ Listed(new) = Listed(rows)
<1> DEFINE pin == [rows[k] EXCEPT !.uncollectable = TRUE]
           new == [rows EXCEPT ![k] = pin]
<1>1. /\ Len(rows) \in Nat /\ DOMAIN rows = 1..Len(rows)
      /\ Listed(rows) = {rows[i].version : i \in 1..Len(rows)}
    BY ListedVersions
<1>2. rows[k] \in Row
    BY <1>1, ElementOfSeq
<1>3. pin \in Row /\ pin.version = rows[k].version
    BY <1>2 DEF Row
<1> HIDE DEF pin
<1>4. /\ new \in Seq(Row) /\ Len(new) = Len(rows)
      /\ \A i \in 1..Len(rows) : new[i] = IF i = k THEN pin ELSE rows[i]
    BY <1>1, <1>3, ExceptSeq
<1> HIDE DEF new
<1>5. /\ DOMAIN new = 1..Len(rows)
      /\ Listed(new) = {new[i].version : i \in 1..Len(rows)}
    BY <1>4, ListedVersions
<1>6. \A i \in 1..Len(rows) : new[i].version = rows[i].version
    BY <1>3, <1>4
<1>7. Unique(new) /\ Listed(new) = Listed(rows)
    BY <1>1, <1>5, <1>6 DEF Unique
<1> QED BY <1>4, <1>7 DEF new, pin

\* HighestSemver gives none, or one of those it is given; if a version parses,
\* one that is at least as high.
LEMMA HighestOf ==
    ASSUME NEW vs \in SUBSET Versions, NEW v \in HighestSemver(vs)
    PROVE  /\ v \in vs \cup {0}
           /\ \A w \in vs : Rank[w] # 0 => v \in vs /\ Rank[w] <= Rank[v]
<1> DEFINE parseable == {w \in vs : Rank[w] # 0}
<1>1. CASE parseable = {}
    <2>1. v = 0
        BY <1>1 DEF HighestSemver
    <2> QED BY <1>1, <2>1
<1>2. CASE parseable # {}
    <2>1. v \in parseable /\ \A w \in parseable : Rank[w] <= Rank[v]
        BY <1>2 DEF HighestSemver
    <2> QED BY <2>1
<1> QED BY <1>1, <1>2

----------------------------------------------------------------------------
(* Type correctness *)

\* The parts of TypeOK, by the variables they are about.
RowsOK == releases \in Seq(Row) /\ Unique(releases)
PatchesOK ==
    /\ patches \subseteq Edges
    /\ \A e, f \in patches : Hash[e] = Hash[f] => e = f
    /\ building \subseteq Edges
FleetOK ==
    /\ at \in [Clients -> Versions \cup {0}]
    /\ pending \subseteq Clients
    /\ snapshot \in [Clients -> [rel : Versions \cup {0}, at : 0..MaxTime]]
GcRecord == [pc : GcPCs, todo : Seq(Row), latest : Versions \cup {0},
             candidates : Seq(Versions), positions : SUBSET Versions,
             target : Versions \cup {0}, edges : SUBSET Edges,
             known : SUBSET Versions, pruned : Nat, steady : SUBSET Clients,
             pinned : SUBSET Versions, evicted : SUBSET Edges]
CountOK ==
    count \in [installs : 0..MaxInstalls, publishes : 0..MaxPublishes, runs : 0..MaxRuns,
               requests : 0..MaxRequests]

TypeInv == /\ RowsOK /\ PatchesOK /\ FleetOK /\ CountOK
           /\ now \in 0..MaxTime /\ gc \in GcRecord

\* TypeInv is TypeOK, by parts.
LEMMA TypeParts == TypeInv => TypeOK
    BY DEF TypeInv, TypeOK, RowsOK, Unique, PatchesOK, FleetOK, GcRecord, CountOK

\* The knobs and the bounds are numbers.
LEMMA Bounds ==
    /\ MinUserCount \in Nat /\ Window \in Nat /\ MaxTime \in Nat
    /\ MaxInstalls \in Nat /\ MaxPublishes \in Nat /\ MaxRuns \in Nat
    /\ MaxRequests \in Nat
    BY NumbersAssumption

\* A row for an edge takes the rows of its hash.
LEMMA StoredPatch ==
    ASSUME PatchesOK, NEW e \in Edges, StorePatch(e)
    PROVE  /\ patches' \subseteq Edges
           /\ \A f, g \in patches' : Hash[f] = Hash[g] => f = g
           /\ patches \cup {e} = patches' \cup Evicted(e)
    BY DEF PatchesOK, StorePatch, Evicted

\* An idle GC has a record of the right type.
LEMMA NoGcType == NoGc \in GcRecord
<1>1. <<>> \in Seq(Row) /\ <<>> \in Seq(Versions)
    BY EmptySeq
<1> QED BY <1>1 DEF NoGc, GcRecord, GcPCs

\* The empty server has the right types.
LEMMA InitType == Init => TypeInv
<1> SUFFICES ASSUME Init PROVE TypeInv
    OBVIOUS
<1>1. RowsOK
    <2>1. releases \in Seq(Row) /\ Len(releases) = 0 /\ DOMAIN releases = 1..Len(releases)
        BY EmptySeq, LenProperties DEF Init
    <2> QED BY <2>1 DEF RowsOK, Unique
<1>2. PatchesOK /\ FleetOK /\ now \in 0..MaxTime /\ CountOK
    BY Bounds DEF Init, NoReport, PatchesOK, FleetOK, CountOK
<1> QED BY <1>1, <1>2, NoGcType DEF Init, TypeInv

\* What the steps of the GC leave in its record, and what they leave alone.
LEMMA GcStepType ==
    ASSUME TypeInv,
           \/ BeginGc \/ CountNext \/ ListClientSoftwareStates \/ SkipPlan
           \/ ChooseTarget \/ ComputePlan \/ ListAgain \/ AllBuilt \/ EndGc
           \/ \E e \in Edges : BuildEdgeFails(e)
    PROVE  gc' \in GcRecord /\ CountOK'
           /\ UNCHANGED <<releases, patches, building, at, pending, snapshot, now>>
<1>1. RowsOK /\ FleetOK /\ CountOK /\ gc \in GcRecord
    BY DEF TypeInv
<1>2. UNCHANGED count => CountOK'
    BY <1>1 DEF CountOK
<1>3. NoGc \in GcRecord
    BY NoGcType
<1>4. Released \in SUBSET Versions
    BY <1>1, ListedVersions DEF RowsOK, Released
<1>5. CASE BeginGc
    <2>1. \A v \in HighestSemver(Released) : v \in Versions \cup {0}
        BY <1>4, HighestOf
    <2>2. Range(releases) \subseteq Row
        BY <1>1, RangeOfSeq DEF RowsOK
    <2>3. {r.version : r \in {r \in Range(releases) : r.uncollectable}} \subseteq Versions
        BY <2>2 DEF Row
    <2>4. CountOK'
        <3>1. count.runs < MaxRuns /\ count' = [count EXCEPT !.runs = @ + 1]
            BY <1>5 DEF BeginGc
        <3> QED BY <1>1, <3>1, Bounds DEF CountOK
    <2>5. PICK v \in HighestSemver(Released) :
            gc' = [NoGc EXCEPT
                      !.pc = "count", !.todo = releases, !.latest = v, !.steady = Clients,
                      !.pinned = {r.version : r \in {r \in Range(releases) : r.uncollectable}}]
        BY <1>5 DEF BeginGc
    <2>6. gc' \in GcRecord
        BY <1>1, <1>3, <2>1, <2>3, <2>5 DEF GcRecord, GcPCs, RowsOK
    <2> QED BY <1>5, <2>4, <2>6 DEF BeginGc
<1>6. CASE CountNext
    <2>1. Head(gc.todo) \in Row /\ Tail(gc.todo) \in Seq(Row)
        BY <1>1, <1>6, HeadTailRange DEF CountNext, GcRecord
    <2>2. gc.candidates \in Seq(Versions)
          /\ Append(gc.candidates, Head(gc.todo).version) \in Seq(Versions)
        <3>1. gc.candidates \in Seq(Versions) /\ Head(gc.todo).version \in Versions
            BY <1>1, <2>1 DEF GcRecord, Row
        <3> QED BY <3>1, AppendRange
    <2> QED BY <1>2, <1>1, <1>6, <2>1, <2>2 DEF CountNext, GcRecord
<1>7. CASE ListClientSoftwareStates
    <2>1. {snapshot[c].rel : c \in Clients} \ {0} \subseteq Versions
        BY <1>1 DEF FleetOK
    <2> QED BY <1>2, <1>1, <1>7, <2>1 DEF ListClientSoftwareStates, GcRecord, GcPCs
<1>8. CASE SkipPlan
    BY <1>2, <1>1, <1>3, <1>8 DEF SkipPlan, GcRecord, GcPCs
<1>9. CASE ChooseTarget
    <2>1. \A v \in HighestSemver(Released \ Drops) : v \in Versions \cup {0}
        BY <1>4, HighestOf
    <2> QED BY <1>2, <1>1, <1>9, <2>1 DEF ChooseTarget, GcRecord, GcPCs
<1>10. CASE ComputePlan
    <2>1. EdgesToBuild \subseteq Edges
        <3>1. gc.positions \subseteq Versions /\ gc.target \in Versions \cup {0}
            BY <1>1 DEF GcRecord
        <3> QED BY <3>1 DEF EdgesToBuild, Edges
    <2> HIDE DEF EdgesToBuild
    <2>2. UNCHANGED <<releases, patches, building, at, pending, snapshot, now, count>>
        BY <1>10 DEF ComputePlan
    <2>3. ASSUME gc' = [gc EXCEPT !.edges = EdgesToBuild, !.pc = "list"]
          PROVE  gc' \in GcRecord
        BY <1>1, <2>1, <2>3 DEF GcRecord, GcPCs
    <2>4. ASSUME gc' = [gc EXCEPT !.pc = "drop", !.positions = {}, !.target = 0]
          PROVE  gc' \in GcRecord
        BY <1>1, <2>4 DEF GcRecord, GcPCs
    <2> QED BY <1>2, <1>3, <1>10, <2>2, <2>3, <2>4 DEF ComputePlan
<1>11. CASE ListAgain
    BY <1>2, <1>1, <1>4, <1>11 DEF ListAgain, GcRecord, GcPCs
<1>12. CASE AllBuilt
    BY <1>2, <1>1, <1>12 DEF AllBuilt, GcRecord, GcPCs
<1>13. CASE EndGc \/ \E e \in Edges : BuildEdgeFails(e)
    BY <1>2, <1>3, <1>13 DEF EndGc, BuildEdgeFails
<1> QED BY <1>5, <1>6, <1>7, <1>8, <1>9, <1>10, <1>11, <1>12, <1>13

\* A publish adds its release, whose row is well formed.
LEMMA PublishReleases ==
    ASSUME TypeInv, NEW v \in Versions, PublishRelease(v)
    PROVE  RowsOK' /\ Released' = Released \cup {v}
<1>1. RowsOK /\ now \in 0..MaxTime
    BY DEF TypeInv
<1> DEFINE r == [version |-> v, published_at |-> now, uncollectable |-> FALSE]
<1>2. r \in Row /\ r.version = v
    BY <1>1 DEF Row
<1>3. releases' = <<r>> \o releases /\ v \notin Listed(releases)
    BY DEF PublishRelease, Released
<1> HIDE DEF r
<1> QED BY <1>1, <1>2, <1>3, AddRow DEF RowsOK, Released

\* A pin keeps the rows well formed and their versions.
LEMMA PinKeepsReleases ==
    ASSUME TypeInv, NEW v \in Versions, MarkUncollectable(v)
    PROVE  RowsOK' /\ Released' = Released
<1>1. RowsOK
    BY DEF TypeInv
<1>2. PICK i \in DOMAIN releases : releases' = [releases EXCEPT ![i].uncollectable = TRUE]
    BY DEF MarkUncollectable
<1> QED BY <1>1, <1>2, PinRow DEF RowsOK, Released

\* A drop takes one candidate and its patches.
LEMMA DropRemovesRelease ==
    ASSUME TypeInv, DropNext
    PROVE  RowsOK' /\ \E v \in Drops : /\ Released' = Released \ {v}
                                       /\ patches' = Without(patches, {v})
<1>1. RowsOK /\ gc.candidates \in Seq(Versions) /\ gc.pruned \in Nat
    BY DEF TypeInv, GcRecord
<1> DEFINE v == gc.candidates[gc.pruned + 1]
<1>2. v \in Drops
    <2>1. gc.pruned + 1 \in 1..Len(gc.candidates)
        BY <1>1, LenProperties DEF DropNext
    <2>2. Range(gc.candidates) = {gc.candidates[i] : i \in 1..Len(gc.candidates)}
        BY <1>1, RangeEquality
    <2> QED BY <2>1, <2>2 DEF Drops
<1>3. PICK i \in DOMAIN releases : releases[i].version = v /\ releases' = RemoveAt(releases, i)
    BY DEF DropNext
<1>4. patches' = Without(patches, {v})
    BY DEF DropNext
<1> HIDE DEF v
<1>5. RowsOK' /\ Released' = Released \ {v}
    BY <1>1, <1>3, RemoveRow DEF RowsOK, Released
<1> QED BY <1>2, <1>4, <1>5

\* Every step keeps the types.
LEMMA StepType == TypeInv /\ [Next]_vars => TypeInv'
<1> SUFFICES ASSUME TypeInv, [Next]_vars PROVE TypeInv'
    OBVIOUS
<1>1. /\ RowsOK /\ PatchesOK /\ FleetOK /\ CountOK
      /\ now \in 0..MaxTime /\ gc \in GcRecord
    BY DEF TypeInv
<1>2. Released \subseteq Versions
    BY <1>1, ListedVersions DEF RowsOK, Released
<1>3. /\ UNCHANGED releases => RowsOK' /\ Released' = Released
      /\ UNCHANGED <<patches, building>> => PatchesOK'
      /\ UNCHANGED <<at, pending, snapshot>> => FleetOK'
      /\ UNCHANGED count => CountOK'
    BY <1>1 DEF RowsOK, Unique, Released, PatchesOK, FleetOK, CountOK
<1>4. ASSUME NEW v \in Versions, PublishRelease(v)
      PROVE  TypeInv'
    <2>1. RowsOK' /\ v \notin Released
        BY <1>4, PublishReleases DEF PublishRelease
    <2>2. /\ UNCHANGED <<patches, at, pending, snapshot, now, gc>>
          /\ building' = building \cup (Released \X {v})
          /\ count.publishes < MaxPublishes
          /\ count' = [count EXCEPT !.publishes = @ + 1]
        BY <1>4 DEF PublishRelease
    <2>3. CountOK'
        BY <1>1, <2>2, Bounds DEF CountOK
    <2>4. PatchesOK'
        BY <1>1, <1>2, <2>1, <2>2 DEF PatchesOK, Edges
    <2> QED BY <1>1, <1>3, <2>1, <2>2, <2>3, <2>4 DEF TypeInv
<1>5. ASSUME NEW v \in Versions, MarkUncollectable(v)
      PROVE  TypeInv'
    <2>1. RowsOK'
        BY <1>5, PinKeepsReleases
    <2>2. UNCHANGED <<patches, building, at, pending, snapshot, now, gc>> /\ CountOK'
        BY <1>1, <1>5, Bounds DEF MarkUncollectable, CountOK
    <2> QED BY <1>1, <1>3, <2>1, <2>2 DEF TypeInv
<1>6. ASSUME NEW e \in Edges, ResolveOrBuildUpgradePatch(e) \/ BuildFails(e)
      PROVE  TypeInv'
    <2>1. UNCHANGED <<releases, patches, at, pending, snapshot, now, gc>> /\ CountOK'
        BY <1>1, <1>6, Bounds DEF ResolveOrBuildUpgradePatch, BuildFails, CountOK
    <2>2. building' \subseteq building \cup {e}
        BY <1>6 DEF ResolveOrBuildUpgradePatch, BuildFails
    <2>3. PatchesOK'
        BY <1>1, <2>1, <2>2 DEF PatchesOK
    <2> QED BY <1>1, <1>3, <2>1, <2>3 DEF TypeInv
<1>7. ASSUME NEW c \in Clients, NEW v \in Versions, Install(c, v)
      PROVE  TypeInv'
    <2>1. UNCHANGED <<releases, patches, building, now, gc>> /\ CountOK'
        BY <1>1, <1>7, Bounds DEF Install, CountOK
    <2>2. FleetOK'
        BY <1>1, <1>7 DEF Install, FleetOK
    <2> QED BY <1>1, <1>3, <2>1, <2>2 DEF TypeInv
<1>8. ASSUME NEW c \in Clients, Watch(c)
      PROVE  TypeInv'
    <2>1. Head(releases) \in Row
        BY <1>1, <1>8, HeadTailRange DEF Watch, RowsOK
    <2>2. Latest \in Versions
        BY <2>1 DEF Latest, Row
    <2> QED BY <1>7, <1>8, <2>2 DEF Watch
<1>9. ASSUME NEW c \in Clients, RecordClientSoftwareState(c)
      PROVE  TypeInv'
    <2>1. UNCHANGED <<releases, patches, building, now, count>>
        BY <1>9 DEF RecordClientSoftwareState
    <2>2. FleetOK'
        BY <1>1, <1>9 DEF RecordClientSoftwareState, FleetOK
    <2>3. gc' \in GcRecord
        BY <1>1, <1>9 DEF RecordClientSoftwareState, GcRecord
    <2> QED BY <1>1, <1>3, <2>1, <2>2, <2>3 DEF TypeInv
<1>10. CASE Tick
    <2>1. UNCHANGED <<releases, patches, building, at, pending, snapshot, gc, count>>
          /\ now' \in 0..MaxTime
        BY <1>1, <1>10, Bounds DEF Tick
    <2> QED BY <1>1, <1>3, <2>1 DEF TypeInv
<1>11. CASE \/ BeginGc \/ CountNext \/ ListClientSoftwareStates \/ SkipPlan
            \/ ChooseTarget \/ ComputePlan \/ ListAgain \/ AllBuilt \/ EndGc
            \/ \E e \in Edges : BuildEdgeFails(e)
    <2>1. /\ gc' \in GcRecord /\ CountOK'
          /\ UNCHANGED <<releases, patches, building, at, pending, snapshot, now>>
        BY <1>11, GcStepType
    <2> QED BY <1>1, <1>3, <2>1 DEF TypeInv
<1>12. ASSUME NEW e \in Edges, BuildEdge(e) \/ InsertPatch(e)
      PROVE  TypeInv'
    <2>1. UNCHANGED <<releases, at, pending, snapshot, now, count>>
        BY <1>12 DEF BuildEdge, InsertPatch
    <2>2. StorePatch(e) /\ building' \subseteq building
        BY <1>12 DEF BuildEdge, InsertPatch
    <2>3. PatchesOK'
        BY <1>1, <2>2, StoredPatch DEF PatchesOK
    <2>4. EvictedSince(e) \subseteq Edges
        BY <1>1 DEF EvictedSince, Evicted, PatchesOK, GcRecord
    <2>5. gc' \in GcRecord
        <3> DEFINE lost == EvictedSince(e)
        <3>1. lost \in SUBSET Edges
            BY <2>4
        <3> HIDE DEF lost
        <3>2. CASE gc' = [gc EXCEPT !.evicted = lost]
            BY <1>1, <3>1, <3>2 DEF GcRecord
        <3>3. CASE gc' = [gc EXCEPT !.edges = @ \ {e}, !.evicted = lost]
            <4> DEFINE left == gc.edges \ {e}
            <4>1. left \in SUBSET Edges
                BY <1>1 DEF GcRecord
            <4> HIDE DEF left
            <4>2. gc' = [gc EXCEPT !.edges = left, !.evicted = lost]
                BY <3>3 DEF left
            <4> QED BY <1>1, <3>1, <4>1, <4>2 DEF GcRecord
        <3> QED BY <1>12, <3>2, <3>3 DEF BuildEdge, InsertPatch, lost
    <2> QED BY <1>1, <1>3, <2>1, <2>3, <2>5 DEF TypeInv
<1>13. CASE DropNext
    <2>1. RowsOK' /\ patches' \subseteq patches
        BY <1>13, DropRemovesRelease DEF Without
    <2>2. building' \subseteq building
        BY <1>13 DEF DropNext, Without
    <2>3. PatchesOK'
        BY <1>1, <2>1, <2>2 DEF PatchesOK
    <2>4. UNCHANGED <<at, pending, snapshot, now, count>>
        BY <1>13 DEF DropNext
    <2>5. gc' = [gc EXCEPT !.pruned = @ + 1]
        BY <1>13 DEF DropNext
    <2>6. gc' \in GcRecord
        <3>1. gc.pruned + 1 \in Nat
            BY <1>1 DEF GcRecord
        <3> DEFINE n == gc.pruned + 1
        <3> HIDE DEF n
        <3>2. gc' = [gc EXCEPT !.pruned = n]
            BY <2>5 DEF n
        <3> QED BY <1>1, <3>1, <3>2 DEF GcRecord, n
    <2> QED BY <1>1, <1>3, <2>1, <2>3, <2>4, <2>6 DEF TypeInv
<1>14. CASE UNCHANGED vars
    BY <1>1, <1>3, <1>14 DEF TypeInv, vars
<1> QED BY <1>4, <1>5, <1>6, <1>7, <1>8, <1>9, <1>10, <1>11, <1>12, <1>13, <1>14 DEF Next

\* The server's tables and the locals of the GC keep their types, and the
\* tables their keys, whichever patches are inserted in whatever order: each
\* version has one row, and so has the hash of a patch.
THEOREM TypeCorrect == Spec => []TypeOK
<1>1. Spec => []TypeInv
    BY InitType, StepType, PTL DEF Spec
<1> QED BY <1>1, TypeParts, PTL

----------------------------------------------------------------------------
(* What a run of the GC has established *)

\* What was checked of a candidate when it was counted holds of it until it
\* goes: later reports and the clock take steady users away and add none.
SparedDrops == \A v \in Drops : v \notin gc.pinned /\ FewSteadyUsers(v)

\* For each candidate that parses, one at least as high is left, and will be.
Outranked(v, w) == w \in Released \ Drops /\ Rank[w] >= Rank[v]
HigherIsLeft == \A v \in Drops : Rank[v] # 0 => \E w \in Versions : Outranked(v, w)

\* While it counts: the rows still say what was pinned, and the latest is at
\* least as high as the rows to come and the candidates, and is not dropped.
CountingOK ==
    gc.pc = "count" =>
        /\ \A r \in Range(gc.todo) : ~r.uncollectable => r.version \notin gc.pinned
        /\ \A v \in Listed(gc.todo) \cup Drops : Rank[v] # 0 => Outranked(v, gc.latest)

GcInv == SparedDrops /\ HigherIsLeft /\ CountingOK

\* A part of few clients is few clients.
LEMMA FewerSteadyUsers ==
    ASSUME NEW S \in SUBSET Clients, NEW T \in SUBSET S
    PROVE  Cardinality(S) <= MinUserCount => Cardinality(T) <= MinUserCount
<1>1. IsFiniteSet(S) /\ IsFiniteSet(T)
    BY ClientsAssumption, FS_Subset
<1>2. Cardinality(S) \in Nat /\ Cardinality(T) \in Nat /\ Cardinality(T) <= Cardinality(S)
    BY <1>1, FS_Subset, FS_CardinalityType
<1> QED BY <1>2, Bounds

\* Without candidates, there is nothing to show.
LEMMA NoCandidates ==
    ASSUME gc.candidates = <<>>
    PROVE  SparedDrops /\ HigherIsLeft
<1>1. Drops = {}
    BY DEF Drops, Range
<1> QED BY <1>1 DEF SparedDrops, HigherIsLeft

\* Before the first GC there are no candidates.
LEMMA InitGc == Init => GcInv
<1> SUFFICES ASSUME Init PROVE GcInv
    OBVIOUS
<1>1. gc.candidates = <<>> /\ gc.pc = "idle"
    BY DEF Init, NoGc
<1> QED BY <1>1, NoCandidates DEF GcInv, CountingOK

\* A step that leaves candidates and pins alone, takes no release but a
\* candidate, and gives no candidate another steady user.
LEMMA CandidatesKept ==
    ASSUME TypeInv, GcInv,
           gc'.candidates = gc.candidates, gc'.pinned = gc.pinned,
           Released \ Drops \subseteq Released',
           \A v \in Versions : SteadyUsers(v)' \subseteq SteadyUsers(v)
    PROVE  SparedDrops' /\ HigherIsLeft'
<1>1. Drops' = Drops /\ Drops \subseteq Versions
    BY RangeOfSeq DEF Drops, TypeInv, GcRecord
<1>2. HigherIsLeft'
    BY <1>1 DEF GcInv, HigherIsLeft, Outranked
<1>3. ASSUME NEW v \in Drops
      PROVE  v \notin gc'.pinned /\ FewSteadyUsers(v)'
    <2>1. v \notin gc.pinned /\ Cardinality(SteadyUsers(v)) <= MinUserCount
        BY DEF GcInv, SparedDrops, FewSteadyUsers
    <2>2. SteadyUsers(v)' \subseteq SteadyUsers(v)
        BY <1>1
    <2>3. SteadyUsers(v) \subseteq Clients
        BY DEF SteadyUsers, TypeInv, GcRecord
    <2>4. Cardinality(SteadyUsers(v)') <= MinUserCount
        BY <2>1, <2>2, <2>3, FewerSteadyUsers
    <2> QED BY <2>1, <2>4 DEF FewSteadyUsers
<1> QED BY <1>1, <1>2, <1>3 DEF SparedDrops

\* While it counts no release goes, whatever the others do.
LEMMA CountingKept ==
    ASSUME TypeInv, GcInv,
           gc'.pc = gc.pc, gc'.todo = gc.todo, gc'.latest = gc.latest,
           gc'.candidates = gc.candidates, gc'.pinned = gc.pinned,
           gc.pc = "count" => Released \subseteq Released'
    PROVE  CountingOK'
<1>1. Drops' = Drops
    BY DEF Drops
<1> QED BY <1>1 DEF GcInv, CountingOK, Outranked

\* The highest release is the latest, and every release is still to come.
LEMMA BeginCounting ==
    ASSUME TypeInv, BeginGc
    PROVE  GcInv'
<1>1. /\ gc'.todo = releases /\ gc'.candidates = <<>>
      /\ gc'.latest \in HighestSemver(Released)
      /\ gc'.pinned = {r.version : r \in {r \in Range(releases) : r.uncollectable}}
      /\ Released' = Released
    BY DEF BeginGc, NoGc, Released
<1>2. Drops' = {}
    BY <1>1 DEF Drops, Range
<1>3. SparedDrops' /\ HigherIsLeft'
    BY <1>2 DEF SparedDrops, HigherIsLeft
<1>4. ASSUME NEW r \in Range(releases), ~r.uncollectable
      PROVE  r.version \notin gc'.pinned
    <2>1. Range(releases) = {releases[i] : i \in DOMAIN releases}
        BY DEF Range
    <2>2. \A q \in Range(releases) : q.version = r.version => q = r
        BY <2>1 DEF TypeInv, RowsOK, Unique
    <2> QED BY <1>1, <1>4, <2>2
<1>5. ASSUME NEW v \in Released, Rank[v] # 0
      PROVE  gc'.latest \in Released /\ Rank[v] <= Rank[gc'.latest]
    <2>1. Released \in SUBSET Versions
        BY ListedVersions DEF TypeInv, RowsOK, Released
    <2> QED BY <1>1, <1>5, <2>1, HighestOf
<1>6. CountingOK'
    <2>1. Listed(gc'.todo) = Released
        BY <1>1 DEF Released
    <2>2. ASSUME NEW v \in Released, Rank[v] # 0
          PROVE  Outranked(v, gc.latest)'
        <3>1. Released \subseteq Versions
            BY ListedVersions DEF TypeInv, RowsOK, Released
        <3>2. Rank[v] \in Nat /\ Rank[gc'.latest] \in Nat
            BY <1>5, <2>2, <3>1, VersionsAssumption
        <3> QED BY <1>1, <1>2, <1>5, <2>2, <3>2 DEF Outranked
    <2> QED BY <1>1, <1>2, <1>4, <2>1, <2>2 DEF CountingOK
<1> QED BY <1>3, <1>6 DEF GcInv

\* A row becomes a candidate only when it is not the latest, was not pinned
\* and has few users; among these are its steady users.
LEMMA CountNextRow ==
    ASSUME TypeInv, GcInv, CountNext
    PROVE  GcInv'
<1> DEFINE r == Head(gc.todo)
<1>1. /\ gc.todo \in Seq(Row) /\ gc.candidates \in Seq(Versions) /\ gc \in GcRecord
      /\ gc.pc = "count" /\ gc.todo # <<>>
    BY DEF TypeInv, GcRecord, CountNext
<1>2. /\ r \in Row /\ Tail(gc.todo) \in Seq(Row)
      /\ r \in Range(gc.todo) /\ Range(Tail(gc.todo)) \subseteq Range(gc.todo)
    BY <1>1, HeadTailRange
<1>3. /\ gc'.todo = Tail(gc.todo) /\ gc'.latest = gc.latest /\ gc'.pinned = gc.pinned
      /\ gc'.steady = gc.steady /\ gc'.pc = "count"
      /\ UNCHANGED <<releases, snapshot, now>>
    BY <1>1 DEF CountNext, GcRecord
<1>4. /\ Released' = Released
      /\ \A v \in Versions : SteadyUsers(v)' = SteadyUsers(v)
    BY <1>3 DEF Released, SteadyUsers, Recent
<1>5. /\ Listed(gc'.todo) \subseteq Listed(gc.todo) /\ r.version \in Listed(gc.todo)
      /\ r.version \in Versions
    BY <1>2, <1>3 DEF Listed, Row
<1>6. /\ \A q \in Range(gc.todo) : ~q.uncollectable => q.version \notin gc.pinned
      /\ \A v \in Listed(gc.todo) \cup Drops : Rank[v] # 0 => Outranked(v, gc.latest)
    BY <1>1 DEF GcInv, CountingOK
<1>7. CASE gc'.candidates = gc.candidates
    <2>1. Drops' = Drops
        BY <1>7 DEF Drops
    <2>2. SparedDrops' /\ HigherIsLeft'
        BY <1>3, <1>4, <1>7, CandidatesKept
    <2>3. CountingOK'
        BY <1>2, <1>3, <1>4, <1>5, <1>6, <2>1 DEF CountingOK, Outranked
    <2> QED BY <2>2, <2>3 DEF GcInv
<1>8. CASE gc'.candidates # gc.candidates
    <2>1. /\ gc'.candidates = Append(gc.candidates, r.version)
          /\ ~r.uncollectable /\ r.version # gc.latest
          /\ CountUsersAtRelease(r.version) <= MinUserCount
        BY <1>1, <1>8 DEF CountNext, GcRecord
    <2>2. Drops' = Drops \cup {r.version}
        BY <2>1, <1>1, <1>5, AppendRange DEF Drops
    <2>3. r.version \notin gc.pinned
        BY <2>1, <1>2, <1>6
    <2>4. FewSteadyUsers(r.version)
        <3> DEFINE S == {c \in Clients : snapshot[c].rel = r.version /\ Recent(snapshot[c].at)}
        <3>1. Cardinality(S) <= MinUserCount
            BY <2>1 DEF CountUsersAtRelease
        <3>2. S \subseteq Clients /\ SteadyUsers(r.version) \subseteq S
            BY <1>1 DEF SteadyUsers, GcRecord
        <3> HIDE DEF S
        <3> QED BY <3>1, <3>2, FewerSteadyUsers DEF FewSteadyUsers
    <2>5. SparedDrops'
        <3>1. \A v \in Drops \cup {r.version} : v \notin gc.pinned /\ FewSteadyUsers(v)
            BY <2>3, <2>4 DEF GcInv, SparedDrops
        <3>2. Drops \cup {r.version} \subseteq Versions
            BY <1>1, <1>5, RangeOfSeq DEF Drops
        <3>3. \A v \in Drops \cup {r.version} : FewSteadyUsers(v)'
            BY <3>1, <3>2, <1>4 DEF FewSteadyUsers
        <3> QED BY <3>1, <3>3, <2>2, <1>3 DEF SparedDrops
    <2>6. ASSUME NEW v \in Listed(gc.todo) \cup Drops, Rank[v] # 0
          PROVE  Outranked(v, gc.latest)' /\ gc.latest \in Versions
        <3>1. Outranked(v, gc.latest)
            BY <1>6, <2>6
        <3>2. gc.latest \in Released' \ Drops'
            BY <3>1, <2>1, <2>2, <1>4 DEF Outranked
        <3>3. gc.latest \in Versions
            BY <3>1, ListedVersions DEF Outranked, TypeInv, RowsOK, Released
        <3> QED BY <3>1, <3>2, <3>3, <1>3 DEF Outranked
    <2>7. HigherIsLeft'
        <3>1. ASSUME NEW v \in Drops \cup {r.version}, Rank[v] # 0
              PROVE  \E w \in Versions : Outranked(v, w)'
            <4>1. Outranked(v, gc.latest)' /\ gc.latest \in Versions
                BY <1>5, <2>6, <3>1
            <4> QED BY <4>1, <1>3 DEF Outranked
        <3> QED BY <3>1, <2>2 DEF HigherIsLeft
    <2>8. CountingOK'
        BY <1>2, <1>3, <1>5, <1>6, <2>2, <2>6 DEF CountingOK
    <2> QED BY <2>5, <2>7, <2>8 DEF GcInv
<1> QED BY <1>7, <1>8

\* The steps of the GC after it has counted.
LEMMA AfterCounting ==
    ASSUME TypeInv, GcInv,
           \/ ListClientSoftwareStates \/ SkipPlan \/ ChooseTarget \/ ComputePlan
           \/ ListAgain \/ AllBuilt \/ EndGc
           \/ \E e \in Edges : BuildEdge(e) \/ BuildEdgeFails(e)
    PROVE  GcInv'
<1>1. gc \in GcRecord /\ UNCHANGED <<releases, snapshot, now>>
    BY DEF TypeInv, ListClientSoftwareStates, SkipPlan, ChooseTarget, ComputePlan, ListAgain,
           AllBuilt, EndGc, BuildEdge, BuildEdgeFails
<1>2. NoGc.candidates = <<>> /\ NoGc.pc = "idle"
    BY DEF NoGc
<1>3. /\ gc'.pc # "count"
      /\ \/ gc'.candidates = <<>>
         \/ /\ gc'.candidates = gc.candidates /\ gc'.pinned = gc.pinned
            /\ gc'.steady = gc.steady
    BY <1>1, <1>2 DEF ListClientSoftwareStates, SkipPlan, ChooseTarget, ComputePlan, ListAgain,
           AllBuilt, EndGc, BuildEdge, BuildEdgeFails, GcRecord
<1>4. CountingOK'
    BY <1>3 DEF CountingOK
<1>5. CASE gc'.candidates = <<>>
    <2>1. Drops' = {}
        BY <1>5 DEF Drops, Range
    <2> QED BY <2>1, <1>4 DEF GcInv, SparedDrops, HigherIsLeft
<1>6. CASE gc'.candidates # <<>>
    <2>1. Released' = Released /\ \A v \in Versions : SteadyUsers(v)' = SteadyUsers(v)
        BY <1>1, <1>3, <1>6 DEF Released, SteadyUsers, Recent
    <2>2. SparedDrops' /\ HigherIsLeft'
        BY <1>3, <1>6, <2>1, CandidatesKept
    <2> QED BY <2>2, <1>4 DEF GcInv
<1> QED BY <1>5, <1>6

\* The steps of the others, and time.
LEMMA OthersStep ==
    ASSUME TypeInv, GcInv,
           \/ UNCHANGED vars \/ Tick
           \/ \E v \in Versions : PublishRelease(v) \/ MarkUncollectable(v)
           \/ \E e \in Edges : \/ ResolveOrBuildUpgradePatch(e)
                                \/ InsertPatch(e) \/ BuildFails(e)
           \/ \E c \in Clients : \/ \E v \in Versions : Install(c, v)
                                 \/ Watch(c)
                                 \/ RecordClientSoftwareState(c)
    PROVE  GcInv'
<1>1. Released \subseteq Released'
    <2>1. CASE UNCHANGED releases
        BY <2>1 DEF Released
    <2>2. CASE \E v \in Versions : PublishRelease(v) \/ MarkUncollectable(v)
        BY <2>2, PublishReleases, PinKeepsReleases
    <2> QED BY <2>1, <2>2 DEF vars, Tick, ResolveOrBuildUpgradePatch, InsertPatch,
                              BuildFails, Install, Watch, RecordClientSoftwareState
<1>2. /\ gc'.pc = gc.pc /\ gc'.todo = gc.todo /\ gc'.latest = gc.latest
      /\ gc'.candidates = gc.candidates /\ gc'.pinned = gc.pinned
    <2>1. CASE UNCHANGED gc
        BY <2>1
    <2>2. CASE \E c \in Clients : RecordClientSoftwareState(c)
        BY <2>2 DEF RecordClientSoftwareState, TypeInv, GcRecord
    <2>3. CASE \E e \in Edges : InsertPatch(e)
        BY <2>3 DEF InsertPatch, TypeInv, GcRecord
    <2> QED BY <2>1, <2>2, <2>3 DEF vars, Tick, PublishRelease, MarkUncollectable,
                              ResolveOrBuildUpgradePatch, BuildFails, Install, Watch
<1>3. ASSUME NEW v \in Versions
      PROVE  SteadyUsers(v)' \subseteq SteadyUsers(v)
    <2>1. CASE UNCHANGED <<gc, snapshot, now>>
        BY <2>1 DEF SteadyUsers, Recent
    <2>2. CASE Tick
        <3>1. UNCHANGED <<gc, snapshot>> /\ now' = now + 1
            BY <2>2 DEF Tick
        <3>2. \A c \in Clients : snapshot[c].at \in Nat /\ now \in Nat /\ Window \in Nat
            BY Bounds DEF TypeInv, FleetOK
        <3>3. \A c \in Clients : Recent(snapshot[c].at)' => Recent(snapshot[c].at)
            BY <3>1, <3>2 DEF Recent
        <3>4. gc.steady \subseteq Clients
            BY DEF TypeInv, GcRecord
        <3> QED BY <3>1, <3>3, <3>4 DEF SteadyUsers
    <2>3. ASSUME NEW c \in Clients, RecordClientSoftwareState(c)
          PROVE  SteadyUsers(v)' \subseteq SteadyUsers(v)
        <3>1. gc'.steady = gc.steady \ {c} /\ gc.steady \subseteq Clients
            BY <2>3 DEF RecordClientSoftwareState, TypeInv, GcRecord
        <3>2. \A d \in Clients \ {c} : snapshot'[d] = snapshot[d]
            BY <2>3 DEF RecordClientSoftwareState, TypeInv, FleetOK
        <3>3. now' = now
            BY <2>3 DEF RecordClientSoftwareState
        <3> QED BY <3>1, <3>2, <3>3 DEF SteadyUsers, Recent
    <2>4. CASE \E e \in Edges : InsertPatch(e)
        <3>1. gc'.steady = gc.steady /\ UNCHANGED <<snapshot, now>>
            BY <2>4 DEF InsertPatch, TypeInv, GcRecord
        <3> QED BY <3>1 DEF SteadyUsers, Recent
    <2> QED BY <2>1, <2>2, <2>3, <2>4 DEF vars, PublishRelease, MarkUncollectable,
                                    ResolveOrBuildUpgradePatch, BuildFails, Install, Watch
<1>4. SparedDrops' /\ HigherIsLeft'
    BY <1>1, <1>2, <1>3, CandidatesKept
<1>5. CountingOK'
    BY <1>1, <1>2, CountingKept
<1> QED BY <1>4, <1>5 DEF GcInv

\* A drop takes a candidate, after the counting.
LEMMA DropStep ==
    ASSUME TypeInv, GcInv, DropNext
    PROVE  GcInv'
<1>1. gc' = [gc EXCEPT !.pruned = @ + 1] /\ gc.pc = "drop" /\ UNCHANGED <<snapshot, now>>
    BY DEF DropNext
<1>2. /\ gc'.pc = "drop" /\ gc'.candidates = gc.candidates /\ gc'.pinned = gc.pinned
      /\ gc'.steady = gc.steady
    BY <1>1 DEF TypeInv, GcRecord
<1>3. Released \ Drops \subseteq Released'
    BY DropRemovesRelease
<1>4. \A v \in Versions : SteadyUsers(v)' = SteadyUsers(v)
    BY <1>1, <1>2 DEF SteadyUsers, Recent
<1>5. SparedDrops' /\ HigherIsLeft'
    BY <1>2, <1>3, <1>4, CandidatesKept
<1> QED BY <1>2, <1>5 DEF GcInv, CountingOK

\* Every step keeps what a run of the GC has established.
LEMMA StepGc == TypeInv /\ GcInv /\ [Next]_vars => GcInv'
    BY BeginCounting, CountNextRow, AfterCounting, OthersStep, DropStep DEF Next

\* The inductive invariant.
LEMMA Invariant == Spec => [](TypeInv /\ GcInv)
    BY InitType, StepType, InitGc, StepGc, PTL DEF Spec

----------------------------------------------------------------------------
(* What a drop may do *)

\* Only the GC takes releases, and it takes a candidate.
LEMMA OnlyCandidatesGo ==
    ASSUME TypeInv, [Next]_vars, NEW v \in Released \ Released'
    PROVE  v \in Drops /\ Released \ Drops \subseteq Released'
<1>1. CASE UNCHANGED releases
    BY <1>1 DEF Released
<1>2. CASE \E w \in Versions : PublishRelease(w) \/ MarkUncollectable(w)
    BY <1>2, PublishReleases, PinKeepsReleases
<1>3. CASE DropNext
    BY <1>3, DropRemovesRelease
<1> QED BY <1>1, <1>2, <1>3 DEF Next, vars, ResolveOrBuildUpgradePatch, InsertPatch, BuildFails,
           Install, Watch, RecordClientSoftwareState, Tick, BeginGc, CountNext, ListClientSoftwareStates, SkipPlan,
           ChooseTarget, ComputePlan, ListAgain, BuildEdge, BuildEdgeFails, AllBuilt, EndGc

\* The GC drops no release that was pinned when it began, nor one that more
\* than min_user_count clients were on all the time since, however its steps,
\* the reports of the clients and the clock follow each other.
THEOREM OnlyUnusedGo == Spec => DropsAreUnused
<1>1. TypeInv /\ GcInv /\ [Next]_vars
        => [\A v \in Released \ Released' : v \notin gc.pinned /\ FewSteadyUsers(v)]_vars
    BY OnlyCandidatesGo DEF GcInv, SparedDrops
<1> QED BY <1>1, Invariant, PTL DEF Spec, DropsAreUnused

\* The GC never lowers the highest version: for each release it drops whose
\* version parses, one at least as high stays, whatever was published, and in
\* whatever order.
THEOREM HighestStays == Spec => LatestIsKept
<1>1. TypeInv /\ GcInv /\ [Next]_vars
        => [\A v \in Released \ Released' :
              Rank[v] # 0 => \E w \in Released' : Rank[w] >= Rank[v]]_vars
    <2>1. SUFFICES ASSUME TypeInv, GcInv, [Next]_vars,
                          NEW v \in Released \ Released', Rank[v] # 0
                   PROVE  \E w \in Released' : Rank[w] >= Rank[v]
        OBVIOUS
    <2>2. v \in Drops /\ Released \ Drops \subseteq Released'
        BY <2>1, OnlyCandidatesGo
    <2>3. PICK w \in Versions : Outranked(v, w)
        BY <2>1, <2>2 DEF GcInv, HigherIsLeft
    <2> QED BY <2>2, <2>3 DEF Outranked
<1> QED BY <1>1, Invariant, PTL DEF Spec, LatestIsKept

----------------------------------------------------------------------------
(* Chains of patches and what they cost *)

\* A graph of patches: edges with their sizes.
PatchGraphs == UNION {[edges -> Nat \ {0}] : edges \in SUBSET Edges}

\* An edge of a graph joins two different releases, and its patch has a size.
LEMMA GraphParts ==
    ASSUME NEW graph \in PatchGraphs
    PROVE  \A v, w : <<v, w>> \in DOMAIN graph =>
              v \in Versions /\ w \in Versions /\ v # w /\ graph[<<v, w>>] \in Nat \ {0}
    BY DEF PatchGraphs, Edges

\* The patches of the catalogue make such a graph.
LEMMA GraphOf ==
    ASSUME NEW edges \in SUBSET Edges
    PROVE  Graph(edges) \in PatchGraphs /\ DOMAIN Graph(edges) = edges
<1>1. \A e \in edges : Size[e] \in Nat \ {0}
    BY SizesAssumption
<1> QED BY <1>1 DEF Graph, PatchGraphs

\* There are finitely many versions.
LEMMA VersionsFinite == IsFiniteSet(Versions) /\ Cardinality(Versions) \in Nat
    BY VersionsAssumption, FS_CardinalityType

\* A chain is a sequence of releases without repetition ...
LEMMA ChainParts ==
    ASSUME NEW s \in Chains
    PROVE  /\ Len(s) \in Nat \ {0} /\ DOMAIN s = 1..Len(s) /\ s \in [1..Len(s) -> Versions]
           /\ \A i, j \in 1..Len(s) : s[i] = s[j] => i = j
<1>1. PICK n \in 1..Cardinality(Versions) :
          s \in [1..n -> Versions] /\ \A i, j \in 1..n : s[i] = s[j] => i = j
    BY DEF Chains
<1>2. n \in Nat \ {0}
    BY VersionsFinite
<1>3. s \in Seq(Versions) /\ Len(s) = n
    BY <1>1, <1>2
<1> QED BY <1>1, <1>2, <1>3

\* ... and as long as it may be: there are no more releases in it than there are.
LEMMA IsChain ==
    ASSUME NEW n \in Nat \ {0}, NEW s \in [1..n -> Versions],
           \A i, j \in 1..n : s[i] = s[j] => i = j
    PROVE  s \in Chains /\ Len(s) = n
<1>1. s \in Injection(1..n, Versions)
    BY DEF Injection, IsInjective
<1>2. Cardinality(1..n) <= Cardinality(Versions)
    BY <1>1, VersionsFinite, FS_Injection
<1>3. Cardinality(1..n) = n
    BY FS_Interval
<1>4. n \in 1..Cardinality(Versions)
    BY <1>2, <1>3, VersionsFinite
<1>5. s \in Seq(Versions) /\ Len(s) = n
    OBVIOUS
<1> QED BY <1>4, <1>5 DEF Chains

\* The cost of a chain is the last of the costs along it.
LEMMA CostAlong ==
    ASSUME NEW graph \in PatchGraphs, NEW s \in Chains, NEW from, NEW to,
           Leads(graph, s, from, to)
    PROVE  \E d \in [1..Len(s) -> Nat] :
              /\ d[1] = 0
              /\ \A i \in 2..Len(s) : d[i] = d[i - 1] + graph[<<s[i - 1], s[i]>>]
              /\ ChainCost(graph, s) = d[Len(s)]
<1> DEFINE L == Len(s)
           F(t) == [i \in 1..L |-> IF i = 1 THEN 0 ELSE t[i - 1] + graph[<<s[i - 1], s[i]>>]]
           sum == CHOOSE t : t = F(t)
           size == [i \in 2..L |-> graph[<<s[i - 1], s[i]>>]]
<1>1. L \in Nat \ {0}
    BY ChainParts
<1>2. \A i \in 2..L : graph[<<s[i - 1], s[i]>>] \in Nat
    BY GraphParts DEF Leads
<1>3. ChainCost(graph, s) = sum[L]
    BY DEF ChainCost
<1> HIDE DEF L
<1>4. PICK f \in [1..L -> Nat] : f[1] = 0 /\ \A i \in 2..L : f[i] = f[i - 1] + size[i]
    <2>1. \A i \in 2..L : size[i] \in Nat
        BY <1>2
    <2> HIDE DEF size
    <2> QED BY <1>1, <2>1, RunningSum
<1>5. \A i \in 2..L : f[i - 1] \in Nat /\ f[i] = f[i - 1] + graph[<<s[i - 1], s[i]>>]
    <2>1. \A i \in 2..L : i - 1 \in 1..L
        BY <1>1
    <2> QED BY <1>4, <2>1
<1>6. f = F(f)
    <2>1. \A i \in 1..L : f[i] = F(f)[i]
        BY <1>1, <1>4, <1>5
    <2> QED BY <2>1
<1>7. sum = F(sum)
    BY <1>6
<1> HIDE DEF sum
<1>8. sum[1] = 0 /\ \A i \in 2..L : sum[i] = sum[i - 1] + graph[<<s[i - 1], s[i]>>]
    BY <1>1, <1>7
<1>9. \A i \in 1..L : sum[i] = f[i]
    <2> DEFINE Q == {i \in 1..L : sum[i] = f[i]}
    <2>1. 1 \in Q /\ 1 \in Nat /\ L \in Nat
        BY <1>1, <1>4, <1>8
    <2>2. ASSUME NEW i \in (1 + 1)..L, i - 1 \in Q PROVE i \in Q
        <3>1. i \in 2..L /\ i \in 1..L
            BY <1>1
        <3>2. sum[i - 1] = f[i - 1]
            BY <2>2
        <3> QED BY <1>5, <1>8, <3>1, <3>2
    <2>3. \A i \in 1..L : i \in Q
        <3> HIDE DEF Q
        <3> QED BY <2>1, <2>2, StepwiseInduction, Zenon
    <2> QED BY <2>3
<1> QED BY <1>1, <1>3, <1>4, <1>5, <1>9 DEF L

\* Nothing else adds up along it.
LEMMA CostIs ==
    ASSUME NEW graph \in PatchGraphs, NEW s \in Chains, NEW from, NEW to,
           Leads(graph, s, from, to), NEW e, e[1] = 0,
           \A i \in 2..Len(s) : e[i] = e[i - 1] + graph[<<s[i - 1], s[i]>>]
    PROVE  ChainCost(graph, s) = e[Len(s)]
<1>1. PICK d \in [1..Len(s) -> Nat] :
          /\ d[1] = 0
          /\ \A i \in 2..Len(s) : d[i] = d[i - 1] + graph[<<s[i - 1], s[i]>>]
          /\ ChainCost(graph, s) = d[Len(s)]
    BY CostAlong
<1>2. Len(s) \in Nat \ {0}
    BY ChainParts
<1> DEFINE Q == {i \in 1..Len(s) : e[i] = d[i]}
<1>3. 1 \in Q /\ 1 \in Nat /\ Len(s) \in Nat /\ Len(s) \in 1..Len(s)
    BY <1>1, <1>2
<1>4. ASSUME NEW i \in (1 + 1)..Len(s), i - 1 \in Q PROVE i \in Q
    <2>1. i \in 2..Len(s) /\ i \in 1..Len(s)
        BY <1>2
    <2>2. e[i - 1] = d[i - 1]
        BY <1>4
    <2> QED BY <1>1, <2>1, <2>2
<1>5. \A i \in 1..Len(s) : i \in Q
    <2> HIDE DEF Q
    <2> QED BY <1>3, <1>4, StepwiseInduction, Zenon
<1> QED BY <1>1, <1>3, <1>5

\* The chain of one release costs nothing.
LEMMA OneRelease ==
    ASSUME NEW graph \in PatchGraphs, NEW v \in Versions
    PROVE  \E c \in Chains : Leads(graph, c, v, v) /\ ChainCost(graph, c) = 0 /\ Range(c) = {v}
<1> DEFINE c == [i \in 1..1 |-> v]
<1>1. c \in Chains /\ Len(c) = 1 /\ c[1] = v
    <2>1. c \in [1..1 -> Versions] /\ 1 \in Nat \ {0} /\ c[1] = v
        OBVIOUS
    <2>2. \A i, j \in 1..1 : c[i] = c[j] => i = j
        OBVIOUS
    <2> HIDE DEF c
    <2> QED BY <2>1, <2>2, IsChain
<1>2. Range(c) = {v}
    BY DEF Range
<1> HIDE DEF c
<1>3. Leads(graph, c, v, v)
    BY <1>1 DEF Leads
<1>4. ChainCost(graph, c) = 0
    <2>1. PICK d \in [1..1 -> Nat] : d[1] = 0 /\ ChainCost(graph, c) = d[1]
        BY <1>1, <1>3, CostAlong
    <2> QED BY <2>1
<1> QED BY <1>1, <1>2, <1>3, <1>4

\* A chain goes on along a patch to a release that is not on it.
LEMMA OneMoreRelease ==
    ASSUME NEW graph \in PatchGraphs, NEW c \in Chains, NEW from, NEW v, NEW w,
           Leads(graph, c, from, v), <<v, w>> \in DOMAIN graph, w \notin Range(c)
    PROVE  \E t \in Chains : /\ Leads(graph, t, from, w)
                             /\ ChainCost(graph, t) = ChainCost(graph, c) + graph[<<v, w>>]
                             /\ Range(t) = Range(c) \cup {w}
<1> DEFINE L == Len(c)
           t == [i \in 1..(L + 1) |-> IF i = L + 1 THEN w ELSE c[i]]
<1>1. /\ L \in Nat \ {0} /\ c \in [1..L -> Versions] /\ DOMAIN c = 1..L
      /\ \A i, j \in 1..L : c[i] = c[j] => i = j
    BY ChainParts
<1>2. w \in Versions /\ graph[<<v, w>>] \in Nat
    BY GraphParts
<1>3. /\ c[1] = from /\ c[L] = v
      /\ \A i \in 2..L : <<c[i - 1], c[i]>> \in DOMAIN graph
    BY DEF Leads
<1>4. \A i \in 1..L : c[i] # w
    BY <1>1 DEF Range
<1> HIDE DEF L
<1>5. t \in [1..(L + 1) -> Versions] /\ t[L + 1] = w /\ \A i \in 1..L : t[i] = c[i]
    BY <1>1, <1>2
<1>6. \A i, j \in 1..(L + 1) : t[i] = t[j] => i = j
    <2>1. \A i \in 1..(L + 1) : i = L + 1 \/ i \in 1..L
        BY <1>1
    <2> HIDE DEF t
    <2> QED BY <1>1, <1>4, <1>5, <2>1
<1>7. Range(t) = Range(c) \cup {w}
    <2>1. DOMAIN t = 1..(L + 1) /\ 1..(L + 1) = (1..L) \cup {L + 1}
        BY <1>1
    <2> HIDE DEF t
    <2> QED BY <1>1, <1>5, <2>1 DEF Range
<1> HIDE DEF t
<1>8. t \in Chains /\ Len(t) = L + 1
    BY <1>1, <1>5, <1>6, IsChain
<1>9. Leads(graph, t, from, w)
    <2>1. t[1] = from /\ t[Len(t)] = w
        BY <1>1, <1>3, <1>5, <1>8
    <2>2. ASSUME NEW i \in 2..(L + 1) PROVE <<t[i - 1], t[i]>> \in DOMAIN graph
        <3>1. CASE i = L + 1
            <4>1. i - 1 = L /\ L \in 1..L
                BY <1>1, <3>1
            <4>2. t[i - 1] = v /\ t[i] = w
                BY <1>3, <1>5, <3>1, <4>1
            <4> QED BY <4>2
        <3>2. CASE i # L + 1
            <4>1. i \in 2..L /\ i \in 1..L /\ i - 1 \in 1..L
                BY <1>1, <3>2
            <4> QED BY <1>3, <1>5, <4>1
        <3> QED BY <3>1, <3>2
    <2> QED BY <1>8, <2>1, <2>2 DEF Leads
<1>10. ChainCost(graph, t) = ChainCost(graph, c) + graph[<<v, w>>]
    <2>1. \E d \in [1..Len(t) -> Nat] :
              /\ d[1] = 0
              /\ \A i \in 2..Len(t) : d[i] = d[i - 1] + graph[<<t[i - 1], t[i]>>]
              /\ ChainCost(graph, t) = d[Len(t)]
        BY <1>8, <1>9, CostAlong, Zenon
    <2>2. PICK d \in [1..(L + 1) -> Nat] :
              /\ d[1] = 0
              /\ \A i \in 2..(L + 1) : d[i] = d[i - 1] + graph[<<t[i - 1], t[i]>>]
              /\ ChainCost(graph, t) = d[L + 1]
        BY <2>1, <1>8
    <2>3. \A i \in 2..L : d[i] = d[i - 1] + graph[<<c[i - 1], c[i]>>]
        <3>1. \A i \in 2..L : i \in 2..(L + 1) /\ i \in 1..L /\ i - 1 \in 1..L
            BY <1>1
        <3> QED BY <1>5, <2>2, <3>1
    <2>4. ChainCost(graph, c) = d[L]
        BY <2>2, <2>3, CostIs DEF L
    <2>5. d[L + 1] = d[L] + graph[<<t[L], t[L + 1]>>]
        BY <1>1, <2>2
    <2> QED BY <1>1, <1>3, <1>5, <2>2, <2>4, <2>5
<1> QED BY <1>7, <1>8, <1>9, <1>10

\* What a chain costs does not depend on the patches that are not on it.
LEMMA SameCost ==
    ASSUME NEW some \in SUBSET Edges, NEW more \in SUBSET Edges,
           NEW c \in Chains, NEW from, NEW to,
           Leads(Graph(some), c, from, to), Leads(Graph(more), c, from, to)
    PROVE  ChainCost(Graph(some), c) = ChainCost(Graph(more), c)
<1>1. Graph(some) \in PatchGraphs /\ Graph(more) \in PatchGraphs
    BY GraphOf
<1>2. \A i \in 2..Len(c) : <<c[i - 1], c[i]>> \in some /\ <<c[i - 1], c[i]>> \in more
    BY DEF Leads, Graph
<1>3. PICK d \in [1..Len(c) -> Nat] :
          /\ d[1] = 0
          /\ \A i \in 2..Len(c) : d[i] = d[i - 1] + Graph(some)[<<c[i - 1], c[i]>>]
          /\ ChainCost(Graph(some), c) = d[Len(c)]
    BY <1>1, CostAlong
<1>4. \A i \in 2..Len(c) : d[i] = d[i - 1] + Graph(more)[<<c[i - 1], c[i]>>]
    BY <1>2, <1>3 DEF Graph
<1> QED BY <1>1, <1>3, <1>4, CostIs

----------------------------------------------------------------------------
(* What the search knows after each of its steps *)

\* The records a search goes through.
SearchStates ==
    UNION {[dist : [D -> Nat], via : [D -> SUBSET Versions], visited : SUBSET D] :
               D \in SUBSET Versions}

\* The fields of such a record: numbers, and sets of releases.
LEMMA SearchParts ==
    ASSUME NEW s \in SearchStates
    PROVE  /\ s = [dist |-> s.dist, via |-> s.via, visited |-> s.visited]
           /\ DOMAIN s.dist \subseteq Versions /\ DOMAIN s.via = DOMAIN s.dist
           /\ \A v \in DOMAIN s.dist : s.dist[v] \in Nat /\ s.via[v] \subseteq Versions
           /\ s.visited \subseteq DOMAIN s.dist
<1>1. PICK D \in SUBSET Versions :
         s \in [dist : [D -> Nat], via : [D -> SUBSET Versions], visited : SUBSET D]
    BY DEF SearchStates
<1> QED BY <1>1

\* Each release reached has a chain of the cost and with the releases noted,
\* and all of them but the last were visited.
ReachedByChain(graph, from, s, v) ==
    \E c \in Chains : /\ Leads(graph, c, from, v)
                      /\ ChainCost(graph, c) = s.dist[v] /\ Range(c) = s.via[v]
                      /\ Range(c) \subseteq s.visited \cup {v}

\* A visited release has nothing more to give, and none that is still open is
\* nearer.
Settled(graph, to, s, v) ==
    /\ v # to
    /\ \A w : <<v, w>> \in DOMAIN graph =>
          w \in DOMAIN s.dist /\ s.dist[w] <= s.dist[v] + graph[<<v, w>>]
    /\ \A w \in DOMAIN s.dist \ s.visited : s.dist[v] <= s.dist[w]

SearchInv(graph, from, to, s) ==
    /\ s \in SearchStates
    /\ from \in DOMAIN s.dist /\ s.dist[from] = 0
    /\ \A v \in DOMAIN s.dist : ReachedByChain(graph, from, s, v)
    /\ \A v \in s.visited : Settled(graph, to, s, v)

\* The search begins at the release itself.
LEMMA SearchStarts ==
    ASSUME NEW graph \in PatchGraphs, NEW from \in Versions, NEW to
    PROVE  SearchInv(graph, from, to, StartSearch(from))
<1> DEFINE s == StartSearch(from)
<1>1. /\ s.dist = [v \in {from} |-> 0] /\ s.via = [v \in {from} |-> {from}]
      /\ s.visited = {} /\ s = [dist |-> s.dist, via |-> s.via, visited |-> s.visited]
    BY DEF StartSearch
<1>2. s \in SearchStates
    <2>1. {from} \in SUBSET Versions
        OBVIOUS
    <2>2. s \in [dist : [{from} -> Nat], via : [{from} -> SUBSET Versions],
                visited : SUBSET {from}]
        <3> HIDE DEF s
        <3> QED BY <1>1
    <2> HIDE DEF s
    <2> QED BY <2>1, <2>2 DEF SearchStates
<1> HIDE DEF s
<1>3. ReachedByChain(graph, from, s, from)
    BY <1>1, OneRelease DEF ReachedByChain
<1> QED BY <1>1, <1>2, <1>3 DEF SearchInv, s

\* The release that is next: an open one of least cost.
LEMMA NextOpen ==
    ASSUME NEW s \in SearchStates, DOMAIN s.dist \ s.visited # {}
    PROVE  LET open == DOMAIN s.dist \ s.visited
               v == CHOOSE v \in open : \A w \in open : s.dist[v] <= s.dist[w]
           IN  v \in open /\ \A w \in open : s.dist[v] <= s.dist[w]
<1> DEFINE open == DOMAIN s.dist \ s.visited
           costs == {s.dist[w] : w \in open}
<1>1. costs \in SUBSET Nat /\ costs # {}
    BY SearchParts
<1>2. PICK n \in costs : \A m \in costs : n <= m
    <2> HIDE DEF costs
    <2> QED BY <1>1, LeastNumber
<1>3. \E v \in open : \A w \in open : s.dist[v] <= s.dist[w]
    BY <1>2
<1> HIDE DEF open
<1> QED BY <1>3 DEF open

\* Relaxing the edges of an open release of least cost gives none of the
\* visited ones a cheaper chain, for a patch has a size.
LEMMA RelaxKeeps ==
    ASSUME NEW graph \in PatchGraphs, NEW from, NEW to, NEW s,
           SearchInv(graph, from, to, s),
           NEW v \in DOMAIN s.dist \ s.visited, v # to,
           \A w \in DOMAIN s.dist \ s.visited : s.dist[v] <= s.dist[w]
    PROVE  SearchInv(graph, from, to, Relax(graph, s, v))
<1> DEFINE t == Relax(graph, s, v)
           D == DOMAIN s.dist
           cost(w) == s.dist[v] + graph[<<v, w>>]
           better == {w \in Versions : <<v, w>> \in DOMAIN graph /\ Improves(s, w, cost(w))}
<1>1. /\ D \subseteq Versions /\ s.visited \subseteq D /\ v \in D /\ v \in Versions
      /\ \A w \in D : s.dist[w] \in Nat
    BY SearchParts DEF SearchInv
<1>2. \A u, w : <<u, w>> \in DOMAIN graph =>
         u \in Versions /\ w \in Versions /\ u # w /\ graph[<<u, w>>] \in Nat \ {0}
    BY GraphParts
<1>3. /\ DOMAIN t.dist = D \cup better /\ t.visited = s.visited \cup {v}
      /\ t \in SearchStates
      /\ \A w \in better : t.dist[w] = cost(w) /\ t.via[w] = s.via[v] \cup {w}
      /\ \A w \in D \ better : t.dist[w] = s.dist[w] /\ t.via[w] = s.via[w]
    <2>1. /\ t.dist = [w \in D \cup better |-> IF w \in better THEN cost(w) ELSE s.dist[w]]
          /\ t.via = [w \in D \cup better |->
                         IF w \in better THEN s.via[v] \cup {w} ELSE s.via[w]]
          /\ t.visited = s.visited \cup {v}
          /\ t = [dist |-> t.dist, via |-> t.via, visited |-> t.visited]
        BY DEF Relax
    <2>2. \A w \in better : cost(w) \in Nat
        BY <1>1, <1>2
    <2>3. better \subseteq Versions
        OBVIOUS
    <2>4. \A w \in D : s.via[w] \subseteq Versions
        BY SearchParts DEF SearchInv
    <2> HIDE DEF t, better, cost
    <2>5. D \cup better \in SUBSET Versions /\ t.visited \in SUBSET (D \cup better)
        BY <1>1, <2>1, <2>3
    <2>6. t.dist \in [D \cup better -> Nat]
        BY <1>1, <2>1, <2>2
    <2>7. t.via \in [D \cup better -> SUBSET Versions]
        BY <1>1, <2>1, <2>3, <2>4
    <2>8. t \in SearchStates
        BY <2>1, <2>5, <2>6, <2>7 DEF SearchStates
    <2> QED BY <2>1, <2>8
<1>4. better \cap s.visited = {} /\ v \notin better
    <2>1. ASSUME NEW w \in better, w \in s.visited PROVE FALSE
        <3>1. w \in D /\ s.dist[w] <= s.dist[v] /\ cost(w) < s.dist[w]
            BY <1>1, <2>1 DEF SearchInv, Settled, Improves
        <3> QED BY <1>1, <1>2, <3>1
    <2>2. v \notin better
        BY <1>2
    <2> QED BY <2>1, <2>2
<1>5. \A w \in better : w \in D => cost(w) < s.dist[w]
    BY DEF Improves
<1>6. \A w : <<v, w>> \in DOMAIN graph /\ w \notin better =>
         w \in D /\ s.dist[w] <= cost(w)
    BY <1>1, <1>2 DEF Improves
<1>7. \A w \in better : <<v, w>> \in DOMAIN graph /\ cost(w) \in Nat /\ s.dist[v] <= cost(w)
    BY <1>1, <1>2
<1> HIDE DEF t, better
<1>8. from \in DOMAIN t.dist /\ t.dist[from] = 0
    <2>1. from \in D /\ s.dist[from] = 0
        BY DEF SearchInv
    <2>2. from \notin better
        <3>1. from \in better => cost(from) \in Nat /\ cost(from) < 0
            BY <1>5, <1>7, <2>1
        <3> HIDE DEF cost
        <3> QED BY <3>1
    <2> QED BY <1>3, <2>1, <2>2
<1>9. ASSUME NEW w \in DOMAIN t.dist PROVE ReachedByChain(graph, from, t, w)
    <2>1. CASE w \in better
        <3>1. PICK c \in Chains :
                 /\ Leads(graph, c, from, v)
                 /\ ChainCost(graph, c) = s.dist[v] /\ Range(c) = s.via[v]
                 /\ Range(c) \subseteq s.visited \cup {v}
            BY DEF SearchInv, ReachedByChain
        <3>2. w \notin Range(c)
            BY <1>4, <2>1, <3>1
        <3>3. PICK d \in Chains : /\ Leads(graph, d, from, w)
                                  /\ ChainCost(graph, d) = ChainCost(graph, c) + graph[<<v, w>>]
                                  /\ Range(d) = Range(c) \cup {w}
            BY <1>7, <2>1, <3>1, <3>2, OneMoreRelease
        <3> QED BY <1>3, <2>1, <3>1, <3>3 DEF ReachedByChain
    <2>2. CASE w \notin better
        BY <1>3, <2>2 DEF SearchInv, ReachedByChain
    <2> QED BY <2>1, <2>2
<1>10. ASSUME NEW u \in t.visited PROVE Settled(graph, to, t, u)
    <2>1. /\ u \in D /\ u \notin better /\ t.dist[u] = s.dist[u] /\ u # to
          /\ \A w \in D \ s.visited : s.dist[u] <= s.dist[w]
          /\ s.dist[u] <= s.dist[v]
        <3>1. CASE u = v
            BY <1>1, <1>3, <1>4, <3>1
        <3>2. CASE u \in s.visited
            BY <1>1, <1>3, <1>4, <3>2 DEF SearchInv, Settled
        <3> QED BY <1>3, <3>1, <3>2
    <2>2. ASSUME NEW w, <<u, w>> \in DOMAIN graph
          PROVE  w \in DOMAIN t.dist /\ t.dist[w] <= t.dist[u] + graph[<<u, w>>]
        <3>1. CASE u = v
            BY <1>1, <1>2, <1>3, <1>6, <1>7, <2>1, <2>2, <3>1
        <3>2. CASE u \in s.visited
            <4>1. w \in D /\ s.dist[w] <= s.dist[u] + graph[<<u, w>>]
                BY <2>2, <3>2 DEF SearchInv, Settled
            <4>2. t.dist[w] \in Nat /\ t.dist[w] <= s.dist[w]
                <5>1. s.dist[w] \in Nat
                    BY <1>1, <4>1
                <5>2. CASE w \in better
                    <6>1. t.dist[w] = cost(w) /\ cost(w) \in Nat /\ cost(w) < s.dist[w]
                        BY <1>3, <1>5, <1>7, <4>1, <5>2
                    <6> HIDE DEF cost
                    <6> QED BY <5>1, <6>1
                <5>3. CASE w \notin better
                    BY <1>3, <4>1, <5>1, <5>3
                <5> QED BY <5>2, <5>3
            <4> QED BY <1>1, <1>2, <1>3, <2>1, <2>2, <4>1, <4>2
        <3> QED BY <1>3, <3>1, <3>2
    <2>3. ASSUME NEW w \in DOMAIN t.dist \ t.visited PROVE t.dist[u] <= t.dist[w]
        <3>1. CASE w \in better
            <4>1. t.dist[w] = cost(w) /\ cost(w) \in Nat /\ s.dist[v] <= cost(w)
                BY <1>3, <1>7, <3>1
            <4>2. t.dist[u] = s.dist[u] /\ s.dist[u] \in Nat /\ s.dist[v] \in Nat
                BY <1>1, <2>1
            <4> HIDE DEF cost
            <4> QED BY <2>1, <4>1, <4>2
        <3>2. CASE w \notin better
            BY <1>3, <2>1, <2>3, <3>2
        <3> QED BY <3>1, <3>2
    <2> QED BY <2>1, <2>2, <2>3 DEF Settled
<1> QED BY <1>3, <1>8, <1>9, <1>10 DEF SearchInv, t

----------------------------------------------------------------------------
(* The end of the search, and what it has found *)

\* What ends the search: nothing is open, or the nearest open release is the
\* goal or too far.
Stopped(to, s) ==
    LET open == DOMAIN s.dist \ s.visited
        v == CHOOSE v \in open : \A w \in open : s.dist[v] <= s.dist[w]
    IN  open = {} \/ v = to \/ s.dist[v] > Cap

\* A step that does not find the search stopped visits one release more.
LEMMA StepKeepsSearch ==
    ASSUME NEW graph \in PatchGraphs, NEW from, NEW to, NEW s,
           SearchInv(graph, from, to, s)
    PROVE  /\ SearchInv(graph, from, to, SearchStep(graph, s, to))
           /\ (Stopped(to, s) => SearchStep(graph, s, to) = s)
           /\ \/ Stopped(to, s)
              \/ Cardinality(SearchStep(graph, s, to).visited) = Cardinality(s.visited) + 1
<1> DEFINE open == DOMAIN s.dist \ s.visited
           v == CHOOSE v \in open : \A w \in open : s.dist[v] <= s.dist[w]
           next == SearchStep(graph, s, to)
<1>1. next = IF Stopped(to, s) THEN s ELSE Relax(graph, s, v)
    BY DEF SearchStep, Stopped
<1>2. ASSUME ~ Stopped(to, s)
      PROVE  v \in open /\ (\A w \in open : s.dist[v] <= s.dist[w]) /\ v # to
    <2>1. open # {} /\ v # to
        BY <1>2 DEF Stopped
    <2>2. s \in SearchStates
        BY DEF SearchInv
    <2> QED BY <2>1, <2>2, NextOpen
<1> HIDE DEF v, next
<1>3. ASSUME ~ Stopped(to, s)
      PROVE  /\ SearchInv(graph, from, to, next)
             /\ Cardinality(next.visited) = Cardinality(s.visited) + 1
    <2>1. SearchInv(graph, from, to, Relax(graph, s, v))
        BY <1>2, <1>3, RelaxKeeps
    <2>2. s.visited \subseteq Versions /\ v \notin s.visited
        BY <1>2, <1>3, SearchParts DEF SearchInv
    <2>3. IsFiniteSet(s.visited)
        BY <2>2, VersionsFinite, FS_Subset
    <2>4. Relax(graph, s, v).visited = s.visited \cup {v}
        BY DEF Relax
    <2>5. Cardinality(s.visited \cup {v}) = Cardinality(s.visited) + 1
        BY <2>2, <2>3, FS_AddElement
    <2> QED BY <1>1, <1>3, <2>1, <2>4, <2>5
<1> QED BY <1>1, <1>3 DEF next

\* Until it has stopped, the search has visited a release with each step.
LEMMA StepCounts ==
    ASSUME NEW graph \in PatchGraphs, NEW from, NEW to, NEW s,
           SearchInv(graph, from, to, s), NEW n \in Nat,
           Stopped(to, s) \/ Cardinality(s.visited) = n
    PROVE  LET next == SearchStep(graph, s, to)
           IN  Stopped(to, next) \/ Cardinality(next.visited) = n + 1
<1>1. CASE Stopped(to, s)
    <2>1. SearchStep(graph, s, to) = s
        BY <1>1, StepKeepsSearch
    <2> QED BY <1>1, <2>1
<1>2. CASE ~ Stopped(to, s)
    <2>1. Cardinality(SearchStep(graph, s, to).visited) = Cardinality(s.visited) + 1
        BY <1>2, StepKeepsSearch
    <2> QED BY <1>2, <2>1
<1> QED BY <1>1, <1>2

\* The search is over when it has made as many steps as there are releases.
LEMMA SearchEnds ==
    ASSUME NEW graph \in PatchGraphs, NEW from \in Versions, NEW to
    PROVE  \E s : /\ SearchInv(graph, from, to, s) /\ Stopped(to, s)
                  /\ ShortestPatchPath(graph, from, to)
                        = IF to \in DOMAIN s.dist /\ s.dist[to] <= Cap
                          THEN [cost |-> s.dist[to], nodes |-> s.via[to]]
                          ELSE [cost |-> 0, nodes |-> {}]
<1> DEFINE N == Cardinality(Versions)
           F(t) == [i \in 0..N |-> IF i = 0 THEN StartSearch(from)
                                   ELSE SearchStep(graph, t[i - 1], to)]
           search == CHOOSE t : t = F(t)
           S == {s \in SearchStates : SearchInv(graph, from, to, s)}
           step == [i \in 1..N |-> [s \in S |-> SearchStep(graph, s, to)]]
<1>1. ShortestPatchPath(graph, from, to)
         = IF to \in DOMAIN search[N].dist /\ search[N].dist[to] <= Cap
           THEN [cost |-> search[N].dist[to], nodes |-> search[N].via[to]]
           ELSE [cost |-> 0, nodes |-> {}]
    BY DEF ShortestPatchPath
<1>2. N \in Nat
    BY VersionsFinite
<1> HIDE DEF N
<1>3. /\ StartSearch(from) \in S
      /\ \A s \in S : SearchInv(graph, from, to, s) /\ SearchStep(graph, s, to) \in S
    <2>1. \A s : SearchInv(graph, from, to, s) => s \in SearchStates
        BY DEF SearchInv
    <2>2. SearchInv(graph, from, to, StartSearch(from))
        BY SearchStarts
    <2>3. \A s : SearchInv(graph, from, to, s) =>
                    SearchInv(graph, from, to, SearchStep(graph, s, to))
        BY StepKeepsSearch
    <2> QED BY <2>1, <2>2, <2>3
<1> HIDE DEF S
<1>4. PICK f \in [0..N -> S] : f[0] = StartSearch(from) /\ \A i \in 1..N : f[i] = step[i][f[i - 1]]
    <2>1. step \in [1..N -> [S -> S]]
        BY <1>3
    <2> HIDE DEF step
    <2> QED BY <1>2, <1>3, <2>1, RecursionExists
<1>5. \A i \in 1..N : i - 1 \in 0..N /\ f[i] = SearchStep(graph, f[i - 1], to)
    <2>1. \A i \in 1..N : i - 1 \in 0..N
        BY <1>2
    <2> QED BY <1>4, <2>1
<1> HIDE DEF step
<1>6. f = F(f)
    <2>1. \A i \in 0..N : f[i] = F(f)[i]
        BY <1>2, <1>4, <1>5
    <2> QED BY <2>1
<1>7. search = F(search)
    BY <1>6
<1> HIDE DEF search
<1>8. /\ search[0] = StartSearch(from)
      /\ \A i \in 1..N : search[i] = SearchStep(graph, search[i - 1], to)
    BY <1>2, <1>7
<1>9. \A i \in 0..N : search[i] \in S
    <2> DEFINE Q == {i \in 0..N : search[i] \in S}
    <2>1. 0 \in Q /\ 0 \in Nat
        BY <1>2, <1>3, <1>8
    <2>2. ASSUME NEW i \in (0 + 1)..N, i - 1 \in Q PROVE i \in Q
        <3>1. i \in 1..N /\ i \in 0..N /\ search[i - 1] \in S
            BY <1>2, <2>2
        <3> QED BY <1>3, <1>8, <3>1
    <2>3. \A i \in 0..N : i \in Q
        <3> HIDE DEF Q
        <3> QED BY <1>2, <2>1, <2>2, StepwiseInduction, Zenon
    <2> QED BY <2>3
<1>10. \A i \in 0..N : SearchInv(graph, from, to, search[i])
    BY <1>3, <1>9
<1> DEFINE Over(s, n) == Stopped(to, s) \/ Cardinality(s.visited) = n
           Q == {i \in 0..N : Over(search[i], i)}
<1>11. 0 \in Q /\ 0 \in Nat
    <2>1. search[0].visited = {}
        BY <1>8 DEF StartSearch
    <2>2. Over(search[0], 0)
        BY <2>1, FS_EmptySet
    <2> HIDE DEF Over
    <2> QED BY <1>2, <2>2
<1>12. ASSUME NEW i \in (0 + 1)..N, i - 1 \in Q PROVE i \in Q
    <2>1. i \in 1..N /\ i \in 0..N /\ i - 1 \in 0..N /\ i - 1 \in Nat /\ (i - 1) + 1 = i
        BY <1>2
    <2>2. SearchInv(graph, from, to, search[i - 1])
        BY <1>10, <2>1
    <2>3. Over(search[i - 1], i - 1)
        BY <1>12
    <2>4. Over(SearchStep(graph, search[i - 1], to), i)
        BY <2>1, <2>2, <2>3, StepCounts
    <2> HIDE DEF Over
    <2> QED BY <1>8, <2>1, <2>4
<1>13. \A i \in 0..N : Over(search[i], i)
    <2>1. \A i \in 0..N : i \in Q
        <3> HIDE DEF Q
        <3> QED BY <1>2, <1>11, <1>12, StepwiseInduction, Zenon
    <2> QED BY <2>1
<1> HIDE DEF Q
<1> DEFINE last == search[N]
<1>14. SearchInv(graph, from, to, last)
    BY <1>2, <1>10
<1>15. Stopped(to, last)
    <2> SUFFICES ASSUME Cardinality(last.visited) = N PROVE Stopped(to, last)
        BY <1>2, <1>13
    <2>1. last.visited \subseteq DOMAIN last.dist /\ DOMAIN last.dist \subseteq Versions
        BY <1>14, SearchParts DEF SearchInv
    <2>2. last.visited = Versions
        BY <2>1, VersionsFinite, FS_Subset DEF N
    <2>3. DOMAIN last.dist \ last.visited = {}
        BY <2>1, <2>2
    <2> QED BY <2>3 DEF Stopped
<1> QED BY <1>1, <1>14, <1>15

\* What a chain has cost grows along it.
LEMMA CostGrows ==
    ASSUME NEW L \in Nat \ {0}, NEW d \in [1..L -> Nat], \A i \in 2..L : d[i - 1] <= d[i],
           NEW k \in 1..L
    PROVE  d[k] <= d[L]
<1> DEFINE Q == {i \in k..L : d[k] <= d[i]}
<1>1. k \in Q /\ k \in Nat /\ L \in Nat /\ L \in k..L
    OBVIOUS
<1>2. ASSUME NEW i \in (k + 1)..L, i - 1 \in Q PROVE i \in Q
    <2>1. i \in 2..L /\ i \in 1..L /\ i - 1 \in 1..L /\ i \in k..L
        OBVIOUS
    <2>2. d[k] <= d[i - 1] /\ d[i - 1] <= d[i]
        BY <1>2, <2>1
    <2>3. d[k] \in Nat /\ d[i - 1] \in Nat /\ d[i] \in Nat
        BY <2>1
    <2>4. d[k] <= d[i]
        BY <2>2, <2>3
    <2> QED BY <2>1, <2>4
<1>3. \A i \in k..L : i \in Q
    <2> HIDE DEF Q
    <2> QED BY <1>1, <1>2, StepwiseInduction, Zenon
<1> QED BY <1>1, <1>3

\* When the search has stopped, no chain within the cap is cheaper than the
\* one it has for the goal: the first open release on the chain would be next.
LEMMA NoneCheaper ==
    ASSUME NEW graph \in PatchGraphs, NEW from, NEW to, NEW s,
           SearchInv(graph, from, to, s), Stopped(to, s),
           NEW c \in Chains, Leads(graph, c, from, to), ChainCost(graph, c) <= Cap
    PROVE  to \in DOMAIN s.dist /\ s.dist[to] <= ChainCost(graph, c)
<1> DEFINE L == Len(c)
           D == DOMAIN s.dist
           open == D \ s.visited
           next == CHOOSE v \in open : \A w \in open : s.dist[v] <= s.dist[w]
<1>1. PICK d \in [1..L -> Nat] :
          /\ d[1] = 0
          /\ \A i \in 2..L : d[i] = d[i - 1] + graph[<<c[i - 1], c[i]>>]
          /\ ChainCost(graph, c) = d[L]
    BY CostAlong
<1>2. L \in Nat \ {0} /\ c[1] = from /\ c[L] = to
      /\ \A i \in 2..L : <<c[i - 1], c[i]>> \in DOMAIN graph
    BY ChainParts DEF Leads
<1>3. /\ s \in SearchStates /\ s.visited \subseteq D /\ (\A v \in D : s.dist[v] \in Nat)
      /\ from \in D /\ s.dist[from] = 0 /\ Cap \in Nat
      /\ \A v \in s.visited : Settled(graph, to, s, v)
    BY SearchParts, NumbersAssumption DEF SearchInv
<1> HIDE DEF L, D
<1>4. PICK k \in 1..L : c[k] \notin s.visited /\ \A i \in 1..L : i < k => c[i] \in s.visited
    <2> DEFINE T == {i \in 1..L : c[i] \notin s.visited}
    <2>1. L \in T
        BY <1>2, <1>3 DEF Settled
    <2>2. T \in SUBSET Nat /\ T # {}
        BY <2>1
    <2>3. PICK k \in T : \A i \in T : k <= i
        <3> HIDE DEF T
        <3> QED BY <2>2, LeastNumber
    <2>4. ASSUME NEW i \in 1..L, i < k PROVE c[i] \in s.visited
        <3>1. ~ (k <= i)
            BY <2>3, <2>4
        <3> QED BY <2>3, <3>1
    <2> QED BY <2>3, <2>4
<1> DEFINE Q == {i \in 1..k : c[i] \in D /\ s.dist[c[i]] <= d[i]}
<1>5. 1 \in Q /\ 1 \in Nat /\ k \in Nat /\ k \in 1..k
    BY <1>1, <1>2, <1>3
<1>6. ASSUME NEW i \in (1 + 1)..k, i - 1 \in Q PROVE i \in Q
    <2>1. i \in 2..L /\ i \in 1..k /\ i - 1 \in 1..L /\ i - 1 < k /\ i \in 1..L
        BY <1>2
    <2> DEFINE u == c[i - 1]
               w == c[i]
    <2>2. u \in s.visited /\ u \in D /\ s.dist[u] <= d[i - 1] /\ <<u, w>> \in DOMAIN graph
        BY <1>2, <1>4, <1>6, <2>1
    <2>3. d[i] = d[i - 1] + graph[<<u, w>>] /\ d[i] \in Nat /\ d[i - 1] \in Nat
        BY <1>1, <2>1
    <2> HIDE DEF u, w
    <2>4. graph[<<u, w>>] \in Nat
        BY <2>2, GraphParts
    <2>5. w \in D /\ s.dist[w] <= s.dist[u] + graph[<<u, w>>]
        BY <1>3, <2>2 DEF Settled, D
    <2>6. s.dist[w] \in Nat /\ s.dist[u] \in Nat
        BY <1>3, <2>2, <2>5
    <2>7. s.dist[w] <= d[i]
        <3> DEFINE a == s.dist[u]
                   b == s.dist[w]
                   g == graph[<<u, w>>]
                   p == d[i - 1]
                   q == d[i]
        <3>1. a \in Nat /\ b \in Nat /\ g \in Nat /\ p \in Nat /\ q \in Nat
            BY <2>3, <2>4, <2>6
        <3>2. b <= a + g /\ a <= p /\ q = p + g
            BY <2>2, <2>3, <2>5
        <3> HIDE DEF a, b, g, p, q
        <3>3. b <= q
            BY <3>1, <3>2
        <3> QED BY <3>3 DEF b, q
    <2> QED BY <2>1, <2>5, <2>7 DEF w
<1>7. \A i \in 1..k : i \in Q
    <2> HIDE DEF Q
    <2> QED BY <1>5, <1>6, StepwiseInduction, Zenon
<1>8. c[k] \in open /\ s.dist[c[k]] <= d[k]
    BY <1>4, <1>5, <1>7
<1>9. d[k] <= d[L] /\ d[k] \in Nat /\ d[L] \in Nat
    <2>1. ASSUME NEW i \in 2..L PROVE d[i - 1] <= d[i]
        <3>1. graph[<<c[i - 1], c[i]>>] \in Nat
            BY <1>2, GraphParts
        <3>2. d[i - 1] \in Nat /\ d[i] = d[i - 1] + graph[<<c[i - 1], c[i]>>]
            BY <1>1, <1>2
        <3> QED BY <3>1, <3>2
    <2>2. d[k] <= d[L]
        BY <1>2, <2>1, CostGrows
    <2> QED BY <1>2, <2>2
<1>10. next \in open /\ \A w \in open : s.dist[next] <= s.dist[w]
    <2>1. open # {}
        BY <1>8
    <2> QED BY <1>3, <2>1, NextOpen DEF D
<1>11. open = {} \/ next = to \/ s.dist[next] > Cap
    BY DEF Stopped, D
<1> HIDE DEF next
<1>12. s.dist[next] \in Nat /\ s.dist[c[k]] \in Nat /\ s.dist[next] <= s.dist[c[k]]
    BY <1>3, <1>8, <1>10
<1>13. s.dist[next] <= ChainCost(graph, c)
    BY <1>1, <1>8, <1>9, <1>12
<1>14. next = to
    BY <1>1, <1>3, <1>8, <1>9, <1>11, <1>12, <1>13
<1> QED BY <1>10, <1>13, <1>14 DEF D

\* shortest-patch-path returns a chain of patches within the cap, with its
\* cost, and returns one when there is one, and never one that costs more than
\* another: whatever the releases, the patches and their sizes.
THEOREM ShortestPathIsShortest ==
    ASSUME NEW graph \in PatchGraphs, NEW from \in Versions, NEW to
    PROVE  LET found == ShortestPatchPath(graph, from, to)
           IN  /\ \/ found.nodes = {}
                  \/ \E c \in Chains : /\ Leads(graph, c, from, to)
                                       /\ ChainCost(graph, c) = found.cost
                                       /\ Range(c) = found.nodes /\ found.cost <= Cap
               /\ \A c \in Chains :
                     Leads(graph, c, from, to) /\ ChainCost(graph, c) <= Cap =>
                        found.nodes # {} /\ found.cost <= ChainCost(graph, c)
<1> DEFINE found == ShortestPatchPath(graph, from, to)
<1>1. PICK s : /\ SearchInv(graph, from, to, s) /\ Stopped(to, s)
               /\ found = IF to \in DOMAIN s.dist /\ s.dist[to] <= Cap
                          THEN [cost |-> s.dist[to], nodes |-> s.via[to]]
                          ELSE [cost |-> 0, nodes |-> {}]
    BY SearchEnds
<1> HIDE DEF found
<1>2. ASSUME NEW c \in Chains, Leads(graph, c, from, to), ChainCost(graph, c) <= Cap
      PROVE  to \in DOMAIN s.dist /\ s.dist[to] <= ChainCost(graph, c) /\ s.dist[to] <= Cap
    <2>1. to \in DOMAIN s.dist /\ s.dist[to] <= ChainCost(graph, c)
        BY <1>1, <1>2, NoneCheaper
    <2>2. s.dist[to] \in Nat /\ ChainCost(graph, c) \in Nat /\ Cap \in Nat
        <3>1. s.dist[to] \in Nat
            BY <1>1, <2>1, SearchParts DEF SearchInv
        <3>2. Len(c) \in 1..Len(c)
            BY ChainParts
        <3>3. ChainCost(graph, c) \in Nat
            BY <1>2, <3>2, CostAlong
        <3> QED BY <3>1, <3>3, NumbersAssumption
    <2> QED BY <1>2, <2>1, <2>2
<1>3. ASSUME to \in DOMAIN s.dist
      PROVE  \E c \in Chains : /\ Leads(graph, c, from, to)
                               /\ ChainCost(graph, c) = s.dist[to] /\ Range(c) = s.via[to]
                               /\ Range(c) # {}
    <2>1. PICK c \in Chains : /\ Leads(graph, c, from, to)
                              /\ ChainCost(graph, c) = s.dist[to] /\ Range(c) = s.via[to]
        BY <1>1, <1>3 DEF SearchInv, ReachedByChain
    <2>2. 1 \in DOMAIN c
        BY ChainParts
    <2>3. Range(c) # {}
        BY <2>2 DEF Range
    <2> QED BY <2>1, <2>3
<1>4. CASE to \in DOMAIN s.dist /\ s.dist[to] <= Cap
    <2>1. found.cost = s.dist[to] /\ found.nodes = s.via[to]
        BY <1>1, <1>4
    <2> QED BY <1>2, <1>3, <1>4, <2>1 DEF found
<1>5. CASE ~ (to \in DOMAIN s.dist /\ s.dist[to] <= Cap)
    <2>1. found.nodes = {}
        BY <1>1, <1>5
    <2> QED BY <1>2, <1>5, <2>1 DEF found
<1> QED BY <1>4, <1>5

\* The search that the plan relies on is right whatever the state in which the
\* plan is made, for every graph of patches of the catalogue.
THEOREM SearchCorrect == Spec => []SearchIsCheapest
<1>1. TypeInv => SearchIsCheapest
    <2> SUFFICES ASSUME TypeInv,
                        NEW edges \in {Joined(patches), Without(Joined(patches), Drops)},
                        NEW graph \in [edges -> Sizes], NEW from \in gc.positions \ {gc.target}
                 PROVE  LET found == ShortestPatchPath(graph, from, gc.target)
                            costs == {n \in ChainCosts(graph, from, gc.target) : n <= Cap}
                        IN  IF costs = {} THEN found.nodes = {}
                            ELSE found.cost \in costs /\ \A n \in costs : found.cost <= n
        BY DEF SearchIsCheapest
    <2> DEFINE to == gc.target
               found == ShortestPatchPath(graph, from, to)
               costs == {n \in ChainCosts(graph, from, to) : n <= Cap}
    <2>1. graph \in PatchGraphs
        <3>1. edges \subseteq Edges
            BY DEF TypeInv, PatchesOK, Joined, Without
        <3>2. graph \in [edges -> Nat \ {0}]
            BY SizesAssumption
        <3> QED BY <3>1, <3>2 DEF PatchGraphs
    <2>2. from \in Versions
        BY DEF TypeInv, GcRecord
    <2>3. /\ \/ found.nodes = {}
             \/ \E c \in Chains : /\ Leads(graph, c, from, to)
                                  /\ ChainCost(graph, c) = found.cost
                                  /\ Range(c) = found.nodes /\ found.cost <= Cap
          /\ \A c \in Chains :
                Leads(graph, c, from, to) /\ ChainCost(graph, c) <= Cap =>
                   found.nodes # {} /\ found.cost <= ChainCost(graph, c)
        BY <2>1, <2>2, ShortestPathIsShortest
    <2> HIDE DEF found
    <2>4. \A n : n \in costs <=> \E c \in Chains : /\ Leads(graph, c, from, to)
                                                   /\ ChainCost(graph, c) = n /\ n <= Cap
        BY DEF ChainCosts
    <2> HIDE DEF costs
    <2>5. CASE costs = {}
        BY <2>3, <2>4, <2>5 DEF found, costs
    <2>6. CASE costs # {}
        <3>1. found.nodes # {}
            BY <2>3, <2>4, <2>6
        <3>2. found.cost \in costs
            BY <2>3, <2>4, <3>1
        <3>3. \A n \in costs : found.cost <= n
            BY <2>3, <2>4
        <3> QED BY <2>6, <3>2, <3>3 DEF found, costs
    <2> QED BY <2>5, <2>6
<1> QED BY <1>1, InitType, StepType, PTL DEF Spec

----------------------------------------------------------------------------
(* The plan, from when it is made to the last drop *)

\* The target is none of the candidates.
TargetStays == gc.pc = "plan" \/ Planned => gc.target \notin Drops

ByChain(v) == \E n \in ChainCosts(Graph(PatchesKept), v, gc.target) : n <= Cap

\* The patches there are, those that lost their row, and those still to be built.
PatchesMade == patches \cup gc.evicted \cup gc.edges

\* Each release that a client is on and that stays has its chain or its patch,
\* or the patch is still to be built.
PlanHolds ==
    Planned =>
        \A v \in gc.positions \ ({gc.target} \cup Drops) :
            ByChain(v) \/ <<v, gc.target>> \in PatchesMade

AllIsBuilt == Planned /\ gc.pc = "drop" => gc.edges = {}

\* A run has no target until it chooses one.
NoTarget == gc.pc = "count" => gc.target = 0

PlanInv == TargetStays /\ PlanHolds /\ AllIsBuilt /\ NoTarget

\* There is no plan before the first run.
LEMMA InitPlan == Init => PlanInv
    BY DEF Init, NoGc, PlanInv, NoTarget, Planned, TargetStays, PlanHolds, AllIsBuilt

\* A chain of patches between releases that stay is there as long as they are.
LEMMA ChainStays ==
    ASSUME TypeInv, TypeInv', NEW v, ByChain(v),
           gc'.target = gc.target, PatchesKept \subseteq PatchesKept'
    PROVE  ByChain(v)'
<1> DEFINE some == PatchesKept
           more == PatchesKept'
<1>1. some \in SUBSET Edges /\ more \in SUBSET Edges
    BY DEF TypeInv, PatchesOK, GcRecord, PatchesKept, Joined, Without
<1>2. PICK c \in Chains : Leads(Graph(some), c, v, gc.target) /\ ChainCost(Graph(some), c) <= Cap
    BY DEF ByChain, ChainCosts
<1>3. some \subseteq more
    OBVIOUS
<1> HIDE DEF some, more
<1>4. Leads(Graph(more), c, v, gc.target)
    BY <1>1, <1>2, <1>3, GraphOf DEF Leads
<1>5. ChainCost(Graph(more), c) = ChainCost(Graph(some), c)
    BY <1>1, <1>2, <1>4, SameCost
<1>6. ChainCost(Graph(more), c) <= Cap
    BY <1>2, <1>5
<1>7. \E n \in ChainCosts(Graph(more), v, gc.target) : n <= Cap
    BY <1>4, <1>6 DEF ChainCosts
<1> QED BY <1>7 DEF ByChain, more

\* Steps that leave the plan's parts alone, and take no patch between releases
\* that stay but for another of its hash.
LEMMA PlanCarriedOn ==
    ASSUME TypeInv, TypeInv', PlanInv,
           gc'.target = gc.target, gc'.candidates = gc.candidates,
           gc'.positions = gc.positions,
           gc'.pc = "plan" => gc.pc = "plan",
           Planned' => Planned,
           Released \ Drops \subseteq Released',
           Planned => /\ Without(patches \cup gc.evicted, Drops) \subseteq patches' \cup gc'.evicted
                      /\ Without(PatchesMade, Drops) \subseteq PatchesMade'
    PROVE  TargetStays' /\ PlanHolds'
<1>1. Drops' = Drops
    BY DEF Drops
<1>2. TargetStays'
    BY <1>1 DEF PlanInv, TargetStays
<1>3. Planned' => PatchesKept \subseteq PatchesKept'
    BY <1>1 DEF PatchesKept, Joined, Without
<1>4. ASSUME Planned', NEW v \in gc.positions \ ({gc.target} \cup Drops)
      PROVE  ByChain(v)' \/ <<v, gc.target>> \in PatchesMade'
    <2>1. ByChain(v) \/ <<v, gc.target>> \in PatchesMade
        BY <1>4 DEF PlanInv, PlanHolds
    <2>2. gc.target \notin Drops
        BY <1>4 DEF PlanInv, TargetStays
    <2>3. CASE ByChain(v)
        BY <2>3, <1>3, <1>4, ChainStays
    <2>4. CASE <<v, gc.target>> \in PatchesMade
        <3>1. <<v, gc.target>> \in Without(PatchesMade, Drops)
            BY <1>4, <2>2, <2>4 DEF Without
        <3> QED BY <3>1, <1>4
    <2> QED BY <2>1, <2>3, <2>4
<1>5. PlanHolds'
    BY <1>1, <1>4 DEF PlanHolds
<1> QED BY <1>2, <1>5

\* A patch that is inserted while the plan holds takes rows that are noted.
LEMMA PatchInserted ==
    ASSUME PatchesOK, Planned, NEW e \in Edges, StorePatch(e),
           gc'.evicted = EvictedSince(e)
    PROVE  patches' \cup gc'.evicted = patches \cup gc.evicted \cup {e}
    BY StoredPatch DEF EvictedSince

\* A client that does not fall back on the blob has a chain that stays: the
\* cheapest one there is now, or the cheapest without the candidates.
LEMMA NoFallBack ==
    ASSUME TypeInv, NEW v \in Versions, ~ FallsBack(v)
    PROVE  \E c \in Chains : /\ Leads(Graph(Without(Joined(patches), Drops)), c, v, gc.target)
                             /\ ChainCost(Graph(Without(Joined(patches), Drops)), c) <= Cap
<1> DEFINE all == Joined(patches)
           some == Without(all, Drops)
           to == gc.target
           before == ShortestPatchPath(Graph(all), v, to)
           after == ShortestPatchPath(Graph(some), v, to)
<1>1. all \in SUBSET Edges /\ some \in SUBSET Edges
    BY DEF TypeInv, PatchesOK, Joined, Without
<1>2. (before.nodes # {} /\ before.nodes \cap Drops = {}) \/ after.nodes # {}
    BY DEF FallsBack
<1>3. Graph(all) \in PatchGraphs /\ Graph(some) \in PatchGraphs
    BY <1>1, GraphOf
<1>4. some = {e \in all : {e[1], e[2]} \cap Drops = {}}
    BY DEF Without
<1> HIDE DEF some, all
<1>5. CASE after.nodes # {}
    <2>1. \E c \in Chains : /\ Leads(Graph(some), c, v, to)
                            /\ ChainCost(Graph(some), c) = after.cost
                            /\ Range(c) = after.nodes /\ after.cost <= Cap
        BY <1>3, <1>5, ShortestPathIsShortest
    <2> HIDE DEF after
    <2> QED BY <2>1 DEF some, all
<1>6. CASE before.nodes # {} /\ before.nodes \cap Drops = {}
    <2>1. PICK c \in Chains : /\ Leads(Graph(all), c, v, to)
                              /\ ChainCost(Graph(all), c) = before.cost
                              /\ Range(c) = before.nodes /\ before.cost <= Cap
        BY <1>3, <1>6, ShortestPathIsShortest
    <2> HIDE DEF before
    <2>2. Range(c) \cap Drops = {}
        BY <1>6, <2>1
    <2>3. ASSUME NEW i \in 2..Len(c) PROVE <<c[i - 1], c[i]>> \in some
        <3>1. <<c[i - 1], c[i]>> \in all
            BY <1>1, <2>1, GraphOf DEF Leads
        <3>2. c[i - 1] \in Range(c) /\ c[i] \in Range(c)
            <4>1. i \in DOMAIN c /\ i - 1 \in DOMAIN c
                BY ChainParts
            <4> QED BY <4>1 DEF Range
        <3>3. c[i - 1] \notin Drops /\ c[i] \notin Drops
            BY <2>2, <3>2
        <3> QED BY <3>1, <3>3, <1>4
    <2>4. Leads(Graph(some), c, v, to)
        BY <1>1, <2>1, <2>3, GraphOf DEF Leads
    <2>5. ChainCost(Graph(some), c) = ChainCost(Graph(all), c)
        BY <1>1, <2>1, <2>4, SameCost
    <2> QED BY <2>1, <2>4, <2>5 DEF some, all
<1> QED BY <1>2, <1>5, <1>6

\* The target is chosen among the releases that stay, or is none.
LEMMA TargetChosen ==
    ASSUME TypeInv, ChooseTarget
    PROVE  PlanInv'
<1>1. PICK t \in HighestSemver(Released \ Drops) : gc' = [gc EXCEPT !.pc = "plan", !.target = t]
    BY DEF ChooseTarget
<1>2. /\ gc'.pc = "plan" /\ gc'.candidates = gc.candidates /\ gc'.target = t
    BY <1>1 DEF TypeInv, GcRecord
<1>3. Released \ Drops \in SUBSET Versions /\ Drops \subseteq Versions /\ Drops' = Drops
    BY <1>2, ListedVersions, RangeOfSeq DEF TypeInv, RowsOK, Released, Drops, GcRecord
<1>4. t \notin Drops
    BY <1>3, HighestOf, VersionsAssumption
<1> QED BY <1>2, <1>3, <1>4 DEF PlanInv, NoTarget, TargetStays, PlanHolds, AllIsBuilt, Planned

\* A feasible plan builds a patch for each client that falls back.
LEMMA PlanMade ==
    ASSUME TypeInv, TypeInv', PlanInv, ComputePlan
    PROVE  PlanInv'
<1>1. gc \in GcRecord /\ gc.pc = "plan" /\ UNCHANGED <<releases, patches>>
    BY DEF TypeInv, ComputePlan
<1>2. CASE ~ Planned' /\ gc'.pc \notin {"plan", "count"}
    BY <1>2 DEF PlanInv, NoTarget, TargetStays, PlanHolds, AllIsBuilt
<1>3. CASE gc' = [gc EXCEPT !.edges = EdgesToBuild, !.pc = "list"]
    <2> DEFINE edges == EdgesToBuild
    <2>1. /\ gc'.target = gc.target /\ gc'.candidates = gc.candidates
          /\ gc'.positions = gc.positions /\ gc'.edges = edges /\ gc'.pc = "list"
        <3> HIDE DEF edges
        <3>1. gc' = [gc EXCEPT !.edges = edges, !.pc = "list"]
            BY <1>3 DEF edges
        <3> QED BY <1>1, <3>1 DEF GcRecord
    <2> HIDE DEF edges
    <2>2. Drops' = Drops /\ Released' = Released
        BY <1>1, <2>1 DEF Drops, Released
    <2>3. TargetStays'
        BY <1>1, <2>1, <2>2 DEF PlanInv, TargetStays
    <2>4. ASSUME gc.target # 0, NEW v \in gc.positions \ ({gc.target} \cup Drops)
          PROVE  ByChain(v)' \/ <<v, gc.target>> \in PatchesMade'
        <3>1. v \in Versions
            BY <1>1, <2>4 DEF GcRecord
        <3>2. CASE FallsBack(v)
            <4>1. <<v, gc.target>> \in edges
                BY <2>4, <3>1, <3>2 DEF edges, EdgesToBuild
            <4> QED BY <2>1, <4>1 DEF PatchesMade
        <3>3. CASE ~ FallsBack(v)
            <4> DEFINE some == Without(Joined(patches), Drops)
                       more == PatchesKept'
            <4>1. some \subseteq more
                BY <1>1, <2>2 DEF PatchesKept, Joined, Without
            <4>2. PICK c \in Chains : /\ Leads(Graph(some), c, v, gc.target)
                                      /\ ChainCost(Graph(some), c) <= Cap
                BY <3>1, <3>3, NoFallBack
            <4>3. some \in SUBSET Edges /\ more \in SUBSET Edges
                BY DEF TypeInv, PatchesOK, GcRecord, PatchesKept, Joined, Without
            <4> HIDE DEF some, more
            <4>4. Leads(Graph(more), c, v, gc.target)
                BY <4>1, <4>2, <4>3, GraphOf DEF Leads
            <4>5. ChainCost(Graph(more), c) = ChainCost(Graph(some), c)
                BY <4>2, <4>3, <4>4, SameCost
            <4>6. ChainCost(Graph(more), c) <= Cap
                BY <4>2, <4>5
            <4>7. \E n \in ChainCosts(Graph(more), v, gc.target) : n <= Cap
                BY <4>4, <4>6 DEF ChainCosts
            <4> QED BY <2>1, <4>7 DEF ByChain, more
        <3> QED BY <3>2, <3>3
    <2>5. PlanHolds'
        BY <2>1, <2>2, <2>4 DEF PlanHolds, Planned
    <2>6. AllIsBuilt'
        BY <2>1 DEF AllIsBuilt
    <2> QED BY <2>1, <2>3, <2>5, <2>6 DEF PlanInv, NoTarget
<1>4. CASE gc' = [gc EXCEPT !.pc = "drop", !.positions = {}, !.target = 0]
    <2>1. gc'.pc = "drop" /\ gc'.target = 0
        BY <1>1, <1>4 DEF GcRecord
    <2> QED BY <1>2, <2>1 DEF Planned
<1>5. CASE gc' = NoGc
    BY <1>2, <1>5 DEF NoGc, Planned
<1> QED BY <1>3, <1>4, <1>5 DEF ComputePlan

\* Before it counts, and until it has a plan, a run has no target.
LEMMA NoPlan ==
    ASSUME TypeInv, PlanInv,
           \/ BeginGc \/ CountNext \/ ListClientSoftwareStates \/ SkipPlan \/ EndGc
           \/ \E e \in Edges : BuildEdgeFails(e)
    PROVE  PlanInv'
<1>1. gc \in GcRecord /\ (gc.pc = "count" => gc.target = 0)
    BY DEF TypeInv, PlanInv, NoTarget
<1>2. \/ gc'.pc \in {"idle", "target"}
      \/ gc'.pc \in {"count", "drop"} /\ gc'.target = 0
    <2>1. NoGc.pc = "idle" /\ NoGc.target = 0
        BY DEF NoGc
    <2>2. CASE BeginGc
        BY <2>2 DEF BeginGc, NoGc
    <2>3. CASE CountNext
        BY <1>1, <2>3 DEF CountNext, GcRecord
    <2>4. CASE ListClientSoftwareStates
        BY <1>1, <2>4 DEF ListClientSoftwareStates, GcRecord
    <2>5. CASE SkipPlan
        BY <1>1, <2>1, <2>5 DEF SkipPlan, GcRecord
    <2> QED BY <2>1, <2>2, <2>3, <2>4, <2>5 DEF EndGc, BuildEdgeFails
<1> QED BY <1>2 DEF PlanInv, NoTarget, TargetStays, PlanHolds, AllIsBuilt, Planned

\* The steps that carry the plan out: what is built stays, but for a patch of its
\* hash, and what is dropped is neither on a chain nor an end of a patch that is
\* needed.
LEMMA PlanCarriedOut ==
    ASSUME TypeInv, TypeInv', PlanInv,
           ListAgain \/ AllBuilt \/ DropNext \/ \E e \in Edges : BuildEdge(e)
    PROVE  PlanInv'
<1>1. gc \in GcRecord /\ PatchesOK
    BY DEF TypeInv
<1>2. CASE ListAgain
    <2>1. /\ gc'.target = gc.target /\ gc'.candidates = gc.candidates
          /\ gc'.positions = gc.positions /\ gc'.edges = gc.edges
          /\ gc'.evicted = gc.evicted
          /\ gc.pc = "list" /\ gc'.pc = "build"
          /\ UNCHANGED <<releases, patches>>
        BY <1>1, <1>2 DEF ListAgain, GcRecord
    <2>2. /\ Released' = Released
          /\ Without(patches \cup gc.evicted, Drops) \subseteq patches' \cup gc'.evicted
          /\ Without(PatchesMade, Drops) \subseteq PatchesMade'
        BY <2>1 DEF Without, PatchesMade, Released
    <2>3. TargetStays' /\ PlanHolds'
        BY <2>1, <2>2, PlanCarriedOn DEF Planned
    <2> QED BY <2>1, <2>3 DEF PlanInv, NoTarget, AllIsBuilt
<1>3. CASE AllBuilt
    <2>1. /\ gc'.target = gc.target /\ gc'.candidates = gc.candidates
          /\ gc'.positions = gc.positions /\ gc'.edges = {} /\ gc.edges = {}
          /\ gc'.evicted = gc.evicted
          /\ gc.pc = "build" /\ gc'.pc = "drop"
          /\ UNCHANGED <<releases, patches>>
        BY <1>1, <1>3 DEF AllBuilt, GcRecord
    <2>2. /\ Released' = Released
          /\ Without(patches \cup gc.evicted, Drops) \subseteq patches' \cup gc'.evicted
          /\ Without(PatchesMade, Drops) \subseteq PatchesMade'
        BY <2>1 DEF Without, PatchesMade, Released
    <2>3. TargetStays' /\ PlanHolds'
        BY <2>1, <2>2, PlanCarriedOn DEF Planned
    <2> QED BY <2>1, <2>3 DEF PlanInv, NoTarget, AllIsBuilt
<1>4. CASE DropNext
    <2>1. PICK d \in Drops : Released' = Released \ {d} /\ patches' = Without(patches, {d})
        BY <1>4, DropRemovesRelease
    <2>2. gc' = [gc EXCEPT !.pruned = @ + 1] /\ gc.pc = "drop"
        BY <1>4 DEF DropNext
    <2>3. /\ gc'.target = gc.target /\ gc'.candidates = gc.candidates
          /\ gc'.positions = gc.positions /\ gc'.edges = gc.edges
          /\ gc'.evicted = gc.evicted /\ gc'.pc = "drop"
        BY <1>1, <2>2 DEF GcRecord
    <2>4. /\ Released \ Drops \subseteq Released'
          /\ Without(patches \cup gc.evicted, Drops) \subseteq patches' \cup gc'.evicted
          /\ Without(PatchesMade, Drops) \subseteq PatchesMade'
        BY <2>1, <2>3 DEF Without, PatchesMade
    <2>5. TargetStays' /\ PlanHolds'
        BY <2>2, <2>3, <2>4, PlanCarriedOn DEF Planned
    <2> QED BY <2>2, <2>3, <2>5 DEF PlanInv, NoTarget, AllIsBuilt, Planned
<1>5. ASSUME NEW e \in Edges, BuildEdge(e)
      PROVE  PlanInv'
    <2>1. /\ gc'.target = gc.target /\ gc'.candidates = gc.candidates
          /\ gc'.positions = gc.positions /\ gc'.edges = gc.edges \ {e}
          /\ gc'.evicted = EvictedSince(e)
          /\ gc.pc = "build" /\ gc'.pc = "build"
          /\ StorePatch(e) /\ UNCHANGED releases
        BY <1>1, <1>5 DEF BuildEdge, GcRecord
    <2>2. Planned => patches' \cup gc'.evicted = patches \cup gc.evicted \cup {e}
        BY <1>1, <2>1, PatchInserted
    <2>3. /\ Released' = Released
          /\ Planned =>
                /\ Without(patches \cup gc.evicted, Drops) \subseteq patches' \cup gc'.evicted
                /\ Without(PatchesMade, Drops) \subseteq PatchesMade'
        BY <2>1, <2>2 DEF Without, PatchesMade, Released
    <2>4. TargetStays' /\ PlanHolds'
        BY <2>1, <2>3, PlanCarriedOn DEF Planned
    <2> QED BY <2>1, <2>4 DEF PlanInv, NoTarget, AllIsBuilt
<1> QED BY <1>2, <1>3, <1>4, <1>5

\* The steps of the others: they take no release, and no patch but for another
\* of its hash.
LEMMA PlanAmongOthers ==
    ASSUME TypeInv, TypeInv', PlanInv,
           \/ UNCHANGED vars \/ Tick
           \/ \E v \in Versions : PublishRelease(v) \/ MarkUncollectable(v)
           \/ \E e \in Edges : \/ ResolveOrBuildUpgradePatch(e)
                                \/ InsertPatch(e) \/ BuildFails(e)
           \/ \E c \in Clients : \/ \E v \in Versions : Install(c, v)
                                 \/ Watch(c)
                                 \/ RecordClientSoftwareState(c)
    PROVE  PlanInv'
<1>1. CASE \E e \in Edges : InsertPatch(e)
    <2>1. PICK e \in Edges : InsertPatch(e)
        BY <1>1
    <2>2. /\ gc'.target = gc.target /\ gc'.candidates = gc.candidates
          /\ gc'.positions = gc.positions /\ gc'.edges = gc.edges
          /\ gc'.evicted = EvictedSince(e) /\ gc'.pc = gc.pc
          /\ StorePatch(e) /\ UNCHANGED releases
        BY <2>1 DEF InsertPatch, TypeInv, GcRecord
    <2>3. Planned => patches' \cup gc'.evicted = patches \cup gc.evicted \cup {e}
        BY <2>2, PatchInserted DEF TypeInv
    <2>4. /\ Released' = Released
          /\ Planned =>
                /\ Without(patches \cup gc.evicted, Drops) \subseteq patches' \cup gc'.evicted
                /\ Without(PatchesMade, Drops) \subseteq PatchesMade'
        BY <2>2, <2>3 DEF Without, PatchesMade, Released
    <2>5. TargetStays' /\ PlanHolds'
        BY <2>2, <2>4, PlanCarriedOn DEF Planned
    <2> QED BY <2>2, <2>5 DEF PlanInv, NoTarget, AllIsBuilt, Planned
<1>2. CASE ~ \E e \in Edges : InsertPatch(e)
    <2>1. /\ gc'.target = gc.target /\ gc'.candidates = gc.candidates
          /\ gc'.positions = gc.positions /\ gc'.edges = gc.edges
          /\ gc'.evicted = gc.evicted /\ gc'.pc = gc.pc
        <3>1. CASE UNCHANGED gc
            BY <3>1
        <3>2. CASE \E c \in Clients : RecordClientSoftwareState(c)
            BY <3>2 DEF RecordClientSoftwareState, TypeInv, GcRecord
        <3> QED BY <1>2, <3>1, <3>2 DEF vars, Tick, PublishRelease, MarkUncollectable,
                                        ResolveOrBuildUpgradePatch, BuildFails, Install, Watch
    <2>2. UNCHANGED patches
        BY <1>2 DEF vars, Tick, PublishRelease, MarkUncollectable, ResolveOrBuildUpgradePatch,
                    BuildFails, Install, Watch, RecordClientSoftwareState
    <2>3. Released \subseteq Released'
        <3>1. CASE UNCHANGED releases
            BY <3>1 DEF Released
        <3>2. CASE \E v \in Versions : PublishRelease(v) \/ MarkUncollectable(v)
            BY <3>2, PublishReleases, PinKeepsReleases
        <3> QED BY <1>2, <3>1, <3>2 DEF vars, Tick, ResolveOrBuildUpgradePatch, BuildFails,
                                        Install, Watch, RecordClientSoftwareState
    <2>4. /\ Without(patches \cup gc.evicted, Drops) \subseteq patches' \cup gc'.evicted
          /\ Without(PatchesMade, Drops) \subseteq PatchesMade'
        BY <2>1, <2>2 DEF Without, PatchesMade
    <2>5. TargetStays' /\ PlanHolds'
        BY <2>1, <2>3, <2>4, PlanCarriedOn DEF Planned
    <2> QED BY <2>1, <2>5 DEF PlanInv, NoTarget, AllIsBuilt, Planned
<1> QED BY <1>1, <1>2

\* A plan that was carried out holds until the last drop, beside publishes,
\* builds and reports: a client found on a release that stays can be brought to
\* the target, by a chain of patches within the cap or by the patch that was
\* built for it, but for patches replaced by others of the same hash.
THEOREM PlanIsKept == Spec => []PlanKeepsChains
<1>1. TypeInv /\ PlanInv /\ [Next]_vars => PlanInv'
    <2> SUFFICES ASSUME TypeInv, PlanInv, [Next]_vars PROVE PlanInv'
        OBVIOUS
    <2>1. TypeInv'
        BY StepType
    <2> QED BY <2>1, TargetChosen, PlanMade, NoPlan, PlanCarriedOut, PlanAmongOthers DEF Next
<1>2. PlanInv => PlanKeepsChains
    BY DEF PlanInv, AllIsBuilt, PlanHolds, PatchesMade, ByChain, PlanKeepsChains
<1> QED BY <1>1, <1>2, Invariant, InitPlan, PTL DEF Spec

==============================================================================
