--------------------------- MODULE DownloadProofs ---------------------------
(* Proofs about Download, for files of any length, any scan window and any  *)
(* number of faults.                                                        *)
EXTENDS Download, DataLemmas, SequenceTheorems, TLAPS

\* One agent at a time works on a home directory; two would share a .part.
OneAgent == \A p, q \in Agents : p = q

Bytes == Seq(Nat)
PCs == {"idle", "request", "copy", "check", "rename", "done"}
CallType == [pc : PCs, resume : Nat, hashed : Bytes, body : Bytes,
             fd : Inodes \cup {None}, append : BOOLEAN, off : Nat]

TypeInv ==
    /\ content \in Contents
    /\ part \in Inodes \cup {None}
    /\ dst \in Inodes \cup {None}
    /\ file \in [Inodes -> Bytes]
    /\ run \in [Agents -> CallType]

\* The hasher has seen exactly the bytes of the .part: what was kept of it is
\* hashed first, and every chunk goes into both.
HashedIsOnDisk ==
    \A p \in Agents :
        /\ run[p].pc = "request" =>
             IF part = None THEN run[p].resume = 0 ELSE file[part] = run[p].hashed
        /\ run[p].pc \in {"copy", "check", "rename"} =>
             part # None /\ file[part] = run[p].hashed
        /\ run[p].pc = "rename" => run[p].hashed = Blob

\* Only a transfer has a file open: the .part, at its end.
OpenIsPart ==
    \A p \in Agents :
        IF run[p].pc = "copy"
        THEN run[p].fd = part /\ (run[p].append \/ run[p].off = Len(run[p].hashed))
        ELSE run[p].fd = None

IndInv == TypeInv /\ HashedIsOnDisk /\ OpenIsPart /\ Integrity

----------------------------------------------------------------------------
(* The resume point *)

\* A non-empty set of numbers up to n has a greatest one.
LEMMA MaxExists ==
    ASSUME NEW n \in Nat, NEW S \in SUBSET (0 .. n), S # {}
    PROVE  Max(S) \in S /\ \A y \in S : Max(S) >= y
<1> DEFINE T == {n - x : x \in S}
<1>0. PICK s \in S : TRUE
  OBVIOUS
<1>1a. n - s \in T
  BY <1>0
<1>1b. T \subseteq Nat
  OBVIOUS
<1>1. T \subseteq Nat /\ T # {}
  BY <1>1a, <1>1b
<1>2. PICK t \in T : \A y \in T : t <= y
  BY <1>1, LeastNumber
<1>3. t \in Nat
  BY <1>1, <1>2
<1>4. PICK x \in S : t = n - x
  BY <1>2
<1>5. ASSUME NEW y \in S PROVE x >= y
  <2>1. n - y \in T /\ x \in Nat /\ y \in Nat
    OBVIOUS
  <2>2. t <= n - y
    BY <1>2, <2>1
  <2>3. QED
    BY <1>4, <2>1, <2>2
<1>6. QED
  BY <1>5 DEF Max

\* safeResumeSize keeps a prefix of the .part, and drops no byte but zeros, and
\* none before the scanned window.
THEOREM SafeResumePoint ==
    ASSUME NEW c \in Bytes
    PROVE  /\ SafeResumeSize(c) \in 0 .. Len(c)
           /\ \A i \in SafeResumeSize(c) + 1 .. Len(c) : c[i] = 0
           /\ SafeResumeSize(c) + Window >= Len(c)
<1> DEFINE start == IF Len(c) > Window THEN Len(c) - Window ELSE 0
           nonzero == {i \in start + 1 .. Len(c) : c[i] # 0}
<1>1. Len(c) \in Nat /\ Window \in Nat /\ start \in 0 .. Len(c) /\ start + Window >= Len(c)
  BY BoundsAssumption DEF Bytes
<1> HIDE DEF start
<1>2. SafeResumeSize(c) = IF nonzero = {} THEN start ELSE Max(nonzero)
  BY DEF SafeResumeSize, start
<1>3. CASE nonzero = {}
  BY <1>1, <1>2, <1>3
<1>4. CASE nonzero # {}
  <2>1. nonzero \in SUBSET (0 .. Len(c))
    BY <1>1
  <2>2. Max(nonzero) \in nonzero /\ \A y \in nonzero : Max(nonzero) >= y
    BY <1>1, <1>4, <2>1, MaxExists
  <2> DEFINE m == Max(nonzero)
  <2>3. m \in start + 1 .. Len(c)
    BY <2>2
  <2>4. ASSUME NEW i \in m + 1 .. Len(c) PROVE c[i] = 0
    <3>1. i \in start + 1 .. Len(c) /\ ~ (m >= i)
      <4> HIDE DEF m
      <4> QED BY <1>1, <2>3
    <3>2. i \notin nonzero
      BY <2>2, <3>1
    <3>3. QED
      BY <3>1, <3>2
  <2>5. SafeResumeSize(c) = m
    BY <1>2, <1>4
  <2> HIDE DEF m
  <2>6. QED
    BY <1>1, <2>3, <2>4, <2>5
<1>5. QED
  BY <1>3, <1>4

\* The prefix a resume keeps is well formed, and empty when nothing was there.
LEMMA KeptPrefix ==
    ASSUME NEW c \in Bytes
    PROVE  /\ SafeResumeSize(c) \in Nat
           /\ HashPrefix(c, SafeResumeSize(c)) \in Bytes
           /\ Len(c) = 0 => SafeResumeSize(c) = 0
<1>1. SafeResumeSize(c) \in 0 .. Len(c) /\ Len(c) \in Nat
  BY SafeResumePoint DEF Bytes
<1> DEFINE n == SafeResumeSize(c)
<1> HIDE DEF n
<1>2. n \in 0 .. Len(c) => SubSeq(c, 1, n) \in Bytes
  BY <1>1 DEF Bytes
<1>3. QED
  BY <1>1, <1>2 DEF n, HashPrefix

\* A write at the end of a file appends to it.
LEMMA WriteAtEnd ==
    ASSUME NEW c \in Bytes, NEW b \in Nat
    PROVE  WriteAt(c, Len(c), b) = Append(c, b)
<1>1. Len(c) \in Nat
  BY DEF Bytes
<1>2. Max({Len(c), Len(c) + 1}) = Len(c) + 1
  BY <1>1 DEF Max
<1> DEFINE n == Len(c)
           w == [i \in 1 .. n + 1 |-> IF i = n + 1 THEN b ELSE IF i <= n THEN c[i] ELSE 0]
<1>3. WriteAt(c, n, b) = w
  BY <1>2 DEF WriteAt
<1>4. w \in Seq(Nat) /\ Len(w) = n + 1 /\ \A i \in 1 .. n + 1 : w[i] = IF i <= n THEN c[i] ELSE b
  BY <1>1 DEF Bytes
<1>5. Append(c, b) \in Seq(Nat) /\ Len(Append(c, b)) = n + 1
      /\ \A i \in 1 .. n + 1 : Append(c, b)[i] = IF i <= n THEN c[i] ELSE b
  BY <1>1 DEF Bytes
<1> HIDE DEF w
<1>6. w = Append(c, b)
  BY <1>1, <1>4, <1>5, SeqEqual
<1>7. QED
  BY <1>3, <1>6

----------------------------------------------------------------------------
(* The calls *)

\* The empty file.
LEMMA EmptyBytes == <<>> \in Bytes /\ Len(<<>>) = 0
  BY DEF Bytes

\* What a server holds for a release: its blob, and the damage to it.
LEMMA ContentTypes ==
    ASSUME NEW c \in Contents
    PROVE  c.blob \in Bytes /\ c.damaged \in Bytes
  BY ContentsAssumption DEF Bytes

\* An agent between two calls.
LEMMA IdleFields == Idle \in CallType /\ Idle.pc = "idle" /\ Idle.fd = None
<1>1. "idle" \in PCs
  BY DEF PCs
<1>2. QED
  BY <1>1, EmptyBytes DEF Idle, Call, CallType

\* What the type invariant says of one call.
LEMMA RunFields ==
    ASSUME TypeInv, NEW p \in Agents
    PROVE  /\ run[p] \in CallType
           /\ run[p].pc \in PCs /\ run[p].resume \in Nat /\ run[p].hashed \in Bytes
           /\ run[p].body \in Bytes /\ run[p].fd \in Inodes \cup {None}
           /\ run[p].append \in BOOLEAN /\ run[p].off \in Nat
<1>1. run[p] \in CallType
  BY DEF TypeInv
<1>2. QED
  BY <1>1 DEF CallType

\* The only agent's call is replaced.
LEMMA OnlyCall ==
    ASSUME OneAgent, TypeInv, NEW p \in Agents, NEW e \in CallType,
           run' = [run EXCEPT ![p] = e]
    PROVE  /\ run' \in [Agents -> CallType]
           /\ \A q \in Agents : run'[q] = e
<1>1. run \in [Agents -> CallType]
  BY DEF TypeInv
<1>2. \A q \in Agents : q = p
  BY DEF OneAgent
<1>3. QED
  BY <1>1, <1>2

\* With the only agent between its calls, only the types and the finished file
\* are left to look at.
LEMMA BetweenCalls ==
    ASSUME \A q \in Agents : run'[q].pc \in {"idle", "done"} /\ run'[q].fd = None
    PROVE  HashedIsOnDisk' /\ OpenIsPart'
  BY DEF HashedIsOnDisk, OpenIsPart

----------------------------------------------------------------------------
(* The steps of downloadHashed *)

\* Giving up returns the agent to idle with no file open.
LEMMA GiveUpIsIdle ==
    ASSUME OneAgent, TypeInv, NEW p \in Agents, GiveUp(p)
    PROVE  run' \in [Agents -> CallType] /\ HashedIsOnDisk' /\ OpenIsPart'
<1>1. run' = [run EXCEPT ![p] = Idle]
  BY DEF GiveUp
<1>2. run' \in [Agents -> CallType] /\ \A q \in Agents : run'[q] = Idle
  BY <1>1, IdleFields, OnlyCall
<1>3. QED
  BY <1>2, IdleFields, BetweenCalls

\* Opening the part file hashes exactly the prefix it keeps.
LEMMA OpenResumeStateInv ==
    ASSUME OneAgent, IndInv, NEW p \in Agents, OpenResumeState(p)
    PROVE  IndInv'
<1> USE DEF IndInv
<1> DEFINE c    == IF part = None THEN <<>> ELSE file[part]
           safe == SafeResumeSize(c)
           kept == HashPrefix(c, safe)
           e    == Call("request", safe, kept, <<>>, None, FALSE, 0)
<1>1. /\ file' = IF part = None THEN file ELSE [file EXCEPT ![part] = kept]
      /\ run' = [run EXCEPT ![p] = e]
      /\ UNCHANGED <<content, part, dst, faults>>
  BY DEF OpenResumeState
<1>2. c \in Bytes
  BY EmptyBytes DEF TypeInv
<1>3. safe \in Nat /\ kept \in Bytes /\ (part = None => safe = 0)
  BY <1>2, KeptPrefix, EmptyBytes
<1> HIDE DEF c, safe, kept
<1>4. e \in CallType /\ e.pc = "request" /\ e.resume = safe /\ e.hashed = kept /\ e.fd = None
  <2>1. "request" \in PCs /\ None \in Inodes \cup {None} /\ FALSE \in BOOLEAN /\ 0 \in Nat
    BY DEF PCs
  <2>2. QED
    BY <1>3, <2>1, EmptyBytes DEF Call, CallType
<1> HIDE DEF e
<1>5. run' \in [Agents -> CallType] /\ \A q \in Agents : run'[q] = e
  BY <1>1, <1>4, OnlyCall
<1>6. TypeInv'
  BY <1>1, <1>3, <1>5 DEF TypeInv
<1>7. HashedIsOnDisk'
  <2>1. part # None => file'[part] = kept
    BY <1>1 DEF TypeInv
  <2>2. QED
    BY <1>1, <1>3, <1>4, <1>5, <2>1 DEF HashedIsOnDisk
<1>8. OpenIsPart'
  BY <1>4, <1>5 DEF OpenIsPart
<1>9. Integrity'
  <2>1. dst # None => file'[dst] = file[dst]
    BY <1>1 DEF TypeInv, Integrity
  <2>2. QED
    BY <1>1, <2>1 DEF Integrity, Blob
<1>10. QED
  BY <1>6, <1>7, <1>8, <1>9

\* The file opened is the .part or a new one, and never the finished file.
LEMMA OpenedFile ==
    ASSUME OneAgent, IndInv, NEW p \in Agents, run[p].pc = "request"
    PROVE  Opened \in Inodes /\ Opened # None /\ Opened # dst /\ (part # None => Opened = part)
<1> USE DEF IndInv
<1>1. CASE part # None
  <2>1. Opened = part
    BY <1>1 DEF Opened
  <2>2. dst # part
    BY <1>1 DEF Integrity
  <2>3. QED
    BY <1>1, <2>1, <2>2 DEF TypeInv
<1>2. CASE part = None
  <2>1. \A q \in Agents : run[q].fd = None
    BY DEF OpenIsPart, OneAgent
  <2>2. InUse \subseteq {None, dst}
    BY <1>2, <2>1 DEF InUse
  <2>3. \E i \in Inodes : i \notin InUse
    BY <2>2, InodesAssumption
  <2>4. Opened \in Inodes /\ Opened \notin InUse
    BY <1>2, <2>3 DEF Opened
  <2>5. dst \in InUse
    BY DEF InUse
  <2>6. QED
    BY <1>2, <2>4, <2>5, InodesAssumption
<1>3. QED
  BY <1>1, <1>2

\* Appending what a response brings extends the file and the hash alike.
LEMMA RespondOKInv ==
    ASSUME OneAgent, IndInv, NEW p \in Agents, NEW bytes \in Bytes, RespondOK(p, bytes)
    PROVE  IndInv'
<1> USE DEF IndInv
<1> DEFINE o == Opened
           e == Call("copy", 0, <<>>, bytes, o, FALSE, 0)
<1>1. /\ part' = o
      /\ file' = [file EXCEPT ![o] = <<>>]
      /\ run' = [run EXCEPT ![p] = e]
      /\ UNCHANGED <<content, dst>>
      /\ run[p].pc = "request"
  BY DEF RespondOK
<1>2. o \in Inodes /\ o # None /\ o # dst
  BY <1>1, OpenedFile
<1> HIDE DEF o
<1>3. /\ e \in CallType /\ e.pc = "copy" /\ e.hashed = <<>> /\ e.fd = o /\ e.off = 0
  <2>1. "copy" \in PCs /\ o \in Inodes \cup {None} /\ FALSE \in BOOLEAN /\ 0 \in Nat
    BY <1>2 DEF PCs
  <2>2. QED
    BY <2>1, EmptyBytes DEF Call, CallType
<1> HIDE DEF e
<1>4. run' \in [Agents -> CallType] /\ \A q \in Agents : run'[q] = e
  BY <1>1, <1>3, OnlyCall
<1>5. TypeInv'
  BY <1>1, <1>2, <1>4, EmptyBytes DEF TypeInv
<1>6. file'[o] = <<>>
  BY <1>1, <1>2 DEF TypeInv
<1>7. HashedIsOnDisk'
  BY <1>1, <1>2, <1>3, <1>4, <1>6 DEF HashedIsOnDisk
<1>8. OpenIsPart'
  BY <1>1, <1>3, <1>4, EmptyBytes DEF OpenIsPart
<1>9. Integrity'
  <2>1. dst # None => file'[dst] = file[dst]
    BY <1>1, <1>2 DEF TypeInv, Integrity
  <2>2. QED
    BY <1>1, <1>2, <2>1 DEF Integrity, Blob
<1>10. QED
  BY <1>5, <1>7, <1>8, <1>9

\* Without a .part nothing was kept and no Range was sent: the answer is never
\* a part of the file.
LEMMA RespondPartialContentInv ==
    ASSUME OneAgent, IndInv, NEW p \in Agents, NEW bytes \in Bytes,
           RespondPartialContent(p, bytes)
    PROVE  IndInv'
<1> USE DEF IndInv
<1> DEFINE r == run[p]
           rest == SubSeq(bytes, r.resume + 1, Len(bytes))
           e == Call("copy", r.resume, r.hashed, rest, Opened, TRUE, r.off)
<1>1. /\ part' = Opened
      /\ file' = IF part = None THEN [file EXCEPT ![Opened] = <<>>] ELSE file
      /\ run' = [run EXCEPT ![p] = e]
      /\ UNCHANGED <<content, dst>>
      /\ r.pc = "request" /\ r.resume > 0 /\ r.resume < Len(bytes)
  <2>1. run' = [run EXCEPT ![p] = Call("copy", @.resume, @.hashed,
                                      SubSeq(bytes, @.resume + 1, Len(bytes)),
                                      Opened, TRUE, @.off)]
    BY DEF RespondPartialContent
  <2>2. run' = [run EXCEPT ![p] = e]
    BY <2>1 DEF TypeInv
  <2>3. QED
    BY <2>2 DEF RespondPartialContent
<1>2. r.resume \in Nat /\ r.hashed \in Bytes /\ r.off \in Nat
  BY RunFields
<1>3. part # None /\ file[part] = r.hashed
  BY <1>1, <1>2 DEF HashedIsOnDisk
<1>4. Opened = part /\ part \in Inodes /\ part # dst
  BY <1>1, <1>3, OpenedFile
<1>5. rest \in Bytes
  <2> HIDE DEF r
  <2> QED BY <1>1, <1>2 DEF Bytes
<1> HIDE DEF rest
<1>6. e \in CallType /\ e.pc = "copy" /\ e.hashed = r.hashed /\ e.fd = part /\ e.append = TRUE
  <2>1. "copy" \in PCs /\ Opened \in Inodes \cup {None} /\ TRUE \in BOOLEAN
    BY <1>4 DEF PCs
  <2>2. QED
    BY <1>2, <1>4, <1>5, <2>1 DEF Call, CallType
<1> HIDE DEF r, e
<1>7. run' \in [Agents -> CallType] /\ \A q \in Agents : run'[q] = e
  BY <1>1, <1>6, OnlyCall
<1>8. UNCHANGED <<content, part, dst, file>>
  BY <1>1, <1>3, <1>4
<1>9. TypeInv'
  BY <1>7, <1>8 DEF TypeInv
<1>10. HashedIsOnDisk'
  BY <1>3, <1>6, <1>7, <1>8 DEF HashedIsOnDisk
<1>11. OpenIsPart'
  BY <1>6, <1>7, <1>8 DEF OpenIsPart
<1>12. Integrity'
  BY <1>8 DEF Integrity, Blob
<1>13. QED
  BY <1>9, <1>10, <1>11, <1>12

\* Every chunk goes to the end of the .part and into the hasher.
LEMMA CopyInv ==
    ASSUME OneAgent, IndInv, NEW p \in Agents, Copy(p)
    PROVE  IndInv'
<1> USE DEF IndInv
<1> DEFINE r == run[p]
           b == Head(r.body)
           t == Tail(r.body)
           h == Append(r.hashed, b)
           e == Call("copy", r.resume, h, t, r.fd, r.append, r.off + 1)
<1>1. /\ r.pc = "copy" /\ r.body # <<>>
      /\ file' = [file EXCEPT ![r.fd] =
                    IF r.append THEN Append(@, b) ELSE WriteAt(@, r.off, b)]
      /\ run' = [run EXCEPT ![p] = e]
      /\ UNCHANGED <<content, part, dst, faults>>
  BY DEF Copy
<1>2. /\ r.resume \in Nat /\ r.hashed \in Bytes /\ r.body \in Bytes
      /\ r.fd \in Inodes \cup {None} /\ r.append \in BOOLEAN /\ r.off \in Nat
  BY RunFields
<1>3. b \in Nat /\ t \in Bytes
  <2> HIDE DEF r
  <2> QED BY <1>1, <1>2 DEF Bytes
<1>4. h \in Bytes /\ Len(h) = Len(r.hashed) + 1
  <2> HIDE DEF r, b
  <2> QED BY <1>2, <1>3 DEF Bytes
<1>5. /\ part # None /\ part \in Inodes /\ file[part] = r.hashed /\ r.fd = part
      /\ r.append \/ r.off = Len(r.hashed)
  BY <1>1 DEF HashedIsOnDisk, OpenIsPart, TypeInv
<1> HIDE DEF b, t
<1>6. file' = [file EXCEPT ![part] = h]
  <2>1. CASE r.append
    BY <1>1, <1>5, <2>1
  <2>2. CASE ~ r.append
    <3>1. r.off = Len(r.hashed)
      BY <1>5, <2>2
    <3>2. WriteAt(r.hashed, r.off, b) = h
      BY <1>2, <1>3, <3>1, WriteAtEnd
    <3>3. file' = [file EXCEPT ![part] = WriteAt(r.hashed, r.off, b)]
      BY <1>1, <1>5, <2>2
    <3>4. QED
      BY <3>2, <3>3
  <2>3. QED
    BY <2>1, <2>2
<1> HIDE DEF h
<1>7. /\ e \in CallType /\ e.pc = "copy" /\ e.hashed = h /\ e.fd = part
      /\ e.append = r.append /\ e.off = r.off + 1
  <2>1. "copy" \in PCs /\ r.off + 1 \in Nat
    BY <1>2 DEF PCs
  <2> HIDE DEF r
  <2>2. QED
    BY <1>2, <1>3, <1>4, <1>5, <2>1 DEF Call, CallType
<1>8. e.append \/ e.off = Len(e.hashed)
  BY <1>4, <1>5, <1>7
<1> HIDE DEF r, e
<1>9. run' \in [Agents -> CallType] /\ \A q \in Agents : run'[q] = e
  BY <1>1, <1>7, OnlyCall
<1>10. TypeInv'
  BY <1>1, <1>4, <1>6, <1>9 DEF TypeInv
<1>11. file'[part] = h /\ (dst # None => dst # part /\ file'[dst] = file[dst])
  BY <1>5, <1>6 DEF TypeInv, Integrity
<1>12. HashedIsOnDisk'
  BY <1>1, <1>5, <1>7, <1>9, <1>11 DEF HashedIsOnDisk
<1>13. OpenIsPart'
  BY <1>1, <1>7, <1>8, <1>9 DEF OpenIsPart
<1>14. Integrity'
  BY <1>1, <1>11 DEF Integrity, Blob
<1>15. QED
  BY <1>10, <1>12, <1>13, <1>14

\* The end of the body, where it belongs or too early: the file is closed.
LEMMA ClosedInv ==
    ASSUME OneAgent, IndInv, NEW p \in Agents, run[p].pc = "copy",
           run' = [run EXCEPT ![p] = Closed(@)],
           UNCHANGED <<content, part, dst, file>>
    PROVE  IndInv'
<1> USE DEF IndInv
<1> DEFINE r == run[p]
           e == Closed(r)
<1>1. run' = [run EXCEPT ![p] = e]
  BY DEF TypeInv
<1>2. /\ r.resume \in Nat /\ r.hashed \in Bytes /\ r.body \in Bytes
      /\ r.append \in BOOLEAN /\ r.off \in Nat
  BY RunFields
<1>3. e \in CallType /\ e.pc = "check" /\ e.hashed = r.hashed /\ e.fd = None
  <2>1. "check" \in PCs
    BY DEF PCs
  <2> HIDE DEF r
  <2>2. QED
    BY <1>2, <2>1 DEF Closed, Call, CallType
<1>4. part # None /\ file[part] = r.hashed
  BY DEF HashedIsOnDisk
<1> HIDE DEF r, e
<1>5. run' \in [Agents -> CallType] /\ \A q \in Agents : run'[q] = e
  BY <1>1, <1>3, OnlyCall
<1>6. TypeInv'
  BY <1>5 DEF TypeInv
<1>7. HashedIsOnDisk'
  BY <1>3, <1>4, <1>5 DEF HashedIsOnDisk
<1>8. OpenIsPart'
  BY <1>3, <1>5 DEF OpenIsPart
<1>9. Integrity'
  BY DEF Integrity, Blob
<1>10. QED
  BY <1>6, <1>7, <1>8, <1>9

\* Giving up leaves the files alone, or removes the .part.
LEMMA GiveUpInv ==
    ASSUME OneAgent, IndInv, NEW p \in Agents, GiveUp(p),
           part' \in {part, None}, UNCHANGED <<content, dst, file>>
    PROVE  IndInv'
<1> USE DEF IndInv
<1>1. run' \in [Agents -> CallType] /\ HashedIsOnDisk' /\ OpenIsPart'
  BY GiveUpIsIdle
<1>2. TypeInv'
  BY <1>1 DEF TypeInv
<1>3. Integrity'
  BY DEF Integrity, Blob
<1>4. QED
  BY <1>1, <1>2, <1>3

\* Only bytes with the hash asked for go on to the rename.
LEMMA CheckInv ==
    ASSUME OneAgent, IndInv, NEW p \in Agents, Check(p)
    PROVE  IndInv'
<1> USE DEF IndInv
<1>1. CASE run[p].hashed # Blob
  <2>1. GiveUp(p) /\ part' = None /\ UNCHANGED <<content, dst, file>>
    BY <1>1 DEF Check
  <2>2. QED
    BY <2>1, GiveUpInv
<1>2. CASE run[p].hashed = Blob
  <2>1. /\ run' = [run EXCEPT ![p].pc = "rename"]
        /\ UNCHANGED <<content, part, dst, file, faults>>
        /\ run[p].pc = "check"
    BY <1>2 DEF Check
  <2>2. /\ run' \in [Agents -> CallType]
        /\ run'[p].pc = "rename" /\ run'[p].hashed = run[p].hashed
        /\ run'[p].fd = run[p].fd
    BY <2>1 DEF TypeInv, CallType, PCs
  <2>3. part # None /\ file[part] = run[p].hashed /\ run[p].fd = None
    BY <2>1 DEF HashedIsOnDisk, OpenIsPart
  <2>4. \A q \in Agents : q = p
    BY DEF OneAgent
  <2>5. TypeInv'
    BY <2>1, <2>2 DEF TypeInv
  <2>6. HashedIsOnDisk'
    BY <1>2, <2>1, <2>2, <2>3, <2>4 DEF HashedIsOnDisk, Blob
  <2>7. OpenIsPart'
    BY <2>2, <2>3, <2>4 DEF OpenIsPart
  <2>8. Integrity'
    BY <2>1 DEF Integrity, Blob
  <2>9. QED
    BY <2>5, <2>6, <2>7, <2>8
<1>3. QED
  BY <1>1, <1>2

\* The file renamed is the one whose bytes were hashed.
LEMMA RenameInv ==
    ASSUME OneAgent, IndInv, NEW p \in Agents, Rename(p)
    PROVE  IndInv'
<1> USE DEF IndInv
<1> DEFINE e == Call("done", 0, <<>>, <<>>, None, FALSE, 0)
<1>1. run[p].pc = "rename"
  BY DEF Rename
<1>2. part # None /\ file[part] = run[p].hashed /\ run[p].hashed = Blob
  BY <1>1 DEF HashedIsOnDisk
<1>3. /\ dst' = part /\ part' = None
      /\ run' = [run EXCEPT ![p] = e]
      /\ UNCHANGED <<content, file, faults>>
  BY <1>2 DEF Rename
<1>4. e \in CallType /\ e.pc = "done" /\ e.fd = None
  <2>1. "done" \in PCs
    BY DEF PCs
  <2>2. QED
    BY <2>1, EmptyBytes DEF Call, CallType
<1> HIDE DEF e
<1>5. run' \in [Agents -> CallType] /\ \A q \in Agents : run'[q] = e
  BY <1>3, <1>4, OnlyCall
<1>6. TypeInv'
  BY <1>3, <1>5 DEF TypeInv
<1>7. HashedIsOnDisk' /\ OpenIsPart'
  BY <1>4, <1>5, BetweenCalls
<1>8. Integrity'
  BY <1>2, <1>3 DEF Integrity, Blob
<1>9. QED
  BY <1>6, <1>7, <1>8

----------------------------------------------------------------------------
(* Faults *)

\* New contents on the server touch no file of the client.
LEMMA RepublishInv ==
    ASSUME OneAgent, IndInv, NEW c \in Contents, Republish(c)
    PROVE  IndInv'
<1> USE DEF IndInv
<1>1. /\ content' = c /\ dst = None
      /\ UNCHANGED <<part, dst, file, run>>
      /\ \A q \in Agents : run[q].pc = "idle"
  BY DEF Republish
<1>2. TypeInv'
  BY <1>1 DEF TypeInv
<1>3. HashedIsOnDisk'
  BY <1>1 DEF HashedIsOnDisk
<1>4. OpenIsPart'
  BY <1>1 DEF OpenIsPart
<1>5. Integrity'
  BY <1>1 DEF Integrity
<1>6. QED
  BY <1>2, <1>3, <1>4, <1>5

\* A power cut ends the calls, so none vouches for the bytes it took.
LEMMA PowerCutInv ==
    ASSUME OneAgent, IndInv, PowerCut
    PROVE  IndInv'
<1> USE DEF IndInv
<1>1. PICK keep \in 0 .. Len(file[part]) :
        file' = [file EXCEPT ![part] =
                   [i \in 1 .. Len(@) |-> IF i <= keep THEN @[i] ELSE 0]]
  BY DEF PowerCut
<1>2. /\ part # None
      /\ run' = [p \in Agents |-> IF run[p].pc = "done" THEN run[p] ELSE Idle]
      /\ UNCHANGED <<content, part, dst>>
  BY DEF PowerCut
<1>3. file[part] \in Bytes /\ part \in Inodes
  BY <1>2 DEF TypeInv
<1> DEFINE f == file[part]
           torn == [i \in 1 .. Len(f) |-> IF i <= keep THEN f[i] ELSE 0]
<1>4. torn \in Bytes
  <2>1. f \in Seq(Nat)
    BY <1>3 DEF Bytes
  <2> HIDE DEF f
  <2>2. QED
    BY <2>1 DEF Bytes
<1>5. file' = [file EXCEPT ![part] = torn]
  BY <1>1, <1>3 DEF TypeInv
<1> HIDE DEF torn
<1>6. run' \in [Agents -> CallType]
  BY <1>2, IdleFields DEF TypeInv
<1>7. TypeInv'
  BY <1>2, <1>4, <1>5, <1>6 DEF TypeInv
<1>8. \A q \in Agents : run'[q].pc \in {"idle", "done"} /\ run'[q].fd = None
  BY <1>2, IdleFields DEF OpenIsPart
<1>9. HashedIsOnDisk' /\ OpenIsPart'
  BY <1>8, BetweenCalls
<1>10. Integrity'
  <2>1. dst # None => dst # part /\ file'[dst] = file[dst]
    BY <1>5 DEF TypeInv, Integrity
  <2>2. QED
    BY <1>2, <2>1 DEF Integrity, Blob
<1>11. QED
  BY <1>7, <1>9, <1>10

----------------------------------------------------------------------------

\* Every step of an agent keeps the invariant: one case for each action.
LEMMA StepInv ==
    ASSUME OneAgent, IndInv, NEW p \in Agents, Step(p)
    PROVE  IndInv'
<1>1. ASSUME NEW bytes \in {Blob, content.damaged} PROVE bytes \in Bytes
  BY <1>1, ContentTypes DEF IndInv, TypeInv, Blob
<1>2. CASE OpenResumeState(p)
  BY <1>2, OpenResumeStateInv
<1>3. ASSUME NEW bytes \in {Blob, content.damaged}, RespondOK(p, bytes)
      PROVE  IndInv'
  BY <1>1, <1>3, RespondOKInv
<1>4. ASSUME NEW bytes \in {Blob, content.damaged}, RespondPartialContent(p, bytes)
      PROVE  IndInv'
  BY <1>1, <1>4, RespondPartialContentInv
<1>5. CASE RespondRangeNotSatisfiable(p)
  BY <1>5, GiveUpInv DEF RespondRangeNotSatisfiable
<1>6. CASE Copy(p)
  BY <1>6, CopyInv
<1>7. CASE Close(p)
  BY <1>7, ClosedInv DEF Close
<1>8. CASE Check(p)
  BY <1>8, CheckInv
<1>9. CASE Rename(p)
  BY <1>9, RenameInv
<1>10. QED
  BY <1>2, <1>3, <1>4, <1>5, <1>6, <1>7, <1>8, <1>9 DEF Step

\* The inductive invariant of a single agent's downloads, over any number of
\* attempts, faults and new publications.
THEOREM DownloadInvariance ==
    ASSUME OneAgent
    PROVE  Spec => []IndInv
<1>1. Init => IndInv
  <2> SUFFICES ASSUME Init PROVE IndInv
    OBVIOUS
  <2> USE DEF Init
  <2>1. \A q \in Agents : run[q] = Idle
    OBVIOUS
  <2>2. TypeInv
    BY EmptyBytes, IdleFields DEF TypeInv
  <2>3. HashedIsOnDisk /\ OpenIsPart
    BY <2>1, IdleFields DEF HashedIsOnDisk, OpenIsPart
  <2>4. Integrity
    BY DEF Integrity
  <2>5. QED
    BY <2>2, <2>3, <2>4 DEF IndInv
<1>2. IndInv /\ [Next]_vars => IndInv'
  <2> SUFFICES ASSUME IndInv, [Next]_vars PROVE IndInv'
    OBVIOUS
  <2>1. ASSUME NEW p \in Agents, Step(p) PROVE IndInv'
    BY <2>1, StepInv
  <2>2. ASSUME NEW p \in Agents, Fail(p) PROVE IndInv'
    BY <2>2, GiveUpInv DEF Fail
  <2>3. ASSUME NEW p \in Agents, StreamEndsEarly(p) PROVE IndInv'
    BY <2>3, ClosedInv DEF StreamEndsEarly
  <2>4. ASSUME NEW c \in Contents, Republish(c) PROVE IndInv'
    BY <2>4, RepublishInv
  <2>5. CASE PowerCut
    BY <2>5, PowerCutInv
  <2>6. CASE UNCHANGED vars
    BY <2>6 DEF IndInv, TypeInv, HashedIsOnDisk, OpenIsPart, Integrity, Blob, vars
  <2>7. QED
    BY <2>1, <2>2, <2>3, <2>4, <2>5, <2>6 DEF Next
<1>3. QED
  BY <1>1, <1>2, PTL DEF Spec

\* Whatever was torn, resumed, cut short, damaged or published anew on the way,
\* the file that downloadHashed renames into place is the one that the manifest
\* commits to: the hash is of the bytes on disk, because the prefix that was
\* kept is hashed first and every chunk goes to the end of the .part.
THEOREM DownloadsAreIntact ==
    ASSUME OneAgent
    PROVE  Spec => []Integrity
<1>1. IndInv => Integrity
  BY DEF IndInv
<1>2. QED
  BY <1>1, DownloadInvariance, PTL

\* A resumed transfer goes on where the hasher stands: the bytes of the .part
\* and the bytes hashed never differ while a call is under way.
THEOREM HasherFollowsTheFile ==
    ASSUME OneAgent
    PROVE  Spec => []HashedIsOnDisk
<1>1. IndInv => HashedIsOnDisk
  BY DEF IndInv
<1>2. QED
  BY <1>1, DownloadInvariance, PTL
=============================================================================
