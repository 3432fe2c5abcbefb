------------------------------ MODULE Download ------------------------------
(***************************************************************************)
(* The resumable download of one content-addressed file (a blob or a       *)
(* patch): downloadHashed on the client, against the server's              *)
(* serve-file-with-optional-range.                                         *)
(*                                                                         *)
(* Bytes are numbers, 0 is the byte that a torn write leaves behind.  A    *)
(* SHA-256 is modelled by the sequence of bytes that was fed to the        *)
(* hasher: two digests are equal when the sequences are.                   *)
(*                                                                         *)
(* File names and open files are kept apart: two agents that open the same *)
(* .part share its inode, and a rename does not disturb a writer.          *)
(***************************************************************************)
EXTENDS Integers, Sequences, FiniteSetsExt

CONSTANTS
    Agents,     \* agent processes that may download at the same time
    Contents,   \* files to download: a blob or a patch, the bytes that the
                \* signed manifest commits to, and those of a damaged copy
    Window,     \* safeScanWindowBytes
    Inodes,     \* supply of files, reused when neither named nor open
    None,       \* no such file
    MaxFaults   \* bound: faults in one behaviour

ASSUME InodesAssumption == None \notin Inodes /\ \E i, j \in Inodes : i # j
ASSUME ContentsAssumption ==
    \A c \in Contents : /\ c.blob \in Seq(Nat) /\ c.damaged \in Seq(Nat)
                        /\ Len(c.blob) = Len(c.damaged)
ASSUME BoundsAssumption == Window \in Nat \ {0} /\ MaxFaults \in Nat

VARIABLES
    content,    \* the file that the manifest of the day commits to
    part,       \* the inode at <dst>.part, or None
    dst,        \* the inode at <dst>, or None
    file,       \* inode -> content
    run,        \* agent -> the locals of its downloadHashed call
    faults      \* faults so far

vars == <<content, part, dst, file, run, faults>>

\* resumeFrom, the bytes fed to hasher, the rest of the response body, the
\* open file, and where it writes (O_APPEND or an offset).
Call(pc, resume, hashed, body, fd, append, off) ==
    [pc |-> pc, resume |-> resume, hashed |-> hashed, body |-> body,
     fd |-> fd, append |-> append, off |-> off]

Idle == Call("idle", 0, <<>>, <<>>, None, FALSE, 0)

Blob == content.blob

Init ==
    /\ content \in Contents
    /\ part = None
    /\ dst = None
    /\ file = [i \in Inodes |-> <<>>]
    /\ run = [p \in Agents |-> Idle]
    /\ faults = 0

----------------------------------------------------------------------------
(* The resume point *)

\* A faulty variant: only the file's size counts.
SizeAsResumePoint(c) == Len(c)

\* safeResumeSize: one past the last non-zero byte of the scanned window, or
\* the window's start when all of it is zero.
SafeResumeSize(c) ==
    LET start   == IF Len(c) > Window THEN Len(c) - Window ELSE 0
        nonzero == {i \in start + 1 .. Len(c) : c[i] # 0}
    IN  IF nonzero = {} THEN start ELSE Max(nonzero)

\* What goes into the hasher before the transfer.
HashPrefix(c, size) == SubSeq(c, 1, size)

\* openResumeState: truncate the .part to the safe size and hash the rest.
OpenResumeState(p) ==
    /\ run[p].pc = "idle"
    /\ LET c    == IF part = None THEN <<>> ELSE file[part]
           safe == SafeResumeSize(c)
           kept == HashPrefix(c, safe)
       IN  /\ file' = IF part = None THEN file ELSE [file EXCEPT ![part] = kept]
           /\ run' = [run EXCEPT ![p] = Call("request", safe, kept, <<>>, None, FALSE, 0)]
    /\ UNCHANGED <<content, part, dst, faults>>

----------------------------------------------------------------------------
(* The server's answer *)

InUse == {part, dst} \cup {run[p].fd : p \in Agents}

\* open(2) with O_CREAT on the .part: the named inode or a fresh empty one.
Opened == IF part # None THEN part ELSE CHOOSE i \in Inodes : i \notin InUse

\* What the server or a proxy has under the hash: normally the blob; a damaged
\* copy is a fault.
Serves(bytes) ==
    \/ bytes = Blob /\ UNCHANGED faults
    \/ bytes = content.damaged /\ faults < MaxFaults /\ faults' = faults + 1

\* 200: no Range was sent, or a proxy ignored it.  Start again from byte 0.
RespondOK(p, bytes) ==
    /\ run[p].pc = "request"
    /\ Serves(bytes)
    /\ part' = Opened
    /\ file' = [file EXCEPT ![Opened] = <<>>]
    /\ run' = [run EXCEPT ![p] = Call("copy", 0, <<>>, bytes, Opened, FALSE, 0)]
    /\ UNCHANGED <<content, dst>>

\* 206: the bytes from resumeFrom on, appended to the .part.
RespondPartialContent(p, bytes) ==
    /\ run[p].pc = "request"
    /\ run[p].resume > 0
    /\ run[p].resume < Len(bytes)
    /\ Serves(bytes)
    /\ part' = Opened
    /\ file' = IF part = None THEN [file EXCEPT ![Opened] = <<>>] ELSE file
    /\ run' = [run EXCEPT ![p] = Call("copy", @.resume, @.hashed,
                                      SubSeq(bytes, @.resume + 1, Len(bytes)),
                                      Opened, TRUE, @.off)]
    /\ UNCHANGED <<content, dst>>

\* An error return of downloadHashed: the .part is kept for the next attempt.
GiveUp(p) == run' = [run EXCEPT ![p] = Idle]

\* 416: the .part is already as long as the file, parse-range-header finds no
\* such range and the client has no case for the answer.
RespondRangeNotSatisfiable(p) ==
    /\ run[p].pc = "request"
    /\ run[p].resume > 0
    /\ run[p].resume >= Len(Blob)
    /\ GiveUp(p)
    /\ UNCHANGED <<content, part, dst, file, faults>>

----------------------------------------------------------------------------
(* The transfer *)

\* pwrite of one byte: a gap reads as zeros.
WriteAt(c, off, b) ==
    [i \in 1 .. Max({Len(c), off + 1}) |->
        IF i = off + 1 THEN b ELSE IF i <= Len(c) THEN c[i] ELSE 0]

\* copyWithProgress moves a chunk into the file and into the hasher.
Copy(p) ==
    /\ run[p].pc = "copy"
    /\ run[p].body # <<>>
    /\ LET r == run[p]
           b == Head(r.body)
       IN  /\ file' = [file EXCEPT ![r.fd] =
                           IF r.append THEN Append(@, b) ELSE WriteAt(@, r.off, b)]
           /\ run' = [run EXCEPT ![p] = Call("copy", r.resume, Append(r.hashed, b), Tail(r.body),
                                             r.fd, r.append, r.off + 1)]
    /\ UNCHANGED <<content, part, dst, faults>>

\* The file is closed.
Closed(r) == Call("check", r.resume, r.hashed, r.body, None, r.append, r.off)

\* End of the body.
Close(p) ==
    /\ run[p].pc = "copy"
    /\ run[p].body = <<>>
    /\ run' = [run EXCEPT ![p] = Closed(@)]
    /\ UNCHANGED <<content, part, dst, file, faults>>

\* A faulty variant: a file of the right length is good enough.
CheckLengthOnly(p) ==
    /\ run[p].pc = "check"
    /\ IF Len(run[p].hashed) = Len(Blob)
       THEN run' = [run EXCEPT ![p].pc = "rename"] /\ UNCHANGED part
       ELSE GiveUp(p) /\ part' = None
    /\ UNCHANGED <<content, dst, file, faults>>

\* The final integrity check; a mismatch removes the .part.
Check(p) ==
    /\ run[p].pc = "check"
    /\ IF run[p].hashed = Blob
       THEN run' = [run EXCEPT ![p].pc = "rename"] /\ UNCHANGED part
       ELSE GiveUp(p) /\ part' = None
    /\ UNCHANGED <<content, dst, file, faults>>

\* rename(<dst>.part, <dst>); it fails when another agent was faster.
Rename(p) ==
    /\ run[p].pc = "rename"
    /\ IF part # None
       THEN /\ dst' = part
            /\ part' = None
            /\ run' = [run EXCEPT ![p] = Call("done", 0, <<>>, <<>>, None, FALSE, 0)]
       ELSE GiveUp(p) /\ UNCHANGED <<part, dst>>
    /\ UNCHANGED <<content, file, faults>>

----------------------------------------------------------------------------
(* Faults *)

Fault == faults < MaxFaults /\ faults' = faults + 1

\* Any other status or no answer, a connection lost in mid-body, a failed
\* write, a failed rename, or the death of the process.
Fail(p) ==
    /\ run[p].pc \in {"request", "copy", "check", "rename"}
    /\ Fault
    /\ GiveUp(p)
    /\ UNCHANGED <<content, part, dst, file>>

\* The server stops in the middle of a slice and closes the stream all the
\* same (unwind-protect): to the client it is the end of the body.
StreamEndsEarly(p) ==
    /\ run[p].pc = "copy"
    /\ run[p].body # <<>>
    /\ Fault
    /\ run' = [run EXCEPT ![p] = Closed(@)]
    /\ UNCHANGED <<content, part, dst, file>>

\* Between two attempts the version is published anew.  The .part goes by the
\* version and knows nothing of the bytes it was to become.
Republish(c) ==
    /\ dst = None
    /\ \A p \in Agents : run[p].pc = "idle"
    /\ c # content /\ c.kind = content.kind
    /\ Fault
    /\ content' = c
    /\ UNCHANGED <<part, dst, file, run>>

\* A power cut ends every agent.  Nothing was synced: from some point on the
\* .part reads as zeros.
PowerCut ==
    /\ Fault
    /\ part # None
    /\ \E keep \in 0 .. Len(file[part]) :
         file' = [file EXCEPT ![part] =
                    [i \in 1 .. Len(@) |-> IF i <= keep THEN @[i] ELSE 0]]
    /\ run' = [p \in Agents |-> IF run[p].pc = "done" THEN run[p] ELSE Idle]
    /\ UNCHANGED <<content, part, dst>>

----------------------------------------------------------------------------

Step(p) ==
    \/ OpenResumeState(p)
    \/ \E bytes \in {Blob, content.damaged} :
         RespondOK(p, bytes) \/ RespondPartialContent(p, bytes)
    \/ RespondRangeNotSatisfiable(p)
    \/ Copy(p)
    \/ Close(p)
    \/ Check(p)
    \/ Rename(p)

Next ==
    \/ \E p \in Agents : Step(p) \/ Fail(p) \/ StreamEndsEarly(p)
    \/ \E c \in Contents : Republish(c)
    \/ PowerCut

Spec == Init /\ [][Next]_vars

\* Every agent keeps trying (`watch` retries on every tick, and a user runs
\* the command again) and the server keeps answering; faults are finitely many.
FairSpec == Spec /\ \A p \in Agents : WF_vars(Step(p))

----------------------------------------------------------------------------

\* The file that ends up under its final name is the one the manifest commits
\* to, whatever was torn, resumed, cut short or damaged on the way, and whatever
\* earlier content of the version was begun with: "Whatever resume does,
\* the final SHA-256 of the bytes on disk MUST still match" (ADR-0008).  Nor is
\* it still the .part file that a later download would write to.
Integrity ==
    dst # None => file[dst] = Blob /\ dst # part

\* Every agent that keeps retrying gets its file, after any finite number of
\* faults, torn tails and new publications, unless the .part already has the
\* file's length, or more, and a last byte that passes the tail scan.  The
\* .part of a tar archive has it only when it was begun for another content.
DownloadedUnlessComplete ==
    \A p \in Agents :
        \/ <>(run[p].pc = "done")
        \/ <>[](/\ part # None
                /\ Len(file[part]) >= Len(Blob)
                /\ file[part][Len(file[part])] # 0)
=============================================================================
