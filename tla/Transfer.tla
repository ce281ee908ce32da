------------------------------- MODULE Transfer -------------------------------
(***************************************************************************)
(* fs.upload and fs.download of the host (tools/fs.py, upload.py) against  *)
(* fs.write_chunk, fs.read, fs.stat and fs.hash of the daemon              *)
(* (methods/fs.c).  One local file, one file on the target, calls one      *)
(* after the other.                                                        *)
(*                                                                         *)
(* Lengths are counted in units of half a chunk, so that a write or a read *)
(* can be cut short inside one.  Unit i of the local file is i; a unit of  *)
(* other content (an older file, a hole) is 0.  A request the host has     *)
(* given up on can still be executed by the daemon's worker, at any later  *)
(* time, or never.                                                         *)
(***************************************************************************)
EXTENDS Naturals, Sequences, SequencesExt, FiniteSets

CONSTANTS
    Totals,     \* lengths the local file may have
    ChunkSize,  \* units per chunk
    Retries,    \* retries of one chunk
    MaxCalls,   \* bound on calls
    MaxFaults   \* bound on lost, late and failed requests and changes by others

ASSUME TransferAssumption ==
    /\ Totals \subseteq Nat /\ ChunkSize \in Nat \ {0}
    /\ Retries \in Nat /\ MaxCalls \in Nat /\ MaxFaults \in Nat

VARIABLES
    total,     \* length of the local file
    remote,    \* the file on the target, as units
    exists,    \* whether it exists
    copy,      \* the file a download writes
    call,      \* kind and options of the call under way
    at,        \* where it waits
    offset,    \* the loop's offset
    size,      \* remote size a download has found
    attempt,   \* attempts of the current chunk that failed
    net,       \* write requests the daemon has not executed
    calls, faults,
    kin,       \* history: an upload resumes a part of the same file
    stale,     \* history: a write given up on was executed, or still may be,
               \* another call changed the file, or the daemon took it for empty
    result     \* how the last call ended, and whether its file was right

transferVars == <<total, remote, exists, copy, call, at, offset, size, attempt, net,
                  calls, faults, kin, stale, result>>

Calls == [op: {"none", "upload", "download"}, resume: BOOLEAN, verify: BOOLEAN]
NoCall == [op |-> "none", resume |-> FALSE, verify |-> FALSE]
NoResult == [st |-> "none", verified |-> FALSE, exact |-> TRUE]

Local == [i \in 1..total |-> i]
Len2(a, b) == IF a < b THEN a ELSE b

\* The units of the chunk at off.
Chunk(off) == SubSeq(Local, off + 1, Len2(off + ChunkSize, total))

Request == [off: Nat, n: Nat]

TransferTypeOK ==
    /\ total \in Totals
    /\ remote \in Seq(0..total) /\ exists \in BOOLEAN
    /\ copy \in Seq(0..total)
    /\ call \in Calls
    /\ at \in {"idle", "stat", "send", "wait", "read", "hash"}
    /\ offset \in Nat /\ size \in Nat /\ attempt \in 0..Retries
    /\ net \subseteq Request
    /\ calls \in 0..MaxCalls /\ faults \in 0..MaxFaults
    /\ kin \in BOOLEAN /\ stale \in BOOLEAN
    /\ result \in [st: {"none", "ok", "short", "raised"}, verified: BOOLEAN,
                   exact: BOOLEAN]

\* Nothing there, or an older file that is longer than ours.
TransferInit ==
    /\ total \in Totals
    /\ \/ exists = FALSE /\ remote = <<>>
       \/ exists = TRUE /\ remote = [i \in 1..total + 1 |-> 0]
    /\ copy = <<>>
    /\ call = NoCall /\ at = "idle" /\ offset = 0 /\ size = 0 /\ attempt = 0
    /\ net = {} /\ calls = 0 /\ faults = 0
    /\ kin = TRUE /\ stale = FALSE /\ result = NoResult

file == <<total, remote, exists>>

Fault == faults < MaxFaults /\ faults' = faults + 1

----------------------------------------------------------------------------
(* The call's ends.  `exact`: the file written is the file read.           *)

Exact == IF call.op = "upload" THEN exists /\ remote = Local ELSE copy = remote

Ended(st, verified) ==
    /\ result' = [st |-> st, verified |-> verified, exact |-> Exact]
    /\ at' = "idle" /\ call' = NoCall

Raised ==
    /\ Ended("raised", FALSE)
    /\ UNCHANGED <<total, copy, offset, size, calls, kin, stale>>

(* After the last chunk: compare the digests, if asked to.                 *)
Transferred == IF call.verify THEN at' = "hash" /\ UNCHANGED <<call, result>>
                              ELSE Ended("ok", FALSE)

Hash ==
    /\ at = "hash"
    /\ \/ exists /\ Exact /\ Ended("ok", TRUE) /\ UNCHANGED faults
       \/ ~(exists /\ Exact) /\ Ended("raised", FALSE) /\ UNCHANGED faults
       \/ Fault /\ Ended("raised", FALSE)
    /\ UNCHANGED <<file, copy, offset, size, attempt, net, calls, kin, stale>>

----------------------------------------------------------------------------
(* fs_upload and chunked_upload.                                           *)

UploadBegin ==
    /\ at = "idle" /\ calls < MaxCalls /\ calls' = calls + 1
    /\ call' \in {c \in Calls : c.op = "upload"}
    /\ at' = IF call'.resume THEN "stat" ELSE "send"
    /\ offset' = 0 /\ attempt' = 0 /\ kin' = TRUE
    /\ result' = NoResult /\ stale' = (net # {})
    /\ UNCHANGED <<file, copy, size, net, faults>>

(* resume: go on from the size of what is there.  A stat that fails means  *)
(* there is nothing; a file that is long enough is taken for complete,     *)
(* before any digest is compared.                                          *)
UploadStat ==
    /\ at = "stat" /\ call.op = "upload"
    /\ \/ /\ exists /\ Len(remote) >= total /\ Ended("short", FALSE)
          /\ UNCHANGED <<offset, kin, faults>>
       \/ /\ exists /\ Len(remote) < total
          /\ offset' = Len(remote) /\ at' = "send"
          /\ kin' = IsPrefix(remote, Local)
          /\ UNCHANGED <<call, result, faults>>
       \/ /\ ~exists /\ at' = "send" /\ UNCHANGED <<offset, kin, call, result, faults>>
       \/ /\ exists /\ Fault /\ at' = "send" /\ UNCHANGED <<offset, kin, call, result>>
    /\ UNCHANGED <<file, copy, size, attempt, net, calls, stale>>

Send ==
    /\ at = "send"
    /\ \/ /\ offset < total /\ at' = "wait"
          /\ net' = net \cup {[off |-> offset, n |-> calls * 10 + attempt]}
          /\ UNCHANGED <<call, result>>
       \/ offset >= total /\ Transferred /\ UNCHANGED net
    /\ UNCHANGED <<file, copy, offset, size, attempt, calls, faults, kin, stale>>

\* The request the loop waits for.
Awaited(r) == at = "wait" /\ r = [off |-> offset, n |-> calls * 10 + attempt]

\* `except Exception`: once more, or raise.
Retry ==
    IF attempt < Retries
      THEN /\ attempt' = attempt + 1 /\ at' = "send"
           /\ UNCHANGED <<total, copy, call, offset, size, calls, kin, stale, result>>
      ELSE Raised /\ UNCHANGED attempt

Accepted ==
    /\ offset' = offset + Len(Chunk(offset)) /\ attempt' = 0 /\ at' = "send"
    /\ UNCHANGED <<total, copy, call, size, calls, kin, stale, result>>

WrittenAtEnd(off, n) ==
    IF off = 0 THEN SubSeq(Chunk(off), 1, n) ELSE remote \o SubSeq(Chunk(off), 1, n)

(* fs_write_chunk of the daemon with the first n units of the chunk at     *)
(* off.  Offset 0 makes the file anew; past the end of the file the seek   *)
(* fails or leaves a hole.                                                 *)
Written(off, n) ==
    LET data == SubSeq(Chunk(off), 1, n)
        hole == [i \in 1..(IF off > Len(remote) THEN off - Len(remote) ELSE 0) |-> 0]
    IN  IF off = 0 THEN data
        ELSE SubSeq(remote, 1, Len2(off, Len(remote))) \o hole \o data
             \o SubSeq(remote, off + n + 1, Len(remote))

(* The daemon executes a write request.                                    *)
Execute(r) ==
    /\ r \in net /\ net' = net \ {r}
    /\ \/ /\ remote' = Written(r.off, Len(Chunk(r.off))) /\ exists' = TRUE
          /\ IF Awaited(r)
               THEN \/ Accepted /\ UNCHANGED faults
                    \/ Retry /\ Fault           \* the reply is lost
               ELSE /\ stale' = TRUE
                    /\ UNCHANGED <<total, copy, call, at, offset, size, attempt,
                                   calls, faults, kin, result>>
       \/ /\ Awaited(r) /\ Fault                \* volume full, or no seek
          /\ \E n \in 0..Len(Chunk(r.off)) - 1 :
               \/ remote' = Written(r.off, n) /\ exists' = TRUE
               \/ UNCHANGED <<remote, exists>>
          /\ Retry
       \/ /\ Awaited(r) /\ r.off > Len(remote) \* opened, made if need be; no seek
          /\ exists' = TRUE /\ UNCHANGED <<remote, faults>>
          /\ Retry

(* The host's time limit passes, or the connection goes.                   *)
GiveUp(r) ==
    /\ r \in net /\ Awaited(r) /\ Fault
    /\ net' \in {net, net \ {r}}
    /\ Retry
    /\ UNCHANGED <<remote, exists>>

\* The worker goes away with a request nobody waits for.
Forget(r) ==
    /\ r \in net /\ ~Awaited(r)
    /\ net' = net \ {r}
    /\ UNCHANGED <<file, copy, call, at, offset, size, attempt, calls, faults, kin,
                   stale, result>>

----------------------------------------------------------------------------
(* fs_download and chunked_download.                                       *)

DownloadBegin ==
    /\ at = "idle" /\ calls < MaxCalls /\ calls' = calls + 1
    /\ call' \in {c \in Calls : c.op = "download"}
    /\ at' = "stat" /\ attempt' = 0 /\ result' = NoResult
    /\ offset' = IF call'.resume THEN Len(copy) ELSE 0
    /\ kin' = (call'.resume => IsPrefix(copy, remote))
    /\ stale' = (net # {})
    /\ UNCHANGED <<file, copy, size, net, faults>>

DownloadStatAppends ==
    /\ at = "stat" /\ call.op = "download"
    /\ \/ /\ exists /\ size' = Len(remote) /\ at' = "read"
          /\ UNCHANGED <<copy, call, result, faults>>
       \/ /\ ~exists /\ Ended("raised", FALSE) /\ UNCHANGED <<size, copy, faults>>
    /\ UNCHANGED <<file, offset, attempt, net, calls, kin, stale>>

(* The size is looked at once; without resume the copy starts anew.        *)
DownloadStat ==
    /\ at = "stat" /\ call.op = "download"
    /\ \/ /\ exists /\ size' = Len(remote) /\ at' = "read"
          /\ copy' = IF offset > 0 THEN copy ELSE <<>>
          /\ UNCHANGED <<call, result, faults>>
       \/ /\ ~exists /\ Ended("raised", FALSE) /\ UNCHANGED <<size, copy, faults>>
       \/ /\ Fault /\ Ended("raised", FALSE) /\ UNCHANGED <<size, copy>>
    /\ UNCHANGED <<file, offset, attempt, net, calls, kin, stale>>

\* An empty reply ends the loop.
NeverEmpty(payload) == FALSE
EmptyReply(payload) == payload = <<>>

(* One fs.read of the loop.  A daemon that cannot examine the open file    *)
(* takes it for empty and answers an empty slice, like the end of the file.*)
DownloadRead ==
    /\ at = "read"
    /\ \/ /\ offset >= size /\ Transferred
          /\ UNCHANGED <<copy, offset, attempt, faults, stale>>
       \/ LET payload == SubSeq(remote, offset + 1,
                                Len2(Len2(offset + ChunkSize, size), Len(remote)))
          IN  /\ offset < size /\ exists
              /\ IF EmptyReply(payload) THEN Transferred
                                        ELSE UNCHANGED <<at, call, result>>
              /\ copy' = copy \o payload
              /\ offset' = offset + Len(payload) /\ attempt' = 0
              /\ UNCHANGED <<faults, stale>>
       \/ /\ offset < size /\ exists /\ Fault
          /\ Transferred /\ attempt' = 0 /\ stale' = TRUE
          /\ UNCHANGED <<copy, offset>>
       \/ /\ offset < size /\ IF exists THEN Fault ELSE UNCHANGED faults
          /\ IF attempt < Retries
               THEN attempt' = attempt + 1 /\ UNCHANGED <<at, call, result>>
               ELSE Ended("raised", FALSE) /\ UNCHANGED attempt
          /\ UNCHANGED <<copy, offset, stale>>
    /\ UNCHANGED <<file, size, net, calls, kin>>

----------------------------------------------------------------------------
(* Other tool calls on the same file, between any two requests: fs.write   *)
(* makes it anew with n units of something else, fs.delete removes it.     *)
Changed(units, there) ==
    /\ Fault /\ stale' = TRUE
    /\ remote' = units /\ exists' = there
    /\ UNCHANGED <<total, copy, call, at, offset, size, attempt, net, calls, kin, result>>

fs_write(n) == Changed([i \in 1..n |-> 0], TRUE)
fs_delete == exists /\ Changed(<<>>, FALSE)

\* What a client may call.
Called == UploadBegin \/ DownloadBegin
OtherCalled == fs_delete \/ \E n \in Totals : fs_write(n)

Host == Called \/ UploadStat \/ Send \/ Hash \/ DownloadStat \/ DownloadRead

TransferNext == Host \/ OtherCalled \/ \E r \in net : Execute(r) \/ GiveUp(r) \/ Forget(r)

(* Fairness: the host's own steps, and the answer it waits for (an answer, *)
(* an error or its time limit; the limit itself is bounded by MaxFaults    *)
(* here, so the answer stands for it).                                     *)
TransferFairness ==
    /\ WF_transferVars(UploadStat) /\ WF_transferVars(Send) /\ WF_transferVars(Hash)
    /\ WF_transferVars(DownloadStat) /\ WF_transferVars(DownloadRead)
    /\ WF_transferVars(\E r \in net : Awaited(r) /\ Execute(r))

TransferSpec == TransferInit /\ [][TransferNext]_transferVars /\ TransferFairness

----------------------------------------------------------------------------
(* Properties.                                                             *)

(* A call that reports success has made the two files equal, through any   *)
(* failed, repeated and half-done chunks, and when it resumes a part of    *)
(* the same file: always if it has compared the digests; else unless a     *)
(* write that was given up on is executed later (a late first chunk        *)
(* truncates what is there), another call changes the file or the daemon   *)
(* takes it for empty.  Except for the empty file, for which               *)
(* chunked_upload makes no request at all.                                 *)
TransferExact ==
    result.st = "ok" /\ total > 0 /\ (result.verified \/ (kin /\ ~stale))
        => result.exact

(* Wherever an upload is interrupted, what it leaves on the target is a    *)
(* beginning of the local file that holds every accepted chunk: the part   *)
(* resume=True goes on from, knowing its size alone.                       *)
ResumablePart ==
    /\ TransferTypeOK
    /\ call.op = "upload" /\ kin /\ ~stale /\ offset > 0
         => IsPrefix(remote, Local) /\ Len(remote) >= offset

(* Every call ends: retries are bounded, and a file that shrinks under a   *)
(* download does not keep it asking for bytes that are gone.               *)
CallsEnd == at # "idle" ~> at = "idle"

(* What makes the two inductive.  The control of a call ...                *)
ControlInv ==
    /\ at = "idle" <=> call = NoCall
    /\ at \in {"send", "wait"} => call.op = "upload"
    /\ at = "read" => call.op = "download"
    /\ at = "wait" => offset < total
    /\ at # "idle" => result = NoResult

(* ... what an upload has written ...                                      *)
UploadInv ==
    call.op = "upload" /\ kin /\ ~stale /\ offset > 0
        => exists /\ IsPrefix(remote, Local) /\ Len(remote) >= offset

(* ... and what a download has read, of a file that has not changed.       *)
DownloadInv ==
    call.op = "download" /\ kin /\ ~stale =>
        /\ at = "stat" /\ offset > 0 => offset = Len(copy) /\ IsPrefix(copy, remote)
        /\ at = "read" => /\ size = Len(remote)
                          /\ offset = Len(copy) /\ IsPrefix(copy, remote)

TransferInv ==
    TransferTypeOK /\ ControlInv /\ UploadInv /\ DownloadInv /\ TransferExact

=============================================================================
