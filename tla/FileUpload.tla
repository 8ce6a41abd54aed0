----------------------------- MODULE FileUpload -----------------------------
(***************************************************************************)
(* vm/file_service.go: Upload.  Two goroutines and the caller move a tar    *)
(* archive into "tar -x" in the VM: the writer builds the archive into an  *)
(* io.Pipe, the caller copies the pipe to the exec's connection, and the   *)
(* drain reads what tar prints.  Every buffer in between is bounded.       *)
(*                                                                         *)
(* tar, its exec and the connection are outside the repository.            *)
(***************************************************************************)
EXTENDS Naturals

CONSTANTS
  Blocks,     \* blocks of contents; a header precedes and a trailer follows them
  StdinCap,   \* blocks the connection and the exec's stdin hold
  StderrCap,  \* messages the exec's stderr and the connection hold
  Messages,   \* messages tar prints before it gives up
  Faulty      \* API calls and tar fail, the connection breaks or ends early

ASSUME SizeAssumption ==
  Blocks \in Nat /\ StdinCap \in Nat \ {0} /\ StderrCap \in Nat \ {0} /\ Messages \in Nat
ASSUME FaultAssumption == Faulty \in BOOLEAN

Total == Blocks + 2

VARIABLES
  main,     \* where the caller is
  result,   \* what Upload returned
  reader,   \* the pipe's reader: "open" or "closed"
  writer,   \* the goroutine that builds the archive: "writing" or "done"
  fed,      \* blocks it has written to the pipe
  hand,     \* io.Copy has read a block that it has not sent
  drain,    \* the goroutine that reads stderr
  conn,     \* the hijacked connection
  expired,  \* execTimeout has passed
  stdin, stderr,  \* what the two buffers hold
  tar,      \* the process in the VM
  read,     \* blocks it has read
  left,     \* messages it has still to print
  code,     \* its exit status
  file      \* the file in the VM
client == <<main, result, reader, writer, fed, hand, drain, expired>>
remote == <<stdin, stderr, tar, read, left, code, file>>
vars == <<client, conn, remote>>

TypeOK ==
  /\ main \in {"create", "attach", "deadline", "copy", "closeStdin", "waitErr", "inspectErr",
               "closeWrite", "wait", "inspect", "returned"}
  /\ result \in {"none", "ok", "err"}
  /\ reader \in {"open", "closed"} /\ writer \in {"writing", "done"}
  /\ fed \in 0..Total /\ hand \in BOOLEAN
  /\ drain \in {"none", "reading", "ended", "failed"}
  /\ conn \in {"none", "open", "half", "hungUp", "broken", "closed"}
  /\ expired \in BOOLEAN
  /\ stdin \in 0..StdinCap /\ stderr \in 0..StderrCap
  /\ tar \in {"absent", "running", "complaining", "ended", "exited"}
  /\ read \in 0..Total /\ left \in 0..Messages /\ code \in {0, 2}
  /\ file \in {"old", "partial", "whole"}

Init ==
  /\ main = "create" /\ result = "none"
  /\ reader = "open" /\ writer = "writing" /\ fed = 0 /\ hand = FALSE
  /\ drain = "none" /\ conn = "none" /\ expired = FALSE
  /\ stdin = 0 /\ stderr = 0
  /\ tar = "absent" /\ read = 0 /\ left = 0 /\ code = 0 /\ file = "old"

Alive == conn \in {"open", "half"}
\* The caller has not closed its side, and no write has failed yet.
Writable == conn \in {"open", "hungUp"}
HalfClosed == IF conn = "open" THEN "half" ELSE conn
\* tar has ended before ContainerExecInspect says so.
Gone == tar \in {"ended", "exited"}
\* SetDeadline makes the connection's reads and writes fail with the context.
NoConnDeadline == FALSE
ConnTimedOut == expired

-----------------------------------------------------------------------------
(* The caller.                                                             *)

\* The deferred calls close the connection, cancel the context, and close the
\* pipe's reader, which unblocks the writer.
KeepReader == UNCHANGED reader
CloseReader == reader' = "closed"
Return(r) ==
  /\ main' = "returned" /\ result' = r
  /\ conn' = IF conn = "none" THEN "none" ELSE "closed"
  /\ CloseReader
  /\ UNCHANGED <<writer, fed, hand, drain, expired, remote>>

Goto(pc) == main' = pc /\ UNCHANGED result

ExecCreate ==
  /\ main = "create"
  /\ \/ /\ Goto("attach")
        /\ UNCHANGED <<reader, writer, fed, hand, drain, expired, conn, remote>>
     \/ (Faulty \/ expired) /\ Return("err")

\* Attaching starts tar, also when the reply is lost.
ExecAttach ==
  /\ main = "attach"
  /\ \/ /\ Goto("deadline") /\ conn' = "open" /\ tar' = "running"
        /\ UNCHANGED <<reader, writer, fed, hand, drain, expired,
                       stdin, stderr, read, left, code, file>>
     \/ (Faulty \/ expired) /\ Return("err")
     \/ /\ Faulty
        /\ main' = "returned" /\ result' = "err" /\ CloseReader
        /\ conn' = "closed" /\ tar' = "running"
        /\ UNCHANGED <<writer, fed, hand, drain, expired,
                       stdin, stderr, read, left, code, file>>

\* The drain starts before the first block is sent.
SetDeadline ==
  /\ main = "deadline"
  /\ \/ /\ Goto("copy") /\ drain' = "reading"
        /\ UNCHANGED <<reader, writer, fed, hand, expired, conn, remote>>
     \/ conn = "broken" /\ Return("err")

\* io.Copy reads the pipe: a block from the writer, or its end.
CopyReads ==
  /\ main = "copy" /\ ~hand
  /\ \/ /\ writer = "writing" /\ fed < Total
        /\ fed' = fed + 1 /\ hand' = TRUE
        /\ UNCHANGED <<main, writer>>
     \/ /\ writer = "done"
        /\ main' = "closeWrite"
        /\ UNCHANGED <<fed, hand, writer>>
  /\ UNCHANGED <<result, reader, drain, expired, conn, remote>>

\* ... and writes the connection.  What is sent to a tar that has exited, or
\* after the other end has hung up, is lost, or refused.
CopyWrites ==
  /\ main = "copy" /\ hand
  /\ \/ /\ Writable /\ ~ConnTimedOut
        /\ \/ conn = "open" /\ ~Gone /\ stdin < StdinCap /\ stdin' = stdin + 1
           \/ (conn = "hungUp" \/ Gone) /\ UNCHANGED stdin
        /\ hand' = FALSE /\ UNCHANGED main
     \/ /\ conn # "open" \/ ConnTimedOut \/ Gone
        /\ main' = "closeStdin"
        /\ UNCHANGED <<stdin, hand>>
  /\ UNCHANGED <<result, reader, writer, fed, drain, expired, conn,
                 stderr, tar, read, left, code, file>>

\* After a write error: close both ends of the copy.
CloseStdin ==
  /\ main = "closeStdin"
  /\ Goto("waitErr") /\ CloseReader
  /\ conn' = HalfClosed
  /\ UNCHANGED <<writer, fed, hand, drain, expired, remote>>

WaitAfterError ==
  /\ main = "waitErr" /\ drain \in {"ended", "failed"}
  /\ Goto("inspectErr")
  /\ UNCHANGED <<reader, writer, fed, hand, drain, expired, conn, remote>>

\* The polling ends with tar, with the deadline or with a failed call.
InspectAfterError ==
  /\ main = "inspectErr"
  /\ tar = "exited" \/ expired \/ Faulty
  /\ Return("err")

CloseWrite ==
  /\ main = "closeWrite"
  /\ \/ /\ Writable
        /\ conn' = HalfClosed /\ Goto("wait")
        /\ UNCHANGED <<reader, writer, fed, hand, drain, expired, remote>>
     \/ (conn # "open" \/ Gone) /\ Return("err")

Wait ==
  /\ main = "wait"
  /\ \/ /\ drain = "ended" /\ Goto("inspect")
        /\ UNCHANGED <<reader, writer, fed, hand, drain, expired, conn, remote>>
     \/ drain = "failed" /\ Return("err")

\* The exit status of an exec that runs reads 0.
InspectOnce ==
  main = "inspect" /\ Return(IF tar = "exited" /\ code # 0 THEN "err" ELSE "ok")
Inspect ==
  /\ main = "inspect"
  /\ \/ tar = "exited" /\ ~expired /\ Return(IF code = 0 THEN "ok" ELSE "err")
     \/ (expired \/ Faulty) /\ Return("err")

MainStep ==
  \/ ExecCreate \/ ExecAttach \/ SetDeadline \/ CopyReads \/ CopyWrites
  \/ CloseStdin \/ WaitAfterError \/ InspectAfterError
  \/ CloseWrite \/ Wait \/ Inspect

-----------------------------------------------------------------------------
(* The two goroutines.                                                     *)

\* All blocks are written, or a write fails because the reader is closed.
WriterEnds ==
  /\ writer = "writing" /\ (fed = Total \/ reader = "closed")
  /\ writer' = "done"
  /\ UNCHANGED <<main, result, reader, fed, hand, drain, expired, conn, remote>>

\* StdCopy's error is nil wherever io.EOF comes: after tar has ended, or because
\* the other end has hung up, whose last messages may be lost.
Drains ==
  /\ \/ /\ Alive /\ ~ConnTimedOut /\ stderr > 0
        /\ stderr' = stderr - 1 /\ UNCHANGED drain
     \/ /\ Alive /\ Gone /\ stderr = 0
        /\ drain' = "ended" /\ UNCHANGED stderr
     \/ /\ conn = "hungUp" /\ ~ConnTimedOut
        /\ drain' = "ended" /\ UNCHANGED stderr
     \/ /\ ~Alive \/ ConnTimedOut
        /\ drain' = "failed" /\ UNCHANGED stderr
  /\ UNCHANGED <<main, result, reader, writer, fed, hand, expired, conn,
                 stdin, tar, read, left, code, file>>
DrainAfterCopy == drain = "reading" /\ main # "copy" /\ Drains
DrainStep == drain = "reading" /\ Drains

-----------------------------------------------------------------------------
(* tar in the VM, and what can happen to it and to the connection.         *)

StdinEnds == stdin = 0 /\ conn \in {"half", "hungUp", "broken", "closed"}
GivesUp == tar' = "complaining" /\ left' = Messages
FileAfter(n) == CASE n = 0 -> file [] n \in 1..Blocks -> "partial" [] OTHER -> "whole"

\* The header replaces the file by an empty one, the contents fill it.
TarReads ==
  /\ tar = "running" /\ stdin > 0 /\ read < Total
  /\ stdin' = stdin - 1 /\ read' = read + 1
  /\ file' = FileAfter(read + 1)
  /\ UNCHANGED <<client, conn, stderr, tar, left, code>>

\* The end of the archive; a missing trailer is accepted.
TarEnds ==
  /\ tar = "running"
  /\ read = Total \/ (StdinEnds /\ read > Blocks)
  /\ tar' = "ended"
  /\ UNCHANGED <<client, conn, stdin, stderr, read, left, code, file>>

\* An archive that is cut short or empty ("This does not look like a tar
\* archive"), or an error of its own.
TarGivesUp ==
  /\ tar = "running" /\ ((StdinEnds /\ read <= Blocks) \/ Faulty)
  /\ GivesUp
  /\ UNCHANGED <<client, conn, stdin, stderr, read, code, file>>

\* A full stderr blocks it.
TarPrints ==
  /\ tar = "complaining"
  /\ \/ /\ left > 0 /\ left' = left - 1
        /\ \/ Alive /\ stderr < StderrCap /\ stderr' = stderr + 1
           \/ ~Alive /\ UNCHANGED stderr
        /\ UNCHANGED <<tar, code>>
     \/ /\ left = 0 /\ tar' = "ended" /\ code' = 2
        /\ UNCHANGED <<left, stderr>>
  /\ UNCHANGED <<client, conn, stdin, read, file>>

TarReaped ==
  /\ tar = "ended" /\ tar' = "exited"
  /\ UNCHANGED <<client, conn, stdin, stderr, read, left, code, file>>

TarStep == TarReads \/ TarEnds \/ TarGivesUp \/ TarPrints \/ TarReaped

\* The connection breaks, or the other end (the engine, a proxy) hangs up while
\* tar may run; any part of what is in flight may be lost.
ConnBreaks ==
  /\ Faulty /\ Alive
  /\ conn' \in {"broken", "hungUp"} /\ stdin' \in 0..stdin
  /\ UNCHANGED <<client, stderr, tar, read, left, code, file>>

Expire ==
  /\ ~expired
  /\ expired' = TRUE
  /\ UNCHANGED <<main, result, reader, writer, fed, hand, drain, conn, remote>>

Next == MainStep \/ WriterEnds \/ DrainStep \/ TarStep \/ ConnBreaks \/ Expire

Spec == Init /\ [][Next]_vars

\* Go schedules the three goroutines.
ClientFairness == WF_vars(MainStep) /\ WF_vars(WriterEnds) /\ WF_vars(DrainStep)
FairSpec == Spec /\ ClientFairness

-----------------------------------------------------------------------------
(* Properties.                                                             *)

\* An upload that succeeded has put the whole file there, although StdCopy takes
\* a connection on which the other end hung up for the end of tar, what was sent
\* on it may be lost in part or altogether, and an exec that runs reads status 0.
UploadedWhole == result = "ok" => file = "whole"

Ended == main = "returned" /\ writer = "done" /\ drain \in {"none", "ended", "failed"}

\* If tar goes on reading, printing and exiting while nothing blocks it, Upload
\* returns and leaves no goroutine behind, with no need of the deadline: stderr
\* is drained while stdin is written, so that a tar that complains does not
\* block on one while the caller blocks on the other.
UploadEnds == WF_vars(TarStep) => <>[]Ended

\* If tar hangs, execTimeout ends the upload: its deadline is that of all the
\* reads and writes there are, and whichever way the caller leaves, the pipe and
\* the connection are closed under the goroutines.
UploadTimesOut == WF_vars(Expire) => <>[]Ended

\* A file is replaced as a whole or not at all ("file writing atomically").
Atomic == main = "returned" /\ Gone => file # "partial"
=============================================================================
