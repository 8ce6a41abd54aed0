---------------------------- MODULE FileDownload ----------------------------
(***************************************************************************)
(* vm/file_service.go: Download.  "tar -c" in the VM writes an archive and *)
(* its messages to one connection; a goroutine separates the two and puts  *)
(* the archive into an io.Pipe; the caller reads one file out of the pipe. *)
(*                                                                         *)
(* tar, its exec and the connection are outside the repository.            *)
(***************************************************************************)
EXTENDS Naturals, Sequences

CONSTANTS
  Blocks,   \* blocks of contents; a header precedes and a trailer follows them
  ConnCap,  \* frames the connection holds
  Faulty    \* API calls, tar and the connection fail, the agent writes the file meanwhile

ASSUME SizeAssumption == Blocks \in Nat /\ ConnCap \in Nat \ {0}
ASSUME FaultAssumption == Faulty \in BOOLEAN

VARIABLES
  kind,     \* what is at the path
  main,     \* where the caller is
  result,   \* what Download returned
  reader,   \* the pipe's reader: "open" or "closed"
  got,      \* blocks of contents it has read
  cut,      \* io.ReadAll failed
  copier,   \* the goroutine that runs StdCopy
  conn,     \* the hijacked connection
  expired,  \* execTimeout has passed
  frames,   \* what the connection holds, "out" or "err"
  tar,      \* the process in the VM
  sent,     \* blocks it has written
  warned,   \* it has printed its message
  torn,     \* the file changed while it was read
  code      \* its exit status
client == <<main, result, reader, got, cut, expired>>
remote == <<tar, sent, warned, torn, code>>
vars == <<kind, client, copier, conn, frames, remote>>

TypeOK ==
  /\ kind \in {"regular", "other", "missing"}
  /\ main \in {"create", "attach", "deadline", "next", "nextErr", "nextWait", "poll", "type",
               "typeErr", "typeWait", "readAll", "discard", "inspect", "returned"}
  /\ result \in {"none", "ok", "err"} /\ reader \in {"open", "closed"}
  /\ got \in 0..Blocks /\ cut \in BOOLEAN /\ expired \in BOOLEAN
  /\ copier \in {"none", "reading", "writing", "ended", "failed"}
  /\ conn \in {"none", "open", "hungUp", "broken", "closed"}
  /\ frames \in Seq({"out", "err"}) /\ Len(frames) <= ConnCap
  /\ tar \in {"absent", "running", "ended", "exited"}
  /\ sent \in 0..(Blocks + 2) /\ warned \in BOOLEAN /\ torn \in BOOLEAN
  /\ code \in {0, 1, 2, 137}

Init ==
  /\ kind \in {"regular", "other", "missing"}
  /\ main = "create" /\ result = "none" /\ reader = "open" /\ got = 0 /\ cut = FALSE
  /\ copier = "none" /\ conn = "none" /\ expired = FALSE /\ frames = <<>>
  /\ tar = "absent" /\ sent = 0 /\ warned = FALSE /\ torn = FALSE /\ code = 0

\* tar has ended before ContainerExecInspect says so.
Gone == tar \in {"ended", "exited"}
CopyDone == copier \in {"ended", "failed"}
NoConnDeadline == FALSE
ConnTimedOut == expired

-----------------------------------------------------------------------------
(* The caller.                                                             *)

Goto(pc) == main' = pc
Return(r) ==
  /\ main' = "returned" /\ result' = r
  /\ conn' = IF conn = "none" THEN "none" ELSE "closed"
  /\ UNCHANGED <<kind, reader, got, cut, copier, expired, frames, remote>>

ExecCreate ==
  /\ main = "create"
  /\ \/ /\ Goto("attach")
        /\ UNCHANGED <<kind, result, reader, got, cut, expired, copier, conn, frames, remote>>
     \/ (Faulty \/ expired) /\ Return("err")

ExecAttach ==
  /\ main = "attach"
  /\ \/ /\ Goto("deadline") /\ conn' = "open" /\ tar' = "running"
        /\ UNCHANGED <<kind, result, reader, got, cut, expired, copier, frames,
                       sent, warned, torn, code>>
     \/ (Faulty \/ expired) /\ Return("err")

SetDeadline ==
  /\ main = "deadline"
  /\ \/ /\ Goto("next") /\ copier' = "reading"
        /\ UNCHANGED <<kind, result, reader, got, cut, expired, conn, frames, remote>>
     \/ conn = "broken" /\ Return("err")

\* A block of the archive passes the pipe: the goroutine's write and the
\* caller's read return together.
TakeBlock == copier = "writing" /\ copier' = "reading"
Stay == UNCHANGED <<kind, result, expired, conn, frames, remote>>

\* tar.Reader.Next: a header, or the end of the archive or of the pipe.
ReadHeader ==
  /\ main = "next"
  /\ \/ TakeBlock /\ Goto(IF kind = "missing" THEN "nextErr" ELSE "type")
     \/ CopyDone /\ UNCHANGED copier /\ Goto("nextErr")
  /\ UNCHANGED <<reader, got, cut>> /\ Stay

\* The reader is closed first: the goroutine may hold a block.
KeepReader == UNCHANGED reader
CloseReader == reader' = "closed"

NextFails ==
  /\ \/ main = "nextErr" /\ CloseReader /\ Goto("nextWait")
     \/ main = "nextWait" /\ CopyDone /\ Goto("poll") /\ UNCHANGED reader
  /\ UNCHANGED <<got, cut, copier>> /\ Stay

Poll ==
  /\ main = "poll" /\ (tar = "exited" \/ expired \/ Faulty)
  /\ Return("err")

CheckType ==
  /\ main = "type"
  /\ Goto(IF kind = "regular" THEN IF Blocks = 0 THEN "discard" ELSE "readAll" ELSE "typeErr")
  /\ UNCHANGED <<reader, got, cut, copier>> /\ Stay

TypeFails ==
  \/ /\ main = "typeErr" /\ CloseReader /\ Goto("typeWait")
     /\ UNCHANGED <<got, cut, copier>> /\ Stay
  \/ main = "typeWait" /\ CopyDone /\ Return("err")

ReadAll ==
  /\ main = "readAll"
  /\ \/ /\ TakeBlock /\ got' = got + 1
        /\ Goto(IF got + 1 = Blocks THEN "discard" ELSE "readAll") /\ UNCHANGED cut
     \/ /\ CopyDone /\ Goto("discard") /\ cut' = TRUE
        /\ UNCHANGED <<got, copier>>
  /\ UNCHANGED reader /\ Stay

Discard ==
  /\ main = "discard"
  /\ \/ /\ TakeBlock /\ UNCHANGED <<main, reader, got, cut>> /\ Stay
     \/ (copier = "failed" \/ (copier = "ended" /\ cut)) /\ Return("err")
     \/ /\ copier = "ended" /\ ~cut /\ Goto("inspect")
        /\ UNCHANGED <<reader, got, cut, copier>> /\ Stay

\* The exit status of an exec that runs reads 0.
InspectOnce ==
  main = "inspect" /\ Return(IF tar = "exited" /\ code # 0 THEN "err" ELSE "ok")
Inspect ==
  /\ main = "inspect"
  /\ \/ tar = "exited" /\ ~expired /\ Return(IF code = 0 THEN "ok" ELSE "err")
     \/ (expired \/ Faulty) /\ Return("err")

MainStep ==
  \/ ExecCreate \/ ExecAttach \/ SetDeadline \/ ReadHeader \/ NextFails \/ Poll
  \/ CheckType \/ TypeFails \/ ReadAll \/ Discard \/ Inspect

-----------------------------------------------------------------------------
(* The goroutine: StdCopy.                                                 *)

\* Its error is nil when the stream ends, be it that tar has ended or that the
\* other end has hung up, between two frames or within one.
CopierReads ==
  /\ copier = "reading"
  /\ \/ /\ conn \in {"open", "hungUp"} /\ ~ConnTimedOut /\ frames # <<>>
        /\ copier' = IF Head(frames) = "out" THEN "writing" ELSE "reading"
        /\ frames' = Tail(frames)
     \/ /\ (conn = "open" /\ Gone) \/ (conn = "hungUp" /\ ~ConnTimedOut)
        /\ frames = <<>> /\ copier' = "ended" /\ UNCHANGED frames
     \/ /\ conn # "open" \/ ConnTimedOut
        /\ copier' = "failed" /\ UNCHANGED frames
  /\ UNCHANGED <<kind, client, conn, remote>>

\* A write to a pipe nobody reads any more.
CopierRefused ==
  /\ copier = "writing" /\ reader = "closed"
  /\ copier' = "failed"
  /\ UNCHANGED <<kind, client, conn, frames, remote>>

CopierStep == CopierReads \/ CopierRefused

-----------------------------------------------------------------------------
(* tar in the VM, and what can happen to it and to the connection.         *)

\* An archive with no entry is its end alone.
Length == CASE kind = "regular" -> Blocks + 2 [] kind = "other" -> 2 [] OTHER -> 1
Warns == kind = "missing" \/ torn

\* A full connection blocks it; one that is gone does not.
Emit(frame) ==
  \/ conn = "open" /\ Len(frames) < ConnCap /\ frames' = Append(frames, frame)
  \/ conn # "open" /\ UNCHANGED frames

TarWrites ==
  /\ tar = "running" /\ sent < Length
  /\ Emit("out") /\ sent' = sent + 1
  /\ UNCHANGED <<kind, client, copier, conn, tar, warned, torn, code>>

\* "file changed as we read it"
TarTears ==
  /\ Faulty /\ tar = "running" /\ kind = "regular" /\ sent \in 1..Blocks
  /\ torn' = TRUE
  /\ UNCHANGED <<kind, client, copier, conn, frames, tar, sent, warned, code>>

TarWarns ==
  /\ tar = "running" /\ Warns /\ ~warned
  /\ Emit("err") /\ warned' = TRUE
  /\ UNCHANGED <<kind, client, copier, conn, tar, sent, torn, code>>

TarEnds ==
  /\ tar = "running" /\ sent = Length /\ (Warns => warned)
  /\ tar' = "ended"
  /\ code' = IF kind = "missing" THEN 2 ELSE IF torn THEN 1 ELSE 0
  /\ UNCHANGED <<kind, client, copier, conn, frames, sent, warned, torn>>

TarReaped ==
  /\ tar = "ended" /\ tar' = "exited"
  /\ UNCHANGED <<kind, client, copier, conn, frames, sent, warned, torn, code>>

\* The VM is killed under it.
TarDies ==
  /\ Faulty /\ tar = "running"
  /\ tar' = "ended" /\ code' = 137
  /\ UNCHANGED <<kind, client, copier, conn, frames, sent, warned, torn>>

TarStep == TarWrites \/ TarWarns \/ TarEnds \/ TarReaped

\* The connection breaks, or the other end (the engine, a proxy) hangs up while
\* tar may run, and the rest of what is in flight is lost.
ConnBreaks ==
  /\ Faulty /\ conn = "open"
  /\ \/ conn' = "broken" /\ UNCHANGED frames
     \/ conn' = "hungUp" /\ \E n \in 0..Len(frames) : frames' = SubSeq(frames, 1, n)
  /\ UNCHANGED <<kind, client, copier, remote>>

Expire ==
  /\ ~expired /\ expired' = TRUE
  /\ UNCHANGED <<kind, main, result, reader, got, cut, copier, conn, frames, remote>>

Next == MainStep \/ CopierStep \/ TarStep \/ TarTears \/ TarDies \/ ConnBreaks \/ Expire

Spec == Init /\ [][Next]_vars

ClientFairness == WF_vars(MainStep) /\ WF_vars(CopierStep)
FairSpec == Spec /\ ClientFairness

-----------------------------------------------------------------------------
(* Properties.                                                             *)

\* What Download returns is all of a regular file that did not change while it
\* was read, although StdCopy takes a stream that was cut anywhere, because tar
\* was killed or the other end hung up, for one that ended, and an exec that still
\* runs has exit status 0.
DownloadedWhole == result = "ok" => kind = "regular" /\ got = Blocks /\ ~torn

Ended == main = "returned" /\ copier \in {"none", "ended", "failed"}

\* If tar goes on writing and exits, Download returns and the goroutine ends: on
\* every way out that leaves part of the archive unread the pipe is closed before
\* the goroutine is waited for.
DownloadEnds == WF_vars(TarStep) => <>[]Ended

\* If tar hangs, execTimeout ends the download and the goroutine.
DownloadTimesOut == WF_vars(Expire) => <>[]Ended
=============================================================================
