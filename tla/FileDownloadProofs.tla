------------------------- MODULE FileDownloadProofs -------------------------
(***************************************************************************)
(* A download that succeeds has read the whole file, for every size of the *)
(* file and of the connection.                                             *)
(***************************************************************************)
EXTENDS FileDownload, TLAPS

\* Nothing of the contents is read before the header.
Unread ==
  main \in {"create", "attach", "deadline", "next", "type"} => got = 0 /\ ~cut
\* The caller reads on only in a regular file, and gets past the contents
\* with all of them or with an error that it keeps.
ContentsRead ==
  /\ main \in {"readAll", "discard", "inspect"} => kind = "regular"
  /\ main = "readAll" => ~cut
  /\ main \in {"discard", "inspect"} /\ ~cut => got = Blocks
  /\ main = "inspect" => ~cut
\* A tar that ended well has not warned, and can do so no more.
EndedWell == Gone /\ code = 0 => ~torn
Whole == result = "ok" => main = "returned" /\ Gone /\ code = 0 /\ DownloadedWhole

DownloadInv == Unread /\ ContentsRead /\ EndedWell /\ Whole

-----------------------------------------------------------------------------
\* The ways a step of the caller can leave Download.
LEMMA ReturnInv ==
  ASSUME DownloadInv, NEW r \in {"ok", "err"}, Return(r),
         r = "ok" => main = "inspect" /\ Gone /\ code = 0
  PROVE  DownloadInv'
BY DEF Return, remote, DownloadInv, Unread, ContentsRead, EndedWell, Whole, DownloadedWhole, Gone

\* Every step of the caller keeps the invariant.
LEMMA MainInv ==
  ASSUME DownloadInv, MainStep
  PROVE  DownloadInv'
<1> USE SizeAssumption DEF remote, DownloadInv, Unread, ContentsRead, EndedWell, Whole,
                           DownloadedWhole, Gone, Goto, Stay, TakeBlock
<1>1. CASE \E r \in {"ok", "err"} : Return(r) /\ (r = "ok" => Inspect)
  <2>1. PICK r \in {"ok", "err"} : Return(r) /\ (r = "ok" => Inspect)
    BY <1>1
  <2>2. r = "ok" => main = "inspect" /\ tar = "exited" /\ code = 0
    BY <2>1 DEF Inspect, Return
  <2> QED
    BY <2>1, <2>2, ReturnInv
<1>2. CASE ExecCreate /\ ~Return("err")
  BY <1>2 DEF ExecCreate
<1>3. CASE ExecAttach /\ ~Return("err")
  BY <1>3 DEF ExecAttach
<1>4. CASE SetDeadline /\ ~Return("err")
  BY <1>4 DEF SetDeadline
<1>5. CASE ReadHeader
  BY <1>5 DEF ReadHeader
<1>6. CASE NextFails
  BY <1>6 DEF NextFails
<1>7. CASE CheckType
  BY <1>7 DEF CheckType
<1>8. CASE TypeFails /\ ~Return("err")
  BY <1>8 DEF TypeFails
<1>9. CASE ReadAll
  BY <1>9 DEF ReadAll
<1>10. CASE Discard /\ ~Return("err")
  BY <1>10 DEF Discard
<1>11. Inspect => \E r \in {"ok", "err"} : Return(r) /\ (r = "ok" => Inspect)
  BY DEF Inspect
<1>12. Poll => Return("err")
  BY DEF Poll
<1> QED
  BY <1>1, <1>2, <1>3, <1>4, <1>5, <1>6, <1>7, <1>8, <1>9, <1>10, <1>11, <1>12 DEF MainStep

\* So do the goroutine, tar, the connection and the clock.
LEMMA OthersInv ==
  ASSUME DownloadInv,
         CopierStep \/ TarStep \/ TarTears \/ TarDies \/ ConnBreaks \/ Expire
  PROVE  DownloadInv'
<1> USE DEF client, remote, DownloadInv, Unread, ContentsRead, EndedWell, Whole,
            DownloadedWhole, Gone
<1>1. CASE CopierStep
  BY <1>1 DEF CopierStep, CopierReads, CopierRefused
<1>2. CASE TarWrites \/ TarWarns
  BY <1>2 DEF TarWrites, TarWarns
<1>3. CASE TarEnds
  BY <1>3 DEF TarEnds
<1>4. CASE TarReaped
  BY <1>4 DEF TarReaped
<1>5. CASE TarTears
  BY <1>5 DEF TarTears
<1>6. CASE TarDies
  BY <1>6 DEF TarDies
<1>7. CASE ConnBreaks \/ Expire
  BY <1>7 DEF ConnBreaks, Expire
<1> QED
  BY <1>1, <1>2, <1>3, <1>4, <1>5, <1>6, <1>7 DEF TarStep

\* Download returns success only with all of a regular file that did not change
\* while it was read: it has counted the contents that the header announced, and
\* has waited for the exit status of tar, which is not 0 if the file changed.
THEOREM DownloadIsWhole == Spec => []DownloadedWhole
<1>1. Init => DownloadInv
  BY DEF Init, DownloadInv, Unread, ContentsRead, EndedWell, Whole, DownloadedWhole, Gone
<1>2. DownloadInv /\ [Next]_vars => DownloadInv'
  <2>1. CASE UNCHANGED vars
    BY <2>1 DEF vars, client, remote, DownloadInv, Unread, ContentsRead, EndedWell, Whole,
                DownloadedWhole, Gone
  <2> QED
    BY <2>1, MainInv, OthersInv DEF Next
<1>3. DownloadInv => DownloadedWhole
  BY DEF DownloadInv, Whole, DownloadedWhole
<1> QED
  BY <1>1, <1>2, <1>3, PTL DEF Spec
=============================================================================
