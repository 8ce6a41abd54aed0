-------------------------- MODULE FileUploadProofs --------------------------
(***************************************************************************)
(* An upload that succeeds has put the whole file into the VM, for every   *)
(* size of the file and of the buffers.                                    *)
(***************************************************************************)
EXTENDS FileUpload, TLAPS

\* The file is whole when all blocks of its contents are read.
FileRead == read \in Nat /\ (read > Blocks => file = "whole")
\* A tar that has ended well has read them, whatever became of the connection.
EndedWhole == Gone /\ code = 0 => file = "whole"
Success == result = "ok" => main = "returned" /\ tar = "exited" /\ file = "whole"

UploadInv == FileRead /\ EndedWhole /\ Success

-----------------------------------------------------------------------------
\* The ways a step of the caller can leave Upload.
LEMMA ReturnInv ==
  ASSUME UploadInv, NEW r \in {"ok", "err"}, Return(r),
         r = "ok" => tar = "exited" /\ code = 0
  PROVE  UploadInv'
BY DEF Return, remote, UploadInv, FileRead, EndedWhole, Success, Gone

\* Every step of the caller keeps the invariant.
LEMMA MainInv ==
  ASSUME UploadInv, MainStep
  PROVE  UploadInv'
<1> USE DEF remote, UploadInv, FileRead, EndedWhole, Success, Gone, Goto
<1>1. CASE Inspect
  <2>1. PICK r \in {"ok", "err"} : Return(r) /\ (r = "ok" => tar = "exited" /\ code = 0)
    BY <1>1 DEF Inspect
  <2> QED
    BY <2>1, ReturnInv
<1>2. CASE Return("err")
  BY <1>2, ReturnInv
<1>3. CASE ExecCreate /\ ~Return("err")
  BY <1>3 DEF ExecCreate
<1>4. CASE ExecAttach /\ ~Return("err")
  BY <1>4 DEF ExecAttach
<1>5. CASE SetDeadline /\ ~Return("err")
  BY <1>5 DEF SetDeadline
<1>6. CASE CopyReads
  BY <1>6 DEF CopyReads
<1>7. CASE CopyWrites
  BY <1>7 DEF CopyWrites
<1>8. CASE CloseStdin \/ WaitAfterError
  BY <1>8 DEF CloseStdin, WaitAfterError
<1>9. CASE CloseWrite /\ ~Return("err")
  BY <1>9 DEF CloseWrite
<1>10. CASE Wait /\ ~Return("err")
  BY <1>10 DEF Wait
<1>11. InspectAfterError => Return("err")
  BY DEF InspectAfterError
<1> QED
  BY <1>1, <1>2, <1>3, <1>4, <1>5, <1>6, <1>7, <1>8, <1>9, <1>10, <1>11 DEF MainStep

\* So do the goroutines, tar, the connection and the clock.
LEMMA OthersInv ==
  ASSUME UploadInv, WriterEnds \/ DrainStep \/ TarStep \/ ConnBreaks \/ Expire
  PROVE  UploadInv'
<1> USE SizeAssumption DEF client, remote, UploadInv, FileRead, EndedWhole, Success, Gone
<1>1. CASE WriterEnds
  BY <1>1 DEF WriterEnds
<1>2. CASE DrainStep
  BY <1>2 DEF DrainStep, Drains
<1>3. CASE TarReads
  <2>1. read' = read + 1 /\ file' = FileAfter(read + 1) /\ tar' = "running"
    BY <1>3 DEF TarReads
  <2>2. read' > Blocks => file' = "whole"
    BY <2>1 DEF FileAfter
  <2> QED
    BY <1>3, <2>1, <2>2 DEF TarReads
<1>4. CASE TarEnds
  <2>1. read > Blocks
    BY <1>4 DEF TarEnds, Total
  <2> QED
    BY <1>4, <2>1 DEF TarEnds
<1>5. CASE TarGivesUp
  BY <1>5 DEF TarGivesUp, GivesUp
<1>6. CASE TarPrints
  BY <1>6 DEF TarPrints
<1>7. CASE TarReaped
  BY <1>7 DEF TarReaped
<1>8. CASE ConnBreaks
  BY <1>8 DEF ConnBreaks
<1>9. CASE Expire
  BY <1>9 DEF Expire
<1> QED
  BY <1>1, <1>2, <1>3, <1>4, <1>5, <1>6, <1>7, <1>8, <1>9 DEF TarStep

\* Upload returns success only when tar has read and written every block of the
\* file: it has waited for tar's exit status, which tells of an archive that was
\* cut or lost where StdCopy and the writes to the connection do not.
THEOREM UploadIsWhole == Spec => []UploadedWhole
<1>1. Init => UploadInv
  BY SizeAssumption DEF Init, UploadInv, FileRead, EndedWhole, Success, Gone
<1>2. UploadInv /\ [Next]_vars => UploadInv'
  <2>1. CASE UNCHANGED vars
    BY <2>1 DEF vars, client, remote, UploadInv, FileRead, EndedWhole, Success, Gone
  <2> QED
    BY <2>1, MainInv, OthersInv DEF Next
<1>3. UploadInv => UploadedWhole
  BY DEF UploadInv, Success, UploadedWhole
<1> QED
  BY <1>1, <1>2, <1>3, PTL DEF Spec
=============================================================================
