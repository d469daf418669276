--------------------------- MODULE QualcommProofs ---------------------------
(***************************************************************************)
(* Proofs about Qualcomm for any stream, any sizes and any number of files *)
(* and failing reads.                                                      *)
(***************************************************************************)
EXTENDS Qualcomm, FiniteSetTheorems, TLAPS

\* The directory holds the newest files without a gap; the diag thread reads
\* the oldest of them; past the look at the listing another one exists, so the
\* library no longer writes to this one; past the second read it is consumed.
DirInv ==
  /\ files \in Seq(Nat \X Nat)
  /\ \E k \in 1..Len(files)+1 : dir = k..Len(files)
  /\ rpc \in Reading =>
       rfile \in dir /\ (\A f \in dir : rfile <= f) /\ rpos \in Int
  /\ rpc \in {"confirm", "delete"} => rfile < Len(files)
  /\ rpc = "delete" => rpos = files[rfile][2]

\* A directory of more than one file has a file after its oldest.
LEMMA AnotherFile ==
  ASSUME NEW n \in Nat, NEW k \in 1..n+1, Cardinality(k..n) > 1
  PROVE  k < n
<1>1. Cardinality(k..n) = IF k > n THEN 0 ELSE n - k + 1
  BY FS_Interval
<1>2. QED BY <1>1

LEMMA MinOfInterval ==
  ASSUME NEW n \in Nat, NEW k \in 1..n
  PROVE  Min(k..n) \in k..n /\ \A f \in k..n : Min(k..n) <= f
<1>1. k \in k..n /\ \A f \in k..n : k <= f  OBVIOUS
<1>2. QED BY <1>1 DEF Min

LEMMA InitDir == Init => DirInv
<1> SUFFICES ASSUME Init PROVE DirInv
  OBVIOUS
<1>1. files = <<>> /\ dir = {} /\ rpc = "init"  BY DEF Init
<1>2. files \in Seq(Nat \X Nat) /\ Len(files) = 0  BY <1>1
<1>3. dir = 1..Len(files)  BY <1>1, <1>2
<1>4. QED BY <1>1, <1>2, <1>3 DEF DirInv, Reading

\* The library only touches the newest file, or adds one after it.
LEMMA LibraryDir ==
  ASSUME DirInv, LibraryWrites \/ LibraryRotates
  PROVE  DirInv'
<1> DEFINE n == Len(files)
<1>1. n \in Nat /\ files \in Seq(Nat \X Nat)  BY DEF DirInv
<1>2. PICK k \in 1..n+1 : dir = k..n  BY DEF DirInv
<1>3. UNCHANGED <<rpc, rfile, rpos>>
  BY DEF LibraryWrites, LibraryRotates, decodeVars, stopVars
<1>4. CASE LibraryWrites
  <2>1. files # <<>> /\ files' = [files EXCEPT ![n][2] = @ + 1] /\ dir' = dir
    BY <1>4 DEF LibraryWrites
  <2>2. n \in 1..n  BY <1>1, <2>1
  <2>3. /\ files' \in Seq(Nat \X Nat) /\ Len(files') = n
        /\ \A f \in 1..n : f # n => files'[f] = files[f]
    <3>1. files[n] \in Nat \X Nat  BY <1>1, <2>2
    <3>2. [files[n] EXCEPT ![2] = @ + 1] \in Nat \X Nat  BY <3>1
    <3>3. files' = [files EXCEPT ![n] = [files[n] EXCEPT ![2] = @ + 1]]  BY <2>1
    <3>4. QED BY <1>1, <2>2, <3>2, <3>3
  <2>4. rpc = "delete" => files'[rfile] = files[rfile]
    <3>1. rpc = "delete" => rfile \in dir /\ rfile < n  BY DEF DirInv, Reading
    <3>2. rpc = "delete" => rfile \in 1..n /\ rfile # n  BY <1>1, <1>2, <3>1
    <3>3. QED BY <2>3, <3>2
  <2>5. \E j \in 1..Len(files')+1 : dir' = j..Len(files')
    BY <1>2, <2>1, <2>3
  <2>6. rpc = "delete" => rpos' = files'[rfile'][2]
    BY <1>3, <2>4 DEF DirInv
  <2>7. QED BY <1>3, <2>1, <2>3, <2>5, <2>6 DEF DirInv, Reading
<1>5. CASE LibraryRotates
  <2>1. files' = Append(files, <<Written, Written>>) /\ dir' = dir \union {n + 1}
    BY <1>5 DEF LibraryRotates
  <2>2. Written \in Nat
    <3>1. CASE files = <<>>  BY <3>1 DEF Written
    <3>2. CASE files # <<>>
      <4>1. n \in 1..n  BY <1>1, <3>2
      <4>2. files[n] \in Nat \X Nat  BY <1>1, <4>1
      <4>3. QED BY <3>2, <4>2 DEF Written, Last
    <3>3. QED BY <3>1, <3>2
  <2>3. /\ files' \in Seq(Nat \X Nat) /\ Len(files') = n + 1
        /\ \A f \in 1..n : files'[f] = files[f]
    BY <1>1, <2>1, <2>2
  <2>4. dir' = k..n+1  BY <1>1, <1>2, <2>1
  <2>5. k \in 1..Len(files')+1 /\ \E j \in 1..Len(files')+1 : dir' = j..Len(files')
    BY <1>1, <2>3, <2>4
  <2>6. rpc \in Reading => rfile \in dir' /\ (\A f \in dir' : rfile <= f) /\ rpos \in Int
    BY <1>1, <1>2, <2>1 DEF DirInv
  <2>7. rpc = "delete" => files'[rfile] = files[rfile]
    <3>1. rpc = "delete" => rfile \in dir /\ rfile < n  BY DEF DirInv, Reading
    <3>2. rpc = "delete" => rfile \in 1..n /\ rfile # n  BY <1>1, <1>2, <3>1
    <3>3. QED BY <2>3, <3>2
  <2>8. rpc = "delete" => rpos' = files'[rfile'][2]
    BY <1>3, <2>7 DEF DirInv
  <2>9. rpc \in {"confirm", "delete"} => rfile < Len(files')
    BY <1>1, <1>2, <2>3 DEF DirInv, Reading
  <2>10. QED BY <1>3, <2>3, <2>5, <2>6, <2>8, <2>9 DEF DirInv
<1>6. QED BY <1>4, <1>5

\* A chunk ends at an integer and leads back to the read or to the exception.
LEMMA ChunkDir ==
  ASSUME DirInv, rpc \in {"read", "confirm"}, UNCHANGED <<files, dir, rfile>>,
         NEW hi \in ChunkEnds, ReadChunk(hi)
  PROVE  DirInv'
<1>1. rpos' \in Int  BY DEF ReadChunk, ChunkEnds, DirInv, Reading
<1>2. rpc' \in {"read", "crashed"}  BY DEF ReadChunk
<1>3. QED BY <1>1, <1>2 DEF DirInv, Reading

LEMMA DiagThreadDir ==
  ASSUME DirInv, OldestFirst, DiagThread \/ ReadFails
  PROVE  DirInv'
<1> DEFINE n == Len(files)
<1>1. n \in Nat /\ files \in Seq(Nat \X Nat)  BY DEF DirInv
<1>2. PICK k \in 1..n+1 : dir = k..n  BY DEF DirInv
<1>3. CASE InitDiag \/ StartDispatchPacket \/ ReadFails
  BY <1>3 DEF InitDiag, StartDispatchPacket, ReadFails, libVars, DirInv, Reading
<1>4. CASE ProcessDiagFiles
  <2>1. CASE rpc' = "exited"
    BY <1>4, <2>1 DEF ProcessDiagFiles, DirInv, Reading
  <2>2. CASE /\ dir # {} /\ rfile' \in {Min(dir)}
             /\ rpos' = files[rfile'][1] /\ rpc' = "read"
    <3>1. k \in 1..n  BY <1>1, <1>2, <2>2
    <3>2. rfile' \in dir /\ \A f \in dir : rfile' <= f
      BY <1>1, <1>2, <2>2, <3>1, MinOfInterval
    <3>3. files[rfile'] \in Nat \X Nat  BY <1>1, <1>2, <3>2
    <3>4. UNCHANGED <<files, dir>>  BY <1>4 DEF ProcessDiagFiles
    <3>5. rpos' \in Int  BY <2>2, <3>3
    <3>6. QED BY <2>2, <3>2, <3>4, <3>5 DEF DirInv, Reading
  <2>3. QED BY <1>4, <2>1, <2>2 DEF ProcessDiagFiles
<1>5. CASE Read
  <2>1. UNCHANGED <<files, dir, rfile>> /\ rpc = "read"  BY <1>5 DEF Read, libVars
  <2>2. CASE rpc' \in {"loop", "eof"} /\ UNCHANGED <<rpos, decodeVars>>
    BY <2>1, <2>2 DEF DirInv, Reading
  <2>3. CASE \E hi \in ChunkEnds : ReadChunk(hi)  BY <2>1, <2>3, ChunkDir
  <2>4. QED BY <1>5, <2>2, <2>3 DEF Read
<1>6. CASE CheckNewFile
  <2>1. rpc = "eof" /\ UNCHANGED <<files, dir, rfile, rpos>>
    BY <1>6 DEF CheckNewFile, libVars
  <2>2. CASE Cardinality(dir) > 1 /\ rpc' = "confirm"
    <3>1. k < n  BY <1>1, <1>2, <2>2, AnotherFile
    <3>2. rfile <= k  BY <1>1, <1>2, <2>1, <3>1 DEF DirInv, Reading
    <3>3. rfile < n  BY <1>1, <1>2, <2>1, <3>1, <3>2 DEF DirInv, Reading
    <3>4. QED BY <2>1, <2>2, <3>3 DEF DirInv, Reading
  <2>3. CASE rpc' = "read"  BY <2>1, <2>3 DEF DirInv, Reading
  <2>4. QED BY <1>6, <2>2, <2>3 DEF CheckNewFile
<1>7. CASE ConfirmRead
  <2>1. UNCHANGED <<files, dir, rfile>> /\ rpc = "confirm"
    BY <1>7 DEF ConfirmRead, libVars
  <2>2. CASE Avail = 0 /\ rpc' = "delete" /\ UNCHANGED rpos
    <3>1. rfile \in dir /\ rpos \in Int  BY <2>1 DEF DirInv, Reading
    <3>2. files[rfile] \in Nat \X Nat  BY <1>1, <1>2, <3>1
    <3>3. rpos = files[rfile][2]  BY <2>2, <3>1, <3>2 DEF Avail
    <3>4. QED BY <2>1, <2>2, <3>3 DEF DirInv, Reading
  <2>3. CASE \E hi \in ChunkEnds : ReadChunk(hi)  BY <2>1, <2>3, ChunkDir
  <2>4. QED BY <1>7, <2>2, <2>3 DEF ConfirmRead
<1>8. CASE DeleteFile
  <2>1. rpc = "delete" /\ rpc' = "loop" /\ dir' = dir \ {rfile} /\ UNCHANGED files
    BY <1>8 DEF DeleteFile, libVars
  <2>2. rfile \in dir /\ (\A f \in dir : rfile <= f) /\ rfile < n
    BY <2>1 DEF DirInv, Reading
  <2>3. rfile = k /\ k < n  BY <1>1, <1>2, <2>2
  <2>4. dir' = (k+1)..n  BY <1>1, <1>2, <2>1, <2>3
  <2>5. k + 1 \in 1..n+1  BY <1>1, <2>3
  <2>6. QED BY <1>1, <2>1, <2>4, <2>5 DEF DirInv, Reading
<1>9. QED BY <1>3, <1>4, <1>5, <1>6, <1>7, <1>8 DEF DiagThread

LEMMA StepDir == OldestFirst /\ DirInv /\ [Next]_vars => DirInv'
<1> SUFFICES ASSUME OldestFirst, DirInv, [Next]_vars PROVE DirInv'
  OBVIOUS
<1>1. CASE LibraryWrites \/ LibraryRotates  BY <1>1, LibraryDir
<1>2. CASE DiagThread \/ ReadFails  BY <1>2, DiagThreadDir
<1>3. CASE Dispatcher
  BY <1>3 DEF Dispatcher, DispatcherLoop, TakePacket, libVars, DirInv
<1>4. CASE StopCall \/ Stop
  BY <1>4 DEF StopCall, Stop, StopJoin, StopGet, libVars, DirInv
<1>5. CASE UNCHANGED vars
  BY <1>5 DEF vars, libVars, DirInv
<1>6. QED BY <1>1, <1>2, <1>3, <1>4, <1>5 DEF Next

\* If listings put the oldest file first, readDiagFile never deletes a file of
\* which a byte was not read or can still be written, however the library's
\* writes and rotations fall between its two reads, its listing and the
\* deletion, and whichever reads fail.
THEOREM FilesConsumed == OldestFirst /\ Spec => DeletedFileIsConsumed
<1>1. DirInv /\ [Next]_vars =>
        [\A f \in dir \ dir' : rpos = files[f][2] /\ f < Len(files)]_vars
  <2> SUFFICES ASSUME DirInv, Next, NEW f \in dir \ dir'
               PROVE  rpos = files[f][2] /\ f < Len(files)
    BY DEF vars
  <2>1. DeleteFile
    BY DEF Next, LibraryWrites, LibraryRotates, DiagThread, InitDiag,
           StartDispatchPacket, ProcessDiagFiles, Read, CheckNewFile, ConfirmRead,
           ReadFails, Dispatcher, DispatcherLoop, TakePacket, StopCall, Stop,
           StopJoin, StopGet
  <2>2. f = rfile /\ rpc = "delete"  BY <2>1 DEF DeleteFile
  <2>3. QED BY <2>2 DEF DirInv
<1>2. OldestFirst => OldestFirst'
  OBVIOUS
<1>3. QED BY <1>1, <1>2, InitDir, StepDir, PTL DEF Spec, DeletedFileIsConsumed
=============================================================================
