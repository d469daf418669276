------------------------------ MODULE Qualcomm ------------------------------
(***************************************************************************)
(* Qualcomm.java and HDLC.java: the diag library logs the modem's stream   *)
(* into a sequence of files, the diag thread reads the files, deletes each *)
(* one that is finished and decodes the frames into packets, a thread of   *)
(* MyThreadPool hands the packets to the listeners, and stop() is called   *)
(* from the UI thread.                                                     *)
(*                                                                         *)
(* A byte of the stream is its position in Stream, which gives its kind: a *)
(* plain byte, ESC_CHAR, the byte after it ("masked"), or CONTROL_CHAR     *)
(* ("end").  A file is the segment <<lo, hi>> of the positions lo+1 to hi. *)
(* A decoded byte is the position it was decoded from, negated when its    *)
(* value is wrong: masked but stored as it is, or unmasked though plain.   *)
(***************************************************************************)
EXTENDS Integers, Sequences, FiniteSets, FiniteSetsExt, SequencesExt

CONSTANTS
  Stream,        \* the kinds of the bytes the modem produces
  Buffer,        \* length of mBuffer, the most one read returns
  DecodeMax,     \* READ_BUFFER_MAX_SIZE
  MaxFiles,      \* bound: files the library creates
  MaxErrors,     \* bound: reads that fail with an IOException
  OldestFirst    \* whether listFiles() happens to put the oldest file first

Kinds == {"byte", "esc", "masked", "end"}

ASSUME StreamAssumption == Stream \in Seq(Kinds)
ASSUME SizesAssumption ==
  /\ Buffer \in Nat \ {0} /\ DecodeMax \in Nat /\ MaxFiles \in Nat /\ MaxErrors \in Nat
  /\ OldestFirst \in BOOLEAN

VARIABLES
  files,        \* the segment of every file the library created, in order
  dir,          \* the files in QUAL_TMP_DIR
  logging,      \* between diag_switch_logging and Diag_LSM_DeInit
  rpc,          \* where the diag thread is
  rfile, rpos,  \* the file it reads, and the position it has read to
  buf,          \* mDecodeBytes up to mDecodeLen
  put,          \* history: the packets put in mPacketQueue, in order
  taken,        \* how many of them were taken
  dpc,          \* where the dispatcher is
  stopFlag,
  spc,          \* where stop() is
  errors,       \* counter for the bound
  split         \* history: a chunk ended between an ESC_CHAR and its byte

libVars == <<files, logging>>
decodeVars == <<buf, put, split>>
stopVars == <<stopFlag, spc>>
vars == <<libVars, dir, rpc, rfile, rpos, errors, decodeVars, taken, dpc, stopVars>>

Init ==
  /\ files = <<>> /\ dir = {} /\ logging = FALSE
  /\ rpc = "init" /\ rfile = 0 /\ rpos = 0
  /\ buf = <<>> /\ put = <<>> /\ taken = 0
  /\ dpc = "none"
  /\ stopFlag = FALSE /\ spc = "idle"
  /\ errors = 0 /\ split = FALSE

-----------------------------------------------------------------------------
(* The diag library, external: from diag_switch_logging on it appends to   *)
(* the newest file, and at its size limit goes on in a new one.  A file    *)
(* that was deleted under it still takes its writes.                       *)

Written == IF files = <<>> THEN 0 ELSE Last(files)[2]

LibraryWrites ==
  /\ logging /\ files # <<>> /\ Written < Len(Stream)
  /\ files' = [files EXCEPT ![Len(files)][2] = @ + 1]
  /\ UNCHANGED <<logging, dir, rpc, rfile, rpos, errors, decodeVars, taken, dpc, stopVars>>

LibraryRotates ==
  /\ logging /\ Len(files) < MaxFiles
  /\ files # <<>> => Last(files)[1] < Written
  /\ files' = Append(files, <<Written, Written>>)
  /\ dir' = dir \union {Len(files) + 1}
  /\ UNCHANGED <<logging, rpc, rfile, rpos, errors, decodeVars, taken, dpc, stopVars>>

-----------------------------------------------------------------------------
(* HDLC.decode.                                                            *)

\* Fault: the checksum is not cut off.
DecodeByte_WithCrc(s, i) ==
  IF ~s.escaping /\ Stream[i] = "esc" THEN [s EXCEPT !.escaping = TRUE]
  ELSE IF ~s.escaping /\ Stream[i] = "end"
       THEN [s EXCEPT !.packets = Append(@, s.bytes), !.bytes = <<>>]
  ELSE [s EXCEPT !.bytes = Append(@, IF s.escaping = (Stream[i] = "masked") THEN i ELSE -i),
                 !.escaping = FALSE]

\* One turn of its loop on the byte i.  A frame shorter than its checksum
\* (NegativeArraySizeException) and a full buffer throw.
DecodeByte(s, i) ==
  IF s.threw THEN s
  ELSE IF ~s.escaping /\ Stream[i] = "esc" THEN [s EXCEPT !.escaping = TRUE]
  ELSE IF ~s.escaping /\ Stream[i] = "end"
       THEN IF Len(s.bytes) < 2 THEN [s EXCEPT !.threw = TRUE]
            ELSE [s EXCEPT !.packets = Append(@, SubSeq(s.bytes, 1, Len(s.bytes) - 2)),
                           !.bytes = <<>>]
  ELSE IF Len(s.bytes) >= DecodeMax THEN [s EXCEPT !.threw = TRUE]
  ELSE [s EXCEPT !.bytes = Append(@, IF s.escaping = (Stream[i] = "masked") THEN i ELSE -i),
                 !.escaping = FALSE]

\* The positions lo+1 to hi, decoded after what mDecodeBytes holds; escaping
\* is a local and starts FALSE in every call.
Decode(lo, hi) ==
  FoldLeft(DecodeByte,
           [bytes |-> buf, escaping |-> FALSE, packets |-> <<>>, threw |-> FALSE],
           [k \in 1..hi-lo |-> lo + k])

\* A chunk up to position hi is read and decoded.
ReadChunk(hi) ==
  LET s == Decode(rpos, hi) IN
  /\ rpos' = hi
  /\ buf' = s.bytes
  /\ put' = put \o s.packets
  /\ split' = (split \/ s.escaping)
  /\ rpc' = IF s.threw THEN "crashed" ELSE "read"

-----------------------------------------------------------------------------
(* The diag thread.  An exception that decode throws ends it ("crashed").  *)

\* Diag_LSM_Init fails, or the directory is emptied and logging switched on.
InitDiag ==
  /\ rpc = "init"
  /\ \/ rpc' = "exited" /\ UNCHANGED logging
     \/ rpc' = "dispatch" /\ logging' = TRUE
  /\ UNCHANGED <<files, dir, rfile, rpos, errors, decodeVars, taken, dpc, stopVars>>

StartDispatchPacket ==
  /\ rpc = "dispatch"
  /\ rpc' = "loop" /\ dpc' = "loop"
  /\ UNCHANGED <<libVars, dir, rfile, rpos, errors, decodeVars, taken, stopVars>>

\* The loop of run(): it leaves, or opens the first file of the listing.
ProcessDiagFiles ==
  /\ rpc = "loop"
  /\ \/ /\ stopFlag
        /\ rpc' = "exited" /\ logging' = FALSE
        /\ UNCHANGED <<rfile, rpos>>
     \/ /\ ~stopFlag /\ dir # {}
        /\ rfile' \in IF OldestFirst THEN {Min(dir)} ELSE dir
        /\ rpos' = files[rfile'][1]
        /\ rpc' = "read"
        /\ UNCHANGED logging
  /\ UNCHANGED <<files, dir, errors, decodeVars, taken, dpc, stopVars>>

Avail == files[rfile][2] - rpos
ChunkEnds == {rpos + n : n \in 1..Min({Buffer, Avail})}

\* Fault: the loop of readDiagFile does not test stopFlag.
Read_NoStop ==
  /\ rpc = "read"
  /\ \/ \E hi \in ChunkEnds : ReadChunk(hi)
     \/ Avail = 0 /\ rpc' = "eof" /\ UNCHANGED <<rpos, decodeVars>>
  /\ UNCHANGED <<libVars, dir, rfile, errors, taken, dpc, stopVars>>

\* The head of the loop of readDiagFile and its first read.
Read ==
  /\ rpc = "read"
  /\ \/ stopFlag /\ rpc' = "loop" /\ UNCHANGED <<rpos, decodeVars>>
     \/ ~stopFlag /\ \E hi \in ChunkEnds : ReadChunk(hi)
     \/ ~stopFlag /\ Avail = 0 /\ rpc' = "eof" /\ UNCHANGED <<rpos, decodeVars>>
  /\ UNCHANGED <<libVars, dir, rfile, errors, taken, dpc, stopVars>>

\* A read throws IOException; the file will be opened again from its start.
ReadFails ==
  /\ rpc \in {"read", "confirm"} /\ errors < MaxErrors
  /\ rpc' = "loop" /\ errors' = errors + 1
  /\ UNCHANGED <<libVars, dir, rfile, rpos, decodeVars, taken, dpc, stopVars>>

\* Fault: the file is deleted without reading it again.
CheckNewFile_NoConfirm ==
  /\ rpc = "eof"
  /\ rpc' = IF Cardinality(dir) > 1 THEN "delete" ELSE "read"
  /\ UNCHANGED <<libVars, dir, rfile, rpos, errors, decodeVars, taken, dpc, stopVars>>

\* At the end of the data: is there another file?  If not, sleep and read on.
CheckNewFile ==
  /\ rpc = "eof"
  /\ rpc' = IF Cardinality(dir) > 1 THEN "confirm" ELSE "read"
  /\ UNCHANGED <<libVars, dir, rfile, rpos, errors, decodeVars, taken, dpc, stopVars>>

\* The second read, which confirms that the file is finished.
ConfirmRead ==
  /\ rpc = "confirm"
  /\ \/ \E hi \in ChunkEnds : ReadChunk(hi)
     \/ Avail = 0 /\ rpc' = "delete" /\ UNCHANGED <<rpos, decodeVars>>
  /\ UNCHANGED <<libVars, dir, rfile, errors, taken, dpc, stopVars>>

DeleteFile ==
  /\ rpc = "delete"
  /\ dir' = dir \ {rfile}
  /\ rpc' = "loop"
  /\ UNCHANGED <<libVars, rfile, rpos, errors, decodeVars, taken, dpc, stopVars>>

DiagThread ==
  \/ InitDiag \/ StartDispatchPacket \/ ProcessDiagFiles \/ Read
  \/ CheckNewFile \/ ConfirmRead \/ DeleteFile

-----------------------------------------------------------------------------
(* The dispatcher.                                                         *)

\* Fault: it ends when the queue is empty.
DispatcherLoop_EndsIdle ==
  /\ dpc = "loop"
  /\ dpc' = IF stopFlag \/ taken = Len(put) THEN "exited" ELSE "take"
  /\ UNCHANGED <<libVars, dir, rpc, rfile, rpos, errors, decodeVars, taken, stopVars>>

DispatcherLoop ==
  /\ dpc = "loop"
  /\ dpc' = IF stopFlag THEN "exited" ELSE "take"
  /\ UNCHANGED <<libVars, dir, rpc, rfile, rpos, errors, decodeVars, taken, stopVars>>

\* take() and the call of the listeners.  PacketBase.isValid reads the first
\* byte of the packet: an empty one ends the dispatcher with an exception.
TakePacket ==
  /\ dpc = "take" /\ taken < Len(put)
  /\ taken' = taken + 1
  /\ dpc' = IF put[taken + 1] = <<>> THEN "died" ELSE "loop"
  /\ UNCHANGED <<libVars, dir, rpc, rfile, rpos, errors, decodeVars, stopVars>>

Dispatcher == DispatcherLoop \/ TakePacket

-----------------------------------------------------------------------------
(* stop(), called once, from onDestroy().                                  *)

StopCall ==
  /\ spc = "idle"
  /\ stopFlag' = TRUE /\ spc' = "join"
  /\ UNCHANGED <<libVars, dir, rpc, rfile, rpos, errors, decodeVars, taken, dpc>>

\* join(10000): the diag thread has ended, or ten seconds have passed.
StopJoin ==
  /\ spc = "join"
  /\ spc' = "get"
  /\ UNCHANGED <<libVars, dir, rpc, rfile, rpos, errors, decodeVars, taken, dpc, stopFlag>>

\* mPacketDispatchTask is null, or get(1, SECONDS) returns from a task that has
\* ended, or throws: ExecutionException, or TimeoutException from one that has
\* not ended, in which case cancel() is not reached either.
StopGet ==
  /\ spc = "get"
  /\ spc' = "returned"
  /\ UNCHANGED <<libVars, dir, rpc, rfile, rpos, errors, decodeVars, taken, dpc, stopFlag>>

Stop == StopJoin \/ StopGet

-----------------------------------------------------------------------------
Next ==
  \/ LibraryWrites \/ LibraryRotates
  \/ DiagThread \/ ReadFails
  \/ Dispatcher
  \/ StopCall \/ Stop

Spec == Init /\ [][Next]_vars

\* The threads are scheduled; the library and the caller of stop() owe nothing.
FairSpec == Spec /\ WF_vars(DiagThread) /\ WF_vars(Dispatcher) /\ WF_vars(Stop)

-----------------------------------------------------------------------------
(* What the packets should be: for each frame of the stream its bytes,     *)
(* unmasked, without the ESC_CHARs and the checksum.                       *)

Ends == {e \in 1..Len(Stream) : Stream[e] = "end"}
Payload(e) ==
  LET from == Max({0} \union {d \in Ends : d < e})
      bytes == SetToSortSeq({i \in from+1..e-1 : Stream[i] # "esc"}, <)
  IN  SubSeq(bytes, 1, Len(bytes) - 2)
Expected == LET es == SetToSortSeq(Ends, <) IN [k \in 1..Len(es) |-> Payload(es[k])]
FramesWritten == Cardinality({e \in Ends : e <= Written})

Abs(n) == IF n < 0 THEN -n ELSE n
Positions(packets) ==
  [k \in DOMAIN packets |-> [j \in DOMAIN packets[k] |-> Abs(packets[k][j])]]

-----------------------------------------------------------------------------
(* Properties.                                                             *)

Reading == {"read", "eof", "confirm", "delete"}

\* The packets are the frames of the stream, all of them and in order, however
\* the stream is cut into files and chunks: decode keeps an unfinished frame in
\* mDecodeBytes.  A byte has a wrong value only if a chunk ended after an
\* ESC_CHAR, because escaping is a local of decode.
PacketsAreFrames ==
  errors = 0 =>
    /\ IsPrefix(Positions(put), Expected)
    /\ ~split => IsPrefix(put, Expected)

\* readDiagFile deletes a file only when everything of it was read and nothing
\* more can be written to it.
DeletedFileIsConsumed ==
  [][\A f \in dir \ dir' : rpos = files[f][2] /\ f < Len(files)]_vars

\* decode throws neither on a frame without checksum nor at the end of its
\* buffer, since no file is lost between two parts of a frame.
DecoderNeverThrows == errors = 0 => rpc # "crashed" /\ dpc # "died"

\* Decoding loses, merges and tears no frame and survives every way of cutting the
\* stream (HDLC.decode, Qualcomm.readDiagFile).
DecodingIsRight == PacketsAreFrames /\ DecoderNeverThrows

\* Until it is stopped, every frame that is written reaches the listeners.
FramesReachListeners ==
  \A n \in 1..Cardinality(Ends) :
    FramesWritten >= n ~> taken >= n \/ stopFlag \/ errors > 0

\* After stop() the diag thread ends, from every place of its two loops.
DiagThreadEnds == stopFlag ~> rpc \in {"exited", "crashed"}

\* After stop() the dispatcher ends too, unless it is waiting in take() for a
\* packet that never comes: get() times out with an exception and the cancel
\* after it is not reached.
DispatcherEnds ==
  stopFlag /\ (dpc = "take" => taken < Len(put)) ~> dpc \in {"none", "exited", "died"}

\* stop() ends both threads, but for the dispatcher that waits for ever.
ThreadsEnd == DiagThreadEnds /\ DispatcherEnds
=============================================================================
