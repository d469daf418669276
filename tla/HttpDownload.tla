---------------------------- MODULE HttpDownload ----------------------------
(***************************************************************************)
(* HttpDownload.java: a multi-threaded, resumable HTTP download.           *)
(*                                                                         *)
(* Processes: the thread in download() (pc), the DownloadTasks run by the  *)
(* fixed pool (st[i]), a thread in stop() (spc), and the HTTP server,      *)
(* which is external.  The entity file and the ".download" file survive a  *)
(* crash or a new instance; everything else is a field or a local.         *)
(*                                                                         *)
(* stopFlag is a Boolean field that is assigned and also used as the       *)
(* monitor of every synchronized block, so the monitor is whatever object  *)
(* the field referred to when the block evaluated it: the object made by   *)
(* the constructor ("new"), Boolean.FALSE or Boolean.TRUE.  A block with   *)
(* one access to the field is one step; the two blocks that also submit    *)
(* tasks keep their monitor in held until they end.                        *)
(***************************************************************************)
EXTENDS Integers, Sequences, FiniteSets, FiniteSetsExt

CONSTANTS
  Sizes,          \* Content-Length values the server may report
  ThreadCounts,   \* threadCount arguments given to the constructor
  Chunk,          \* most bytes one InputStream.read returns (10240 in call())
  FullBody,       \* kinds of Range request the server may answer with the
                  \* whole entity (200): subset of {"valid", "invalid"}
  MaxRuns,        \* bound: calls of download(), crashes included
  MaxStops,       \* bound: calls of stop() per instance
  MaxFailures     \* bound: network failures per run

ASSUME SizesAssumption == Sizes \subseteq Int
ASSUME ThreadCountsAssumption ==
  ThreadCounts \subseteq Nat \ {0} /\ ThreadCounts # {}
ASSUME ChunkAssumption == Chunk \in Nat \ {0}
ASSUME FullBodyAssumption == FullBody \subseteq {"valid", "invalid"}
ASSUME BoundsAssumption == MaxRuns \in Nat /\ MaxStops \in Nat /\ MaxFailures \in Nat

VARIABLES
  file,           \* saveFile: position -> byte; its length is its domain
  cfg,            \* the ".download" file
  pc,             \* where download() is
  redo,           \* its argument redownload
  result,         \* how it ended: "none", "true", "false" or an exception
  size,           \* fileSize
  tc,             \* threadCount
  cur,            \* the task being submitted or taken
  count,          \* taskCount
  download,       \* DownloadTask.download, for each task of downloadTasks
  st,             \* where each task is
  off, lim,       \* entity offsets of the next byte and of the end of the
                  \* response each task is reading
  pool,           \* executor: "null", "run", "shut" (shutdown), "stop" (shutdownNow)
  completed,      \* the completion service's queue of finished tasks
  flag,           \* the object stopFlag refers to
  held,           \* the monitor download() holds across several steps
  spc,            \* where stop() is
  want,           \* the monitor stop() evaluated
  iter,           \* its iterator over downloadTasks: next index and expected size
  stops, runs, failures,  \* counters for the bounds
  raced,          \* history: a stop() was under way when download() reset stopFlag
  late            \* history: chunks each task wrote since the flag became TRUE

dlVars == <<pc, redo, result, size, tc, cur, count>>
taskVars == <<download, st, off, lim, late>>
stopVars == <<spc, want, iter, stops>>
vars == <<file, cfg, dlVars, taskVars, pool, completed, flag, held, stopVars,
          runs, failures, raced>>

-----------------------------------------------------------------------------
(* Bytes, blocks and the ".download" file.                                 *)

\* A byte that was never written, and byte q of the entity of length s.
Zero == <<0, 0>>
EntityByte(s, q) == <<s, q>>

\* parseDownloadCfg: how an entity of s bytes is divided between n tasks.
BlockSize(s, n) == (s + n - 1) \div n
Start(s, n, i) == i * BlockSize(s, n)
Block(s, n, i) == IF i < n - 1 THEN BlockSize(s, n)
                               ELSE s - (n - 1) * BlockSize(s, n)

NoCfg == [kind |-> "none", size |-> 0, n |-> 0, done |-> [i \in {} |-> 0]]
TornCfg == [kind |-> "torn", size |-> 0, n |-> 0, done |-> [i \in {} |-> 0]]
NewCfg(s, n) == [kind |-> "ok", size |-> s, n |-> n, done |-> [i \in 0..n-1 |-> 0]]

\* What createDownloadCfg may leave: the new file, a part of it (an
\* IOException or a crash between two writes), or none.
CreatedCfg(s, n) == {NewCfg(s, n), TornCfg, NoCfg}

\* RandomAccessFile.setLength and write.
SetLength(f, s) == [p \in 0..s-1 |-> IF p \in DOMAIN f THEN f[p] ELSE Zero]
WriteAt(f, pos, s, q, k) ==
  [p \in DOMAIN f \union 0..pos+k-1 |->
     IF p \in pos..pos+k-1 THEN EntityByte(s, q + p - pos)
     ELSE IF p \in DOMAIN f THEN f[p] ELSE Zero]

Tasks == DOMAIN download
StartPos(i) == Start(size, tc, i) + download[i]
EndPos(i) == Start(size, tc, i) + Block(size, tc, i) - 1
TaskSuc(i) == download[i] >= Block(size, tc, i)
DownloadSize == MapThenSumSet(LAMBDA i : download[i], Tasks)

-----------------------------------------------------------------------------
NoTasks == [i \in {} |-> 0]

Init ==
  /\ file = NoTasks
  /\ cfg = NoCfg
  /\ runs = 1
  \* The fields of a new instance.  The constructor raises a count below 1
  \* to 1, so only positive counts are given.
  /\ tc \in ThreadCounts
  /\ pc = "idle" /\ redo = FALSE /\ result = "none"
  /\ size = 0 /\ cur = 0 /\ count = 0
  /\ download = NoTasks /\ st = NoTasks /\ off = NoTasks /\ lim = NoTasks
  /\ late = NoTasks
  /\ pool = "null" /\ completed = <<>>
  /\ flag = "new" /\ held = "none"
  /\ spc = "idle" /\ want = "none" /\ iter = <<0, 0>> /\ stops = 0
  /\ failures = 0 /\ raced = FALSE

-----------------------------------------------------------------------------
(* download(), in the order of its steps.                                  *)

Return(r) == pc' = "returned" /\ result' = r

Reset ==
  /\ pc = "idle"
  /\ redo' \in BOOLEAN
  /\ flag' = "FALSE"
  /\ raced' = (spc # "idle")
  /\ pc' = "connect"
  /\ UNCHANGED <<file, cfg, result, size, tc, cur, count, taskVars, pool,
                 completed, held, stopVars, runs, failures>>

\* Fault: the file is emptied before its length is set.
CreateLocalFile_Empties ==
  /\ pc = "connect"
  /\ \E s \in Sizes :
       s > 0 /\ size' = s /\ pc' = "config" /\ file' = SetLength(NoTasks, s)
  /\ UNCHANGED <<cfg, redo, result, tc, cur, count, taskVars, pool, completed,
                 flag, held, stopVars, runs, failures, raced>>

CreateLocalFile ==
  /\ pc = "connect"
  /\ \/ \E s \in Sizes :
          /\ size' = s
          /\ IF s <= 0
             THEN Return("false") /\ UNCHANGED file
             ELSE pc' = "config" /\ file' = SetLength(file, s) /\ UNCHANGED result
     \/ Return("false") /\ UNCHANGED <<file, size>>
  /\ UNCHANGED <<cfg, redo, tc, cur, count, taskVars, pool, completed, flag,
                 held, stopVars, runs, failures, raced>>

CreateDownloadCfg ==
  /\ pc = "config"
  /\ \/ /\ cfg.kind # "none" /\ ~redo
        /\ pc' = "parse"
        /\ UNCHANGED <<cfg, result>>
     \/ /\ cfg.kind = "none" \/ redo
        /\ cfg' \in CreatedCfg(size, tc)
        /\ IF cfg'.kind = "ok" THEN pc' = "parse" /\ UNCHANGED result
                               ELSE Return("false")
  /\ UNCHANGED <<file, redo, size, tc, cur, count, taskVars, pool, completed,
                 flag, held, stopVars, runs, failures, raced>>

\* downloadTasks as parseDownloadCfg fills it from the ".download" file c.
LoadTasks(c) ==
  /\ tc' = c.n
  /\ download' = c.done
  /\ st' = [i \in 0..c.n-1 |-> "new"]
  /\ off' = [i \in 0..c.n-1 |-> 0]
  /\ lim' = [i \in 0..c.n-1 |-> 0]
  /\ late' = [i \in 0..c.n-1 |-> 0]
  /\ pc' = "pool"
  /\ UNCHANGED result

\* Fault: the recorded length is not compared with the one just obtained.
ParseDownloadCfg_AnySize ==
  /\ pc = "parse"
  /\ \/ /\ cfg.kind # "ok"
        /\ Return("false")
        /\ UNCHANGED <<tc, taskVars>>
     \/ /\ cfg.kind = "ok"
        /\ LoadTasks(cfg)
  /\ UNCHANGED <<file, cfg, redo, size, cur, count, pool, completed, flag, held,
                 stopVars, runs, failures, raced>>

\* The tasks that a torn file leaves in the list are left out: nothing submits
\* them, and the instance is not used again.
ParseDownloadCfg ==
  /\ pc = "parse"
  /\ \/ /\ cfg.kind # "ok"
        /\ Return("false")
        /\ UNCHANGED <<cfg, tc, taskVars>>
     \/ /\ cfg.kind = "ok" /\ cfg.size = size
        /\ LoadTasks(cfg)
        /\ UNCHANGED cfg
     \/ /\ cfg.kind = "ok" /\ cfg.size # size
        /\ cfg' \in CreatedCfg(size, tc)
        /\ IF cfg'.kind = "ok" THEN LoadTasks(cfg')
                               ELSE Return("false") /\ UNCHANGED <<tc, taskVars>>
  /\ UNCHANGED <<file, redo, size, cur, count, pool, completed, flag, held,
                 stopVars, runs, failures, raced>>

CreatePool ==
  /\ pc = "pool"
  /\ pool' = "run"
  /\ pc' = "guard"
  /\ UNCHANGED <<file, cfg, redo, result, size, tc, cur, count, taskVars,
                 completed, flag, held, stopVars, runs, failures, raced>>

\* The test at the head of the block that submits the tasks.
EnterSubmit ==
  /\ pc = "guard"
  /\ IF flag = "TRUE"
     THEN Return("false") /\ UNCHANGED <<held, cur>>
     ELSE pc' = "submit" /\ held' = flag /\ cur' = 0 /\ UNCHANGED result
  /\ UNCHANGED <<file, cfg, redo, size, tc, count, taskVars, pool, completed,
                 flag, stopVars, runs, failures, raced>>

\* ExecutorService.submit after shutdownNow: RejectedExecutionException,
\* which download() does not catch.
Rejected ==
  /\ pool = "stop"
  /\ Return("rejected")
  /\ held' = "none"
  /\ UNCHANGED <<cur, count, st>>

\* The first submission of a task starts one of the pool's threads with it.
SubmitTask ==
  /\ pc = "submit"
  /\ \/ Rejected
     \/ /\ pool # "stop"
        /\ st' = [st EXCEPT ![cur] = "starting"]
        /\ cur' = cur + 1
        /\ IF cur = tc - 1
           THEN pc' = "open" /\ held' = "none" /\ count' = tc
           ELSE UNCHANGED <<pc, held, count>>
        /\ UNCHANGED result
  /\ UNCHANGED <<file, cfg, redo, size, tc, download, off, lim, late, pool,
                 completed, flag, stopVars, runs, failures, raced>>

\* new RandomAccessFile(cfg): an exception skips the loop.
OpenCfg ==
  /\ pc = "open"
  /\ pc' \in {"take", "finish"}
  /\ UNCHANGED <<file, cfg, redo, result, size, tc, cur, count, taskVars, pool,
                 completed, flag, held, stopVars, runs, failures, raced>>

\* take() and the write of the task's progress, which may throw.
TakeCompleted ==
  /\ pc = "take" /\ count > 0
  /\ completed # <<>>
  /\ cur' = Head(completed)
  /\ completed' = Tail(completed)
  /\ \/ /\ cfg' = [cfg EXCEPT !.done[cur'] = download[cur']]
        /\ pc' = "decide"
     \/ pc' = "finish" /\ UNCHANGED cfg
  /\ UNCHANGED <<file, redo, result, size, tc, count, taskVars, pool, flag,
                 held, stopVars, runs, failures, raced>>

\* Faults: the block is not synchronized; a finished task is not counted off.
Decide_With(monitor, counted) ==
  /\ pc = "decide"
  /\ IF flag # "TRUE" /\ ~TaskSuc(cur)
     THEN pc' = "resubmit" /\ held' = monitor /\ UNCHANGED count
     ELSE pc' = "take" /\ count' = count - counted /\ UNCHANGED held
  /\ UNCHANGED <<file, cfg, redo, result, size, tc, cur, taskVars, pool,
                 completed, flag, stopVars, runs, failures, raced>>
Decide_NoMonitor == Decide_With("none", 1)
Decide_NoDecrement == Decide_With(flag, 0)

Decide ==
  /\ pc = "decide"
  /\ IF flag # "TRUE" /\ ~TaskSuc(cur)
     THEN pc' = "resubmit" /\ held' = flag /\ UNCHANGED count
     ELSE pc' = "take" /\ count' = count - 1 /\ UNCHANGED held
  /\ UNCHANGED <<file, cfg, redo, result, size, tc, cur, taskVars, pool,
                 completed, flag, stopVars, runs, failures, raced>>

\* Every thread of the pool exists by now: the task waits in the work queue.
Resubmit ==
  /\ pc = "resubmit"
  /\ \/ Rejected
     \/ /\ pool # "stop"
        /\ st' = [st EXCEPT ![cur] = "queued"]
        /\ pc' = "take" /\ held' = "none"
        /\ UNCHANGED <<cur, count, result>>
  /\ UNCHANGED <<file, cfg, redo, size, tc, download, off, lim, late, pool,
                 completed, flag, stopVars, runs, failures, raced>>

ShutdownPool ==
  /\ pc = "take" /\ count = 0
  /\ pool' = IF pool = "stop" THEN "stop" ELSE "shut"
  /\ pc' = "finish"
  /\ UNCHANGED <<file, cfg, redo, result, size, tc, cur, count, taskVars,
                 completed, flag, held, stopVars, runs, failures, raced>>

\* take(), or awaitTermination() after shutdown(), throws InterruptedException
\* to the caller.
Interrupted ==
  /\ pc = "take"
  /\ Return("interrupted")
  /\ pool' = IF count = 0 /\ pool = "run" THEN "shut" ELSE pool
  /\ UNCHANGED <<file, cfg, redo, size, tc, cur, count, taskVars, completed,
                 flag, held, stopVars, runs, failures, raced>>

\* Fault: leaving the loop without a stop() counts as success.
Finish_AnyEnd ==
  /\ pc = "finish"
  /\ IF flag # "TRUE"
     THEN Return("true") /\ cfg' = NoCfg
     ELSE pc' = "save" /\ UNCHANGED <<result, cfg>>
  /\ UNCHANGED <<file, redo, size, tc, cur, count, taskVars, pool, completed,
                 flag, held, stopVars, runs, failures, raced>>

\* isDownloadSuc(); on success the ".download" file is deleted.
Finish ==
  /\ pc = "finish"
  /\ IF size = DownloadSize
     THEN Return("true") /\ cfg' = NoCfg
     ELSE pc' = "save" /\ UNCHANGED <<result, cfg>>
  /\ UNCHANGED <<file, redo, size, tc, cur, count, taskVars, pool, completed,
                 flag, held, stopVars, runs, failures, raced>>

\* saveDownloadCfg writes the tasks' progress in order; an IOException ends
\* it early and is swallowed.
SaveDownloadCfg ==
  /\ pc = "save"
  /\ \E k \in 0..tc :
       cfg' = [cfg EXCEPT !.done =
                 [i \in DOMAIN cfg.done |->
                    IF i < k THEN download[i] ELSE cfg.done[i]]]
  /\ Return("false")
  /\ UNCHANGED <<file, redo, size, tc, cur, count, taskVars, pool, completed,
                 flag, held, stopVars, runs, failures, raced>>

-----------------------------------------------------------------------------
(* DownloadTask.call().                                                    *)

\* call() returns and the completion service queues the task.
Complete(i) ==
  /\ st' = [st EXCEPT ![i] = "done"]
  /\ completed' = Append(completed, i)

\* A pool thread takes the task from the work queue.
TaskBegin(i) ==
  /\ st[i] = "queued" /\ pool # "stop"
  /\ st' = [st EXCEPT ![i] = "starting"]
  /\ UNCHANGED <<file, cfg, dlVars, download, off, lim, late, pool, completed,
                 flag, held, stopVars, runs, failures, raced>>

RangeKind(i) == IF StartPos(i) <= EndPos(i) THEN "valid" ELSE "invalid"

\* The server's answer to the Range request: the part asked for (206), the
\* whole entity (200), or 416, which getInputStream turns into an exception.
TaskConnect(i) ==
  /\ st[i] = "starting"
  /\ \/ /\ RangeKind(i) = "valid" /\ StartPos(i) < size
        /\ off' = [off EXCEPT ![i] = StartPos(i)]
        /\ lim' = [lim EXCEPT ![i] = Min({EndPos(i) + 1, size})]
        /\ st' = [st EXCEPT ![i] = "reading"]
        /\ UNCHANGED completed
     \/ /\ RangeKind(i) \in FullBody
        /\ off' = [off EXCEPT ![i] = 0]
        /\ lim' = [lim EXCEPT ![i] = size]
        /\ st' = [st EXCEPT ![i] = "reading"]
        /\ UNCHANGED completed
     \/ /\ RangeKind(i) = "invalid" \/ StartPos(i) >= size
        /\ Complete(i)
        /\ UNCHANGED <<off, lim>>
  /\ UNCHANGED <<file, cfg, dlVars, download, late, pool, flag, held, stopVars,
                 runs, failures, raced>>

\* No connection, an error status, or a read or a write that throws.
TaskError(i) ==
  /\ st[i] \in {"starting", "reading"}
  /\ failures < MaxFailures
  /\ failures' = failures + 1
  /\ Complete(i)
  /\ UNCHANGED <<file, cfg, dlVars, download, off, lim, late, pool, flag, held,
                 stopVars, runs, raced>>

\* One turn of the read loop.  The file pointer was set to start + download
\* by seek and advances with download.
TaskRead(i) ==
  /\ st[i] = "reading" /\ off[i] < lim[i]
  /\ \E k \in 1..Min({Chunk, lim[i] - off[i]}) :
       /\ file' = WriteAt(file, StartPos(i), size, off[i], k)
       /\ download' = [download EXCEPT ![i] = @ + k]
       /\ off' = [off EXCEPT ![i] = @ + k]
  /\ st' = [st EXCEPT ![i] = "checking"]
  /\ late' = [late EXCEPT ![i] = IF flag = "TRUE" THEN @ + 1 ELSE @]
  /\ UNCHANGED <<cfg, dlVars, lim, pool, completed, flag, held, stopVars, runs,
                 failures, raced>>

\* Fault: the read loop goes on whatever stopFlag is.
TaskCheck_GoesOn(i) ==
  /\ st[i] = "checking" /\ flag # held
  /\ st' = [st EXCEPT ![i] = "reading"]
  /\ UNCHANGED <<file, cfg, dlVars, download, off, lim, late, pool, completed,
                 flag, held, stopVars, runs, failures, raced>>

\* The synchronized test of stopFlag after each chunk.
TaskCheck(i) ==
  /\ st[i] = "checking" /\ flag # held
  /\ IF flag = "TRUE"
     THEN Complete(i)
     ELSE st' = [st EXCEPT ![i] = "reading"] /\ UNCHANGED completed
  /\ UNCHANGED <<file, cfg, dlVars, download, off, lim, late, pool, flag, held,
                 stopVars, runs, failures, raced>>

\* End of the response, or a read of a connection that stop() disconnected.
TaskEnd(i) ==
  /\ \/ st[i] = "reading" /\ off[i] >= lim[i]
     \/ st[i] = "broken"
  /\ Complete(i)
  /\ UNCHANGED <<file, cfg, dlVars, download, off, lim, late, pool, flag, held,
                 stopVars, runs, failures, raced>>

Task(i) == TaskBegin(i) \/ TaskConnect(i) \/ TaskRead(i) \/ TaskCheck(i) \/ TaskEnd(i)

-----------------------------------------------------------------------------
(* stop().                                                                 *)

\* Evaluation of stopFlag at the head of the synchronized block.
StopCall ==
  /\ spc = "idle" /\ stops < MaxStops
  /\ stops' = stops + 1
  /\ want' = flag
  /\ spc' = "enter"
  /\ UNCHANGED <<file, cfg, dlVars, taskVars, pool, completed, flag, held, iter,
                 runs, failures, raced>>

StopEnter ==
  /\ spc = "enter" /\ want # held
  /\ flag' = "TRUE"
  /\ spc' = "iterate"
  /\ UNCHANGED <<file, cfg, dlVars, taskVars, pool, completed, held, want, iter,
                 stops, runs, failures, raced>>

StopIterate ==
  /\ spc = "iterate"
  /\ iter' = <<0, Cardinality(Tasks)>>
  /\ spc' = "next"
  /\ UNCHANGED <<file, cfg, dlVars, taskVars, pool, completed, flag, held, want,
                 stops, runs, failures, raced>>

\* hasNext(), next() and task.stop().  A list that grew since iterator() makes
\* next() throw ConcurrentModificationException out of stop().  Disconnecting
\* matters to a task that is reading: one that has not connected yet still
\* connects, and one that is about to test stopFlag ends there.
StopNext ==
  /\ spc = "next"
  /\ \/ /\ iter[1] = Cardinality(Tasks)
        /\ spc' = "shut"
        /\ UNCHANGED <<iter, st>>
     \/ /\ iter[1] # Cardinality(Tasks) /\ iter[2] # Cardinality(Tasks)
        /\ spc' = "idle"
        /\ UNCHANGED <<iter, st>>
     \/ /\ iter[1] # Cardinality(Tasks) /\ iter[2] = Cardinality(Tasks)
        /\ st' = [st EXCEPT ![iter[1]] = IF @ = "reading" THEN "broken" ELSE @]
        /\ iter' = <<iter[1] + 1, iter[2]>>
        /\ UNCHANGED spc
  /\ UNCHANGED <<file, cfg, dlVars, download, off, lim, late, pool, completed,
                 flag, held, want, stops, runs, failures, raced>>

\* executor.shutdownNow() drains the work queue.
StopShutdown ==
  /\ spc = "shut"
  /\ IF pool = "null"
     THEN UNCHANGED <<pool, st>>
     ELSE /\ pool' = "stop"
          /\ st' = [i \in Tasks |-> IF st[i] = "queued" THEN "dropped" ELSE st[i]]
  /\ spc' = "idle"
  /\ UNCHANGED <<file, cfg, dlVars, download, off, lim, late, completed, flag,
                 held, want, iter, stops, runs, failures, raced>>

Stop == StopEnter \/ StopIterate \/ StopNext \/ StopShutdown

-----------------------------------------------------------------------------
(* The process is killed, or download() has ended, and a new instance is   *)
(* made for the same URL and path.                                         *)

Running(i) == st[i] \in {"queued", "starting", "reading", "checking", "broken"}

Restart ==
  /\ runs < MaxRuns
  /\ runs' = runs + 1
  /\ tc' \in ThreadCounts
  /\ pc' = "idle" /\ redo' = FALSE /\ result' = "none"
  /\ size' = 0 /\ cur' = 0 /\ count' = 0
  /\ download' = NoTasks /\ st' = NoTasks /\ off' = NoTasks /\ lim' = NoTasks
  /\ late' = NoTasks
  /\ pool' = "null" /\ completed' = <<>>
  /\ flag' = "new" /\ held' = "none"
  /\ spc' = "idle" /\ want' = "none" /\ iter' = <<0, 0>> /\ stops' = 0
  /\ failures' = 0 /\ raced' = FALSE
  /\ UNCHANGED <<file, cfg>>

Crash == pc # "returned" /\ Restart

NextRun ==
  /\ pc = "returned" /\ spc = "idle"
  /\ \A i \in Tasks : ~Running(i)
  /\ Restart

-----------------------------------------------------------------------------
Downloader ==
  \/ CreateLocalFile \/ CreateDownloadCfg \/ ParseDownloadCfg
  \/ CreatePool \/ EnterSubmit \/ SubmitTask \/ OpenCfg
  \/ TakeCompleted \/ Decide \/ Resubmit \/ ShutdownPool
  \/ Finish \/ SaveDownloadCfg

Next ==
  \/ Reset \/ Downloader \/ Interrupted
  \/ \E i \in Tasks : Task(i) \/ TaskError(i)
  \/ StopCall \/ Stop
  \/ Crash \/ NextRun

Spec == Init /\ [][Next]_vars

\* The threads that run download(), the tasks and stop() are scheduled by the
\* system; nothing makes anyone call download() or stop(), a failure or a
\* crash happen.
TaskStep(i) == i \in Tasks /\ Task(i)
TaskIds == 0..Max(ThreadCounts)-1
Fairness ==
  /\ WF_vars(Downloader)
  /\ WF_vars(Stop)
  /\ \A i \in TaskIds : WF_vars(TaskStep(i))

FairSpec == Spec /\ Fairness

-----------------------------------------------------------------------------
(* Properties.                                                             *)

TaskStates == {"new", "queued", "starting", "reading", "checking", "broken",
               "done", "dropped"}
Monitors == {"new", "FALSE", "TRUE"}

FileType ==
  /\ DOMAIN file \subseteq Nat
  /\ file \in [DOMAIN file -> Nat \X Nat]

CfgType ==
  /\ cfg = [kind |-> cfg.kind, size |-> cfg.size, n |-> cfg.n, done |-> cfg.done]
  /\ cfg.kind \in {"none", "torn", "ok"}
  /\ cfg.size \in Nat
  /\ cfg.n \in Nat
  /\ cfg.done \in [0..cfg.n-1 -> Nat]
  /\ cfg.kind = "ok" => cfg.n > 0

DownloaderType ==
  /\ pc \in {"idle", "connect", "config", "parse", "pool", "guard", "submit",
             "open", "take", "decide", "resubmit", "finish", "save", "returned"}
  /\ redo \in BOOLEAN
  /\ result \in {"none", "true", "false", "interrupted", "rejected"}
  /\ size \in Int
  /\ tc \in Nat \ {0}
  /\ cur \in Nat
  /\ count \in Nat
  /\ pool \in {"null", "run", "shut", "stop"}
  /\ flag \in Monitors
  /\ held \in Monitors \union {"none"}
  /\ runs \in Nat

TaskType ==
  /\ Tasks = {} \/ Tasks = 0..tc-1
  /\ download \in [Tasks -> Nat]
  /\ st \in [Tasks -> TaskStates]
  /\ off \in [Tasks -> Nat]
  /\ lim \in [Tasks -> Nat]
  /\ late \in [Tasks -> Nat]
  /\ completed \in Seq(Tasks)
  /\ failures \in Nat

StopType ==
  /\ spc \in {"idle", "enter", "iterate", "next", "shut"}
  /\ want \in Monitors \union {"none"}
  /\ iter \in Nat \X Nat
  /\ stops \in Nat
  /\ raced \in BOOLEAN

\* The types of the variables; the tasks of downloadTasks are none, or one for
\* each of threadCount.
TypeOK == FileType /\ CfgType /\ DownloaderType /\ TaskType /\ StopType

\* The server always describes the same entity.
OneEntity == \A s, t \in Sizes : s > 0 /\ t > 0 => s = t

\* The steps of download() at which the tasks agree with the ".download" file.
Loaded == {"pool", "guard", "submit", "open", "take", "decide", "resubmit",
           "finish", "save"}

\* While download() works on the tasks they are the ones the ".download" file
\* describes, in number and length, so a position computed from threadCount
\* always names the entry of the right task; outside it no stale list is left
\* for the next steps to submit.
TasksMatchCfg ==
  /\ pc \in Loaded =>
       cfg.kind = "ok" /\ cfg.size = size /\ cfg.n = tc /\ Tasks = 0..tc-1
  /\ Tasks # {} \/ pc \in {"config", "parse"} => size > 0
  /\ pc \in {"decide", "resubmit"} => cur \in Tasks /\ count > 0
  /\ pc = "submit" => cur < tc
  /\ pc \in {"idle", "connect", "config", "parse"} => Tasks = {} /\ pool = "null"

\* The bytes of the positions a to a + d - 1 below the length l are written.
Covered(a, d, l) ==
  \A p \in a..a+d-1 : p < l => p \in DOMAIN file /\ file[p] # Zero

\* What the ".download" file says was downloaded is in the entity file.
Recorded ==
  cfg.kind = "ok" =>
    \A i \in DOMAIN cfg.done :
      Covered(Start(cfg.size, cfg.n, i), cfg.done[i], cfg.size)

\* What the ".download" file records is in the entity file, at every point where
\* a crash may happen and whatever the server sends: the write to the file (call)
\* precedes the write of the progress (download, saveDownloadCfg), and no later
\* run loses a byte it does not fetch again.  When the entity changes its length
\* this holds from the point where the ".download" file has been compared with
\* the new length; a run that is killed before it, followed by one that meets the
\* old length, can still leave a record of bytes that were cut off.
RecordedBytesWritten == OneEntity \/ pc \in Loaded => Recorded

\* When the server honours Range, every byte in the file is at its own offset:
\* tasks that overlap, resume or run on after a stop() never misplace one.
BytesInPlace ==
  FullBody = {} =>
    \A p \in DOMAIN file : file[p] # Zero => file[p][2] = p

\* download() returns true only when every byte of the entity is in place,
\* although it only compares the sum of the tasks' counters with the length.
SuccessMeansComplete ==
  result = "true" =>
    /\ DOMAIN file = 0..size-1
    /\ \A p \in DOMAIN file : file[p] = EntityByte(size, p)

\* Once stopFlag is TRUE a task writes at most one more chunk, whether it was
\* starting, reading, in the work queue or being resubmitted.
AtMostOneLateChunk == \A i \in Tasks : late[i] <= 1

\* submit() is rejected, and download() ended by that exception, only if a
\* stop() was already under way when download() reset stopFlag, replacing the
\* monitor or undoing the TRUE: otherwise the synchronized blocks order every
\* submission before stop() and no submission comes after it.
RejectionNeedsRace == result = "rejected" => raced

\* Every download() is on its way to return, stopped or not: no task is lost
\* between the pool, the completion queue and the count of outstanding tasks.
\* The one exception is a task that was in the work queue when stop() called
\* shutdownNow(): it never completes, and take() waits for it.
DownloadReturns ==
  pc = "connect" ~> pc \in {"returned", "idle"} \/ \E i \in Tasks : st[i] = "dropped"

\* stop() always ends: the thread that submits tasks releases the monitor.
StopReturns == spc = "enter" ~> spc = "idle"

\* Neither of the two calls hangs: download() and stop(), with tasks that fail, a server
\* that ignores Range and a stop() at any point.
CallsReturn == DownloadReturns /\ StopReturns
=============================================================================
