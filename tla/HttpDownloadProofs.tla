-------------------------- MODULE HttpDownloadProofs --------------------------
(***************************************************************************)
(* Proofs about HttpDownload for every length, thread count, chunk size,   *)
(* kind of server and number of runs, stops and failures.                  *)
(***************************************************************************)
EXTENDS HttpDownload, FiniteSetTheorems, TLAPS

\* Min of two integers is one of them and no larger than either.
LEMMA MinPair ==
  ASSUME NEW a \in Int, NEW b \in Int
  PROVE  Min({a, b}) \in {a, b} /\ Min({a, b}) <= a /\ Min({a, b}) <= b
<1>1. \E x \in {a, b} : \A y \in {a, b} : x <= y
  <2>1. CASE a <= b  BY <2>1
  <2>2. CASE b <= a  BY <2>2
  <2>3. QED BY <2>1, <2>2
<1>2. QED BY <1>1 DEF Min

\* The tasks of downloadTasks are finitely many.
LEMMA TasksCardinality == TaskType /\ DownloaderType => Cardinality(Tasks) \in Nat
<1> SUFFICES ASSUME TaskType, DownloaderType PROVE Cardinality(Tasks) \in Nat
  OBVIOUS
<1>1. Cardinality({}) \in Nat  BY FS_EmptySet
<1>2. Cardinality(0..tc-1) \in Nat
  <2>1. 0 \in Int /\ tc - 1 \in Int BY DEF DownloaderType
  <2>2. IsFiniteSet(0..tc-1) BY <2>1, FS_Interval
  <2>3. QED BY <2>2, FS_CardinalityType
<1>3. QED BY <1>1, <1>2 DEF TaskType

-------------------------------------------------------------------------------
(* Types, and the tie between the tasks and the ".download" file.            *)

TypeInv == TypeOK /\ TasksMatchCfg

USE SizesAssumption, ThreadCountsAssumption, ChunkAssumption, FullBodyAssumption,
    BoundsAssumption

LEMMA TypeInit == Init => TypeInv
<1> SUFFICES ASSUME Init PROVE TypeInv
  OBVIOUS
<1>1. FileType BY DEF Init, FileType, NoTasks
<1>2. CfgType BY DEF Init, CfgType, NoCfg
<1>3. DownloaderType
  <2>1. tc \in Nat \ {0} BY DEF Init
  <2>2. redo \in BOOLEAN BY DEF Init
  <2>3. QED BY <2>1, <2>2 DEF Init, DownloaderType, Monitors
<1>4. TaskType BY DEF Init, TaskType, NoTasks, Tasks
<1>5. StopType BY DEF Init, StopType
<1>6. TasksMatchCfg
  BY DEF Init, TasksMatchCfg, Loaded, NoTasks, Tasks
<1>7. QED BY <1>1, <1>2, <1>3, <1>4, <1>5, <1>6 DEF TypeInv, TypeOK

\* The position of a block is a natural number and its length an integer.
LEMMA BlockType ==
  ASSUME NEW s \in Nat, NEW n \in Nat \ {0}, NEW i \in Nat
  PROVE  BlockSize(s, n) \in Nat /\ Start(s, n, i) \in Nat /\ Block(s, n, i) \in Int
<1>1. BlockSize(s, n) \in Nat  BY DEF BlockSize
<1>2. Start(s, n, i) \in Nat  BY <1>1 DEF Start
<1>3. (n - 1) * BlockSize(s, n) \in Int  BY <1>1
<1>4. QED BY <1>1, <1>2, <1>3 DEF Block

\* The position a task writes at is a natural number.
LEMMA StartPosType ==
  ASSUME TypeInv, NEW i \in Tasks
  PROVE  size \in Nat /\ StartPos(i) \in Nat /\ EndPos(i) \in Int
<1>1. size \in Nat /\ tc \in Nat \ {0} /\ i \in Nat /\ download[i] \in Nat
  BY DEF TypeInv, TypeOK, TasksMatchCfg, DownloaderType, TaskType
<1>2. Start(size, tc, i) \in Nat /\ Block(size, tc, i) \in Int  BY <1>1, BlockType
<1>3. QED BY <1>1, <1>2 DEF StartPos, EndPos

\* Writing entries of the ".download" file changes nothing else in it.
LEMMA CfgReplace ==
  ASSUME CfgType, NEW d \in [0..cfg.n-1 -> Nat], cfg' = [cfg EXCEPT !.done = d]
  PROVE  /\ CfgType'
         /\ cfg'.kind = cfg.kind /\ cfg'.size = cfg.size /\ cfg'.n = cfg.n
         /\ cfg'.done = d
<1>1. cfg' = [kind |-> cfg.kind, size |-> cfg.size, n |-> cfg.n, done |-> d]
  BY DEF CfgType
<1>2. /\ cfg'.kind = cfg.kind /\ cfg'.size = cfg.size /\ cfg'.n = cfg.n
      /\ cfg'.done = d
  BY <1>1
<1>3. CfgType'  BY <1>1, <1>2 DEF CfgType
<1>4. QED BY <1>2, <1>3

LEMMA CfgEntry ==
  ASSUME CfgType, NEW x, NEW v \in Nat, cfg' = [cfg EXCEPT !.done[x] = v]
  PROVE  /\ CfgType'
         /\ cfg'.kind = cfg.kind /\ cfg'.size = cfg.size /\ cfg'.n = cfg.n
         /\ cfg'.done = [cfg.done EXCEPT ![x] = v]
<1>1. cfg' = [cfg EXCEPT !.done = [cfg.done EXCEPT ![x] = v]]  BY DEF CfgType
<1>2. [cfg.done EXCEPT ![x] = v] \in [0..cfg.n-1 -> Nat]  BY DEF CfgType
<1>3. QED BY <1>1, <1>2, CfgReplace

\* RandomAccessFile.write keeps the file a file.
LEMMA WriteType ==
  ASSUME FileType, NEW pos \in Nat, NEW s \in Nat, NEW q \in Nat, NEW k \in Nat,
         file' = WriteAt(file, pos, s, q, k)
  PROVE  FileType'
<1>1. DOMAIN file' = DOMAIN file \union 0..pos+k-1  BY DEF WriteAt
<1>2. ASSUME NEW p \in DOMAIN file \union 0..pos+k-1 PROVE file'[p] \in Nat \X Nat
  BY <1>2 DEF WriteAt, EntityByte, Zero, FileType
<1>3. file' \in [DOMAIN file \union 0..pos+k-1 -> Nat \X Nat]  BY <1>2 DEF WriteAt
<1>4. DOMAIN file \union 0..pos+k-1 \subseteq Nat  BY DEF FileType
<1>5. QED BY <1>1, <1>3, <1>4 DEF FileType

LEMMA TypeParse == TypeInv /\ ParseDownloadCfg => TypeInv'
<1> SUFFICES ASSUME TypeInv, ParseDownloadCfg PROVE TypeInv'
  OBVIOUS
<1> USE DEF TypeInv, TypeOK, Tasks, taskVars, stopVars
<1>1. (FileType /\ StopType)'  BY DEF ParseDownloadCfg, FileType, StopType
<1>2. CASE Return("false") /\ UNCHANGED <<cfg, tc, taskVars>>
  BY <1>1, <1>2 DEF ParseDownloadCfg, Return, CfgType, DownloaderType, TaskType,
                    TasksMatchCfg, Loaded
<1>3. CASE LoadTasks(cfg) /\ cfg.kind = "ok" /\ UNCHANGED cfg /\ cfg.size = size
  <2> USE <1>3 DEF ParseDownloadCfg, LoadTasks
  <2>1. cfg.done \in [0..cfg.n-1 -> Nat] /\ DOMAIN cfg.done = 0..cfg.n-1
    BY DEF CfgType
  <2>2. completed' \in Seq(Tasks')  BY DEF TasksMatchCfg, TaskType
  <2>3. CfgType'  BY DEF CfgType
  <2>4. DownloaderType'  BY DEF DownloaderType, CfgType
  <2>5. TaskType'
    <3>1. download' \in [0..cfg.n-1 -> Nat] /\ tc' = cfg.n /\ Tasks' = 0..cfg.n-1
      BY <2>1
    <3>2. st' \in [0..cfg.n-1 -> TaskStates]  BY DEF TaskStates
    <3>3. QED BY <2>2, <3>1, <3>2 DEF TaskType
  <2>6. TasksMatchCfg'  BY <2>1 DEF TasksMatchCfg, Loaded
  <2>7. QED BY <1>1, <2>3, <2>4, <2>5, <2>6
<1>4. CASE cfg' = NewCfg(size, tc) /\ LoadTasks(cfg')
  <2> USE <1>4 DEF ParseDownloadCfg, LoadTasks, NewCfg
  <2>1. size \in Nat /\ size > 0 /\ tc \in Nat /\ tc > 0
    BY DEF TasksMatchCfg, DownloaderType
  <2>2. CfgType'  BY <2>1 DEF CfgType
  <2>3. DownloaderType'  BY <2>1 DEF DownloaderType
  <2>4. TaskType'  BY <2>1 DEF TaskType, TasksMatchCfg, TaskStates
  <2>5. TasksMatchCfg'  BY <2>1 DEF TasksMatchCfg, Loaded
  <2>6. QED BY <1>1, <2>2, <2>3, <2>4, <2>5
<1>5. CASE cfg' \in {TornCfg, NoCfg} /\ Return("false") /\ UNCHANGED <<tc, taskVars>>
  <2>1. CfgType'
    <3>1. CASE cfg' = TornCfg  BY <3>1 DEF TornCfg, CfgType
    <3>2. CASE cfg' = NoCfg  BY <3>2 DEF NoCfg, CfgType
    <3>3. QED BY <1>5, <3>1, <3>2
  <2>2. DownloaderType'  BY <1>5 DEF ParseDownloadCfg, Return, DownloaderType
  <2>3. TaskType'  BY <1>5 DEF ParseDownloadCfg, TaskType
  <2>4. TasksMatchCfg'  BY <1>5 DEF ParseDownloadCfg, Return, TasksMatchCfg, Loaded
  <2>5. QED BY <1>1, <2>1, <2>2, <2>3, <2>4
<1>6. QED
  BY <1>2, <1>3, <1>4, <1>5 DEF ParseDownloadCfg, CreatedCfg, NewCfg, TornCfg, NoCfg

LEMMA TypeDownloader == TypeInv /\ Downloader => TypeInv'
<1> SUFFICES ASSUME TypeInv, Downloader PROVE TypeInv'
  OBVIOUS
<1> USE DEF TypeInv, TypeOK, taskVars, stopVars, Tasks, Return
<1>1. CASE CreateLocalFile
  <2>1. FileType'
    <3>1. CASE UNCHANGED file  BY <3>1 DEF FileType
    <3>2. ASSUME NEW s \in Sizes, s > 0, file' = SetLength(file, s) PROVE FileType'
      <4>1. DOMAIN file' = 0..s-1  BY <3>2 DEF SetLength
      <4>2. ASSUME NEW p \in 0..s-1 PROVE file'[p] \in Nat \X Nat
        BY <3>2, <4>2 DEF SetLength, Zero, FileType
      <4>3. file' \in [0..s-1 -> Nat \X Nat]  BY <3>2, <4>2 DEF SetLength
      <4>4. 0..s-1 \subseteq Nat  OBVIOUS
      <4>5. QED BY <4>1, <4>3, <4>4 DEF FileType
    <3>3. QED BY <1>1, <3>1, <3>2 DEF CreateLocalFile
  <2>2. (CfgType /\ TaskType /\ StopType)'
    BY <1>1 DEF CreateLocalFile, CfgType, TaskType, StopType
  <2>3. DownloaderType'  BY <1>1 DEF CreateLocalFile, DownloaderType
  <2>4. TasksMatchCfg'  BY <1>1 DEF CreateLocalFile, TasksMatchCfg, Loaded
  <2>5. QED BY <2>1, <2>2, <2>3, <2>4
<1>2. CASE CreateDownloadCfg
  <2>1. size \in Nat /\ size > 0 /\ tc \in Nat /\ tc > 0
    BY <1>2 DEF CreateDownloadCfg, TasksMatchCfg, DownloaderType
  <2>2. CfgType'
    <3>1. CASE UNCHANGED cfg  BY <3>1 DEF CfgType
    <3>2. CASE cfg' = NewCfg(size, tc)  BY <2>1, <3>2 DEF NewCfg, CfgType
    <3>3. CASE cfg' = TornCfg  BY <3>3 DEF TornCfg, CfgType
    <3>4. CASE cfg' = NoCfg  BY <3>4 DEF NoCfg, CfgType
    <3>5. QED BY <1>2, <3>1, <3>2, <3>3, <3>4 DEF CreateDownloadCfg, CreatedCfg
  <2>3. (FileType /\ TaskType /\ StopType)'
    BY <1>2 DEF CreateDownloadCfg, FileType, TaskType, StopType
  <2>4. DownloaderType'  BY <1>2 DEF CreateDownloadCfg, DownloaderType
  <2>5. TasksMatchCfg'  BY <1>2 DEF CreateDownloadCfg, TasksMatchCfg, Loaded
  <2>6. QED BY <2>2, <2>3, <2>4, <2>5
<1>3. CASE ParseDownloadCfg  BY <1>3, TypeParse
<1>4. CASE CreatePool
  <2>1. (FileType /\ StopType /\ CfgType)'
    BY <1>4 DEF CreatePool, FileType, StopType, CfgType
  <2>2. DownloaderType'  BY <1>4 DEF CreatePool, DownloaderType
  <2>3. TaskType'  BY <1>4 DEF CreatePool, TaskType
  <2>4. TasksMatchCfg'  BY <1>4 DEF CreatePool, TasksMatchCfg, Loaded
  <2>5. QED BY <2>1, <2>2, <2>3, <2>4
<1>5. CASE EnterSubmit
  <2>1. (FileType /\ StopType /\ CfgType)'
    BY <1>5 DEF EnterSubmit, FileType, StopType, CfgType
  <2>2. DownloaderType'  BY <1>5 DEF EnterSubmit, DownloaderType, Monitors
  <2>3. TaskType'  BY <1>5 DEF EnterSubmit, TaskType
  <2>4. TasksMatchCfg'  BY <1>5 DEF EnterSubmit, TasksMatchCfg, Loaded, DownloaderType
  <2>5. QED BY <2>1, <2>2, <2>3, <2>4
<1>6. CASE SubmitTask
  <2>1. (FileType /\ StopType /\ CfgType)'
    BY <1>6 DEF SubmitTask, FileType, StopType, CfgType
  <2>2. DownloaderType'  BY <1>6 DEF SubmitTask, DownloaderType, Rejected
  <2>3. TaskType'  BY <1>6 DEF SubmitTask, TaskType, TaskStates, Rejected
  <2>4. TasksMatchCfg'  BY <1>6 DEF SubmitTask, TasksMatchCfg, Loaded, DownloaderType, Rejected
  <2>5. QED BY <2>1, <2>2, <2>3, <2>4
<1>7. CASE OpenCfg
  <2>1. (FileType /\ StopType /\ CfgType)'
    BY <1>7 DEF OpenCfg, FileType, StopType, CfgType
  <2>2. DownloaderType'  BY <1>7 DEF OpenCfg, DownloaderType
  <2>3. TaskType'  BY <1>7 DEF OpenCfg, TaskType
  <2>4. TasksMatchCfg'  BY <1>7 DEF OpenCfg, TasksMatchCfg, Loaded
  <2>5. QED BY <2>1, <2>2, <2>3, <2>4
<1>8. CASE TakeCompleted
  <2>1. cur' \in Tasks /\ completed' \in Seq(Tasks)
    BY <1>8 DEF TakeCompleted, TaskType
  <2>2. Tasks \subseteq Nat  BY DEF TaskType, DownloaderType
  <2>3. (FileType /\ StopType)'  BY <1>8 DEF TakeCompleted, FileType, StopType
  <2>4. DownloaderType'  BY <1>8, <2>1, <2>2 DEF TakeCompleted, DownloaderType
  <2>5. TaskType'  BY <1>8, <2>1 DEF TakeCompleted, TaskType
  <2>6. download[cur'] \in Nat  BY <2>1 DEF TaskType
  <2>7. CfgType' /\ cfg'.kind = cfg.kind /\ cfg'.size = cfg.size /\ cfg'.n = cfg.n
    <3>1. CASE UNCHANGED cfg  BY <3>1 DEF CfgType
    <3>2. CASE cfg' = [cfg EXCEPT !.done[cur'] = download[cur']]
      BY <2>6, <3>2, CfgEntry
    <3>3. QED BY <1>8, <3>1, <3>2 DEF TakeCompleted
  <2>8. TasksMatchCfg'  BY <1>8, <2>1, <2>7 DEF TakeCompleted, TasksMatchCfg, Loaded
  <2>9. QED BY <2>3, <2>4, <2>5, <2>7, <2>8
<1>9. CASE Decide
  <2>1. (FileType /\ StopType /\ CfgType)'
    BY <1>9 DEF Decide, FileType, StopType, CfgType
  <2>2. DownloaderType'  BY <1>9 DEF Decide, DownloaderType, TasksMatchCfg
  <2>3. TaskType'  BY <1>9 DEF Decide, TaskType
  <2>4. TasksMatchCfg'  BY <1>9 DEF Decide, TasksMatchCfg, Loaded, DownloaderType
  <2>5. QED BY <2>1, <2>2, <2>3, <2>4
<1>10. CASE Resubmit
  <2>1. (FileType /\ StopType /\ CfgType)'
    BY <1>10 DEF Resubmit, FileType, StopType, CfgType
  <2>2. DownloaderType'  BY <1>10 DEF Resubmit, DownloaderType, Rejected
  <2>3. TaskType'  BY <1>10 DEF Resubmit, TaskType, TaskStates, Rejected
  <2>4. TasksMatchCfg'  BY <1>10 DEF Resubmit, TasksMatchCfg, Loaded, Rejected
  <2>5. QED BY <2>1, <2>2, <2>3, <2>4
<1>11. CASE ShutdownPool
  <2>1. (FileType /\ StopType /\ CfgType)'
    BY <1>11 DEF ShutdownPool, FileType, StopType, CfgType
  <2>2. DownloaderType'  BY <1>11 DEF ShutdownPool, DownloaderType
  <2>3. TaskType'  BY <1>11 DEF ShutdownPool, TaskType
  <2>4. TasksMatchCfg'  BY <1>11 DEF ShutdownPool, TasksMatchCfg, Loaded
  <2>5. QED BY <2>1, <2>2, <2>3, <2>4
<1>12. CASE Finish
  <2>1. (FileType /\ StopType)'
    BY <1>12 DEF Finish, FileType, StopType
  <2>2. DownloaderType'  BY <1>12 DEF Finish, DownloaderType
  <2>3. TaskType'  BY <1>12 DEF Finish, TaskType
  <2>4. TasksMatchCfg'  BY <1>12 DEF Finish, TasksMatchCfg, Loaded
  <2>5. CfgType'
    <3>1. CASE UNCHANGED cfg  BY <3>1 DEF CfgType
    <3>2. CASE cfg' = NoCfg  BY <3>2 DEF NoCfg, CfgType
    <3>3. QED BY <1>12, <3>1, <3>2 DEF Finish
  <2>6. QED BY <2>1, <2>2, <2>3, <2>4, <2>5
<1>13. CASE SaveDownloadCfg
  <2>1. (FileType /\ StopType)'  BY <1>13 DEF SaveDownloadCfg, FileType, StopType
  <2>2. DownloaderType'  BY <1>13 DEF SaveDownloadCfg, DownloaderType
  <2>3. TaskType'  BY <1>13 DEF SaveDownloadCfg, TaskType
  <2>4. DOMAIN cfg.done = Tasks
    BY <1>13 DEF SaveDownloadCfg, TasksMatchCfg, Loaded, CfgType
  <2>5. CfgType'
    <3>1. PICK k \in 0..tc :
            cfg' = [cfg EXCEPT !.done = [i \in DOMAIN cfg.done |->
                                          IF i < k THEN download[i] ELSE cfg.done[i]]]
      BY <1>13 DEF SaveDownloadCfg
    <3>2. [i \in DOMAIN cfg.done |-> IF i < k THEN download[i] ELSE cfg.done[i]]
            \in [0..cfg.n-1 -> Nat]
      BY <2>4 DEF CfgType, TaskType
    <3>3. QED BY <3>1, <3>2, CfgReplace
  <2>6. TasksMatchCfg'  BY <1>13 DEF SaveDownloadCfg, TasksMatchCfg, Loaded
  <2>7. QED BY <2>1, <2>2, <2>3, <2>5, <2>6
<1>14. QED
  BY <1>1, <1>2, <1>3, <1>4, <1>5, <1>6, <1>7, <1>8, <1>9, <1>10, <1>11, <1>12,
     <1>13 DEF Downloader

LEMMA TypeTask == ASSUME TypeInv, NEW i \in Tasks, Task(i) \/ TaskError(i) PROVE TypeInv'
<1> USE DEF TypeInv, TypeOK, dlVars, stopVars, Complete
<1>1. size \in Nat /\ StartPos(i) \in Nat /\ EndPos(i) \in Int  BY StartPosType
<1>2. ASSUME file' = file, download' = download, Complete(i), UNCHANGED <<off, lim, late>>,
             failures' \in Nat,
             UNCHANGED <<cfg, dlVars, pool, flag, held, stopVars, runs, raced>>
      PROVE  TypeInv'
  <2>1. (FileType /\ CfgType /\ StopType)'  BY <1>2 DEF FileType, CfgType, StopType
  <2>2. DownloaderType'  BY <1>2 DEF DownloaderType
  <2>3. TaskType'  BY <1>2 DEF TaskType, TaskStates, Tasks
  <2>4. TasksMatchCfg'  BY <1>2 DEF TasksMatchCfg, Tasks
  <2>5. QED BY <2>1, <2>2, <2>3, <2>4
<1>3. ASSUME UNCHANGED <<file, cfg, dlVars, download, late, pool, flag, held, stopVars,
                         runs, failures, raced, completed>>,
             off' \in [Tasks -> Nat], lim' \in [Tasks -> Nat], st' \in [Tasks -> TaskStates]
      PROVE  TypeInv'
  <2>1. (FileType /\ CfgType /\ StopType)'  BY <1>3 DEF FileType, CfgType, StopType
  <2>2. DownloaderType'  BY <1>3 DEF DownloaderType
  <2>3. TaskType'  BY <1>3 DEF TaskType, Tasks
  <2>4. TasksMatchCfg'  BY <1>3 DEF TasksMatchCfg, Tasks
  <2>5. QED BY <2>1, <2>2, <2>3, <2>4
<1>4. CASE TaskBegin(i)  BY <1>3, <1>4 DEF TaskBegin, TaskType, TaskStates
<1>5. CASE TaskConnect(i)
  <2>1. CASE /\ RangeKind(i) = "valid" /\ StartPos(i) < size
             /\ off' = [off EXCEPT ![i] = StartPos(i)]
             /\ lim' = [lim EXCEPT ![i] = Min({EndPos(i) + 1, size})]
             /\ st' = [st EXCEPT ![i] = "reading"]
             /\ UNCHANGED completed
    <3>1. StartPos(i) <= EndPos(i)  BY <2>1 DEF RangeKind
    <3>2. Min({EndPos(i) + 1, size}) \in {EndPos(i) + 1, size}
      <4>1. EndPos(i) + 1 \in Int /\ size \in Int  BY <1>1
      <4>2. QED BY ONLY <4>1, MinPair
    <3>3. Min({EndPos(i) + 1, size}) \in Nat  BY <1>1, <3>1, <3>2
    <3>4. QED BY <1>1, <1>3, <1>5, <2>1, <3>3 DEF TaskConnect, TaskType, TaskStates
  <2>2. CASE /\ off' = [off EXCEPT ![i] = 0]
             /\ lim' = [lim EXCEPT ![i] = size]
             /\ st' = [st EXCEPT ![i] = "reading"]
             /\ UNCHANGED completed
    BY <1>1, <1>3, <1>5, <2>2 DEF TaskConnect, TaskType, TaskStates
  <2>3. CASE Complete(i) /\ UNCHANGED <<off, lim>>
    BY <1>2, <1>5, <2>3 DEF TaskConnect, TaskType
  <2>4. QED BY <1>5, <2>1, <2>2, <2>3 DEF TaskConnect
<1>6. CASE TaskError(i)  BY <1>2, <1>6 DEF TaskError, TaskType
<1>7. CASE TaskRead(i)
  <2>1. PICK k \in 1..Min({Chunk, lim[i] - off[i]}) :
          /\ file' = WriteAt(file, StartPos(i), size, off[i], k)
          /\ download' = [download EXCEPT ![i] = @ + k]
          /\ off' = [off EXCEPT ![i] = @ + k]
    BY <1>7 DEF TaskRead
  <2>2. off[i] \in Nat /\ lim[i] \in Nat  BY DEF TaskType
  <2>3. k \in Nat
    <3>1. Min({Chunk, lim[i] - off[i]}) \in Int
      <4>1. Chunk \in Int /\ lim[i] - off[i] \in Int  BY <2>2
      <4>2. QED BY ONLY <4>1, MinPair
    <3>2. QED BY <3>1
  <2>4. FileType'  BY <1>1, <2>1, <2>2, <2>3, WriteType
  <2>5. (CfgType /\ StopType)'  BY <1>7 DEF TaskRead, CfgType, StopType
  <2>6. DownloaderType'  BY <1>7 DEF TaskRead, DownloaderType
  <2>7. TaskType'
    <3>1. download' \in [Tasks -> Nat] /\ off' \in [Tasks -> Nat]
      BY <2>1, <2>3 DEF TaskType
    <3>2. Tasks' = Tasks  BY <3>1 DEF Tasks
    <3>3. st' \in [Tasks -> TaskStates]  BY <1>7 DEF TaskRead, TaskType, TaskStates
    <3>4. late' \in [Tasks -> Nat]  BY <1>7 DEF TaskRead, TaskType
    <3>5. UNCHANGED <<lim, completed, failures, tc>>  BY <1>7 DEF TaskRead
    <3>6. QED BY <3>1, <3>2, <3>3, <3>4, <3>5 DEF TaskType
  <2>8. TasksMatchCfg'  BY <1>7, <2>1 DEF TaskRead, TasksMatchCfg, Tasks
  <2>9. QED BY <2>4, <2>5, <2>6, <2>7, <2>8
<1>8. CASE TaskCheck(i)
  <2>1. CASE flag = "TRUE"  BY <1>2, <1>8, <2>1 DEF TaskCheck, TaskType
  <2>2. CASE flag # "TRUE"  BY <1>3, <1>8, <2>2 DEF TaskCheck, TaskType, TaskStates
  <2>3. QED BY <2>1, <2>2
<1>9. CASE TaskEnd(i)  BY <1>2, <1>9 DEF TaskEnd, TaskType
<1>10. QED BY <1>4, <1>5, <1>6, <1>7, <1>8, <1>9 DEF Task

LEMMA TypeStop == TypeInv /\ (StopCall \/ Stop) => TypeInv'
<1> SUFFICES ASSUME TypeInv, StopCall \/ Stop PROVE TypeInv'
  OBVIOUS
<1> USE DEF TypeInv, TypeOK
<1>1. /\ UNCHANGED <<file, cfg, dlVars, download, off, lim, late, completed, held, runs,
                     failures>>
      /\ flag' \in {flag, "TRUE"} /\ pool' \in {pool, "stop"}
      /\ pool = "null" => pool' = "null"
  BY DEF StopCall, Stop, StopEnter, StopIterate, StopNext, StopShutdown, taskVars
<1>2. st' \in [Tasks -> TaskStates]
  <2>1. CASE UNCHANGED st  BY <2>1 DEF TaskType
  <2>2. CASE st' = [st EXCEPT ![iter[1]] = IF @ = "reading" THEN "broken" ELSE @]
    BY <2>2 DEF TaskType, TaskStates
  <2>3. CASE st' = [i \in Tasks |-> IF st[i] = "queued" THEN "dropped" ELSE st[i]]
    BY <2>3 DEF TaskType, TaskStates
  <2>4. QED BY <2>1, <2>2, <2>3 DEF StopCall, Stop, StopEnter, StopIterate, StopNext,
                                    StopShutdown, taskVars
<1>3. StopType'
  <2>1. Cardinality(Tasks) \in Nat  BY TasksCardinality
  <2>2. flag \in Monitors  BY DEF DownloaderType
  <2>3. CASE StopCall  BY <2>2, <2>3 DEF StopCall, StopType
  <2>4. CASE StopEnter  BY <2>4 DEF StopEnter, StopType
  <2>5. CASE StopIterate  BY <2>1, <2>5 DEF StopIterate, StopType
  <2>6. CASE StopNext  BY <2>6 DEF StopNext, StopType
  <2>7. CASE StopShutdown  BY <2>7 DEF StopShutdown, StopType
  <2>8. QED BY <2>3, <2>4, <2>5, <2>6, <2>7 DEF Stop
<1>4. (FileType /\ CfgType)'  BY <1>1 DEF FileType, CfgType
<1>5. DownloaderType'  BY <1>1 DEF DownloaderType, dlVars, Monitors
<1>6. TaskType'  BY <1>1, <1>2 DEF TaskType, Tasks, dlVars
<1>7. TasksMatchCfg'  BY <1>1 DEF TasksMatchCfg, Tasks, dlVars
<1>8. QED BY <1>3, <1>4, <1>5, <1>6, <1>7

LEMMA TypeRestart == TypeInv /\ Restart => TypeInv'
<1> SUFFICES ASSUME TypeInv, Restart PROVE TypeInv'
  OBVIOUS
<1> USE DEF TypeInv, TypeOK, Restart
<1>1. (FileType /\ CfgType)'  BY DEF FileType, CfgType
<1>2. DownloaderType'
  <2>1. tc' \in Nat \ {0} /\ runs' \in Nat  BY DEF DownloaderType
  <2>2. redo' \in BOOLEAN  OBVIOUS
  <2>3. QED BY <2>1, <2>2 DEF DownloaderType, Monitors
<1>3. TaskType'  BY DEF TaskType, NoTasks, Tasks
<1>4. StopType'  BY DEF StopType
<1>5. TasksMatchCfg'  BY DEF TasksMatchCfg, Loaded, NoTasks, Tasks
<1>6. QED BY <1>1, <1>2, <1>3, <1>4, <1>5

LEMMA TypeStep == TypeInv /\ [Next]_vars => TypeInv'
<1> SUFFICES ASSUME TypeInv, [Next]_vars PROVE TypeInv'
  OBVIOUS
<1>1. CASE Reset
  <2> USE <1>1 DEF Reset, TypeInv, TypeOK, taskVars, stopVars
  <2>1. (FileType /\ CfgType)'  BY DEF FileType, CfgType
  <2>2. DownloaderType'  BY DEF DownloaderType, Monitors
  <2>3. TaskType'  BY DEF TaskType, Tasks
  <2>4. StopType'
    <3>1. raced' \in BOOLEAN  OBVIOUS
    <3>2. QED BY <3>1 DEF StopType
  <2>5. TasksMatchCfg'  BY DEF TasksMatchCfg, Tasks, Loaded
  <2>6. QED BY <2>1, <2>2, <2>3, <2>4, <2>5
<1>2. CASE Downloader  BY <1>2, TypeDownloader
<1>3. CASE Interrupted
  <2> USE <1>3 DEF Interrupted, Return, TypeInv, TypeOK, taskVars, stopVars
  <2>1. (FileType /\ CfgType /\ StopType)'  BY DEF FileType, CfgType, StopType
  <2>2. DownloaderType'  BY DEF DownloaderType
  <2>3. TaskType'  BY DEF TaskType, Tasks
  <2>4. TasksMatchCfg'  BY DEF TasksMatchCfg, Tasks, Loaded
  <2>5. QED BY <2>1, <2>2, <2>3, <2>4
<1>4. CASE \E i \in Tasks : Task(i) \/ TaskError(i)  BY <1>4, TypeTask
<1>5. CASE StopCall \/ Stop  BY <1>5, TypeStop
<1>6. CASE Crash \/ NextRun  BY <1>6, TypeRestart DEF Crash, NextRun
<1>7. CASE UNCHANGED vars
  <2> USE <1>7 DEF vars, dlVars, taskVars, stopVars, TypeInv, TypeOK
  <2>1. (FileType /\ CfgType /\ StopType)'  BY DEF FileType, CfgType, StopType
  <2>2. DownloaderType'  BY DEF DownloaderType
  <2>3. TaskType'  BY DEF TaskType, Tasks
  <2>4. TasksMatchCfg'  BY DEF TasksMatchCfg, Tasks
  <2>5. QED BY <2>1, <2>2, <2>3, <2>4
<1>8. QED BY <1>1, <1>2, <1>3, <1>4, <1>5, <1>6, <1>7 DEF Next

\* The types hold in every reachable state, and the tasks always agree with the
\* ".download" file in number and length while download() works on them.
THEOREM TypeCorrect == Spec => [](TypeOK /\ TasksMatchCfg)
<1>1. Init => TypeInv  BY TypeInit
<1>2. TypeInv /\ [Next]_vars => TypeInv'  BY TypeStep
<1>3. TypeInv => TypeOK /\ TasksMatchCfg  BY DEF TypeInv
<1>4. QED BY <1>1, <1>2, <1>3, PTL DEF Spec

-------------------------------------------------------------------------------
(* Submission and stop(): who may find the pool shut down.                   *)

\* What the monitors guarantee unless a stop() straddles the reset of stopFlag:
\* a stop() past its synchronized block, and a pool it shut down, imply TRUE;
\* one that waits for a monitor waits for FALSE, or TRUE is already set; and
\* FALSE is held, and the flag FALSE, wherever tasks are submitted.
MonitorInv ==
  /\ pc = "idle" => ~raced
  /\ pc # "idle" => flag \in {"FALSE", "TRUE"}
  /\ pc \in {"submit", "resubmit"} => held = "FALSE"
  /\ ~raced =>
       /\ spc \in {"iterate", "next", "shut"} => flag = "TRUE"
       /\ pool = "stop" => flag = "TRUE"
       /\ spc = "enter" /\ pc # "idle" => want = "FALSE" \/ flag = "TRUE"
       /\ pc \in {"submit", "resubmit"} => flag = "FALSE"
       /\ result # "rejected"

LEMMA MonitorInit == Init => MonitorInv
BY DEF Init, MonitorInv

LEMMA MonitorStep == TypeInv /\ MonitorInv /\ [Next]_vars => MonitorInv'
<1> SUFFICES ASSUME TypeInv, MonitorInv, [Next]_vars PROVE MonitorInv'
  OBVIOUS
<1> USE DEF MonitorInv, Return, dlVars, stopVars
<1>1. CASE Reset
  <2>1. pool' = "null" /\ pc' = "connect" /\ flag' = "FALSE" /\ result' # "rejected"
    BY <1>1 DEF Reset, TypeInv, TasksMatchCfg
  <2>2. ~raced' => spc' = "idle"  BY <1>1 DEF Reset
  <2>3. QED BY <2>1, <2>2
<1>2. CASE Downloader
  <2>1. CASE CreateLocalFile  BY <2>1 DEF CreateLocalFile
  <2>2. CASE CreateDownloadCfg  BY <2>2 DEF CreateDownloadCfg
  <2>3. CASE ParseDownloadCfg  BY <2>3 DEF ParseDownloadCfg, LoadTasks
  <2>4. CASE CreatePool  BY <2>4 DEF CreatePool
  <2>5. CASE EnterSubmit  BY <2>5 DEF EnterSubmit
  <2>6. CASE SubmitTask  BY <2>6 DEF SubmitTask, Rejected
  <2>7. CASE OpenCfg  BY <2>7 DEF OpenCfg
  <2>8. CASE TakeCompleted  BY <2>8 DEF TakeCompleted
  <2>9. CASE Decide  BY <2>9 DEF Decide
  <2>10. CASE Resubmit  BY <2>10 DEF Resubmit, Rejected
  <2>11. CASE ShutdownPool  BY <2>11 DEF ShutdownPool
  <2>12. CASE Finish  BY <2>12 DEF Finish
  <2>13. CASE SaveDownloadCfg  BY <2>13 DEF SaveDownloadCfg
  <2>14. QED
    BY <1>2, <2>1, <2>2, <2>3, <2>4, <2>5, <2>6, <2>7, <2>8, <2>9, <2>10, <2>11,
       <2>12, <2>13 DEF Downloader
<1>3. CASE Interrupted  BY <1>3 DEF Interrupted
<1>4. CASE \E i \in Tasks : Task(i) \/ TaskError(i)
  <2>1. UNCHANGED <<dlVars, flag, held, pool, stopVars, raced>>
    BY <1>4 DEF Task, TaskBegin, TaskConnect, TaskRead, TaskCheck, TaskEnd, TaskError
  <2>2. QED BY <2>1
<1>5. CASE StopCall  BY <1>5 DEF StopCall
<1>6. CASE Stop
  <2>1. CASE StopEnter  BY <2>1 DEF StopEnter
  <2>2. CASE StopIterate  BY <2>2 DEF StopIterate
  <2>3. CASE StopNext  BY <2>3 DEF StopNext
  <2>4. CASE StopShutdown  BY <2>4 DEF StopShutdown
  <2>5. QED BY <1>6, <2>1, <2>2, <2>3, <2>4 DEF Stop
<1>7. CASE Crash \/ NextRun  BY <1>7 DEF Crash, NextRun, Restart
<1>8. CASE UNCHANGED vars  BY <1>8 DEF vars
<1>9. QED BY <1>1, <1>2, <1>3, <1>4, <1>5, <1>6, <1>7, <1>8 DEF Next

\* download() is ended by a rejected submission only if a stop() was under way
\* when it reset stopFlag.
THEOREM SubmissionsOrdered == Spec => []RejectionNeedsRace
<1>1. Init => TypeInv /\ MonitorInv  BY TypeInit, MonitorInit
<1>2. TypeInv /\ MonitorInv /\ [Next]_vars => (TypeInv /\ MonitorInv)'
  BY TypeStep, MonitorStep
<1>3. MonitorInv => RejectionNeedsRace  BY DEF MonitorInv, RejectionNeedsRace
<1>4. QED BY <1>1, <1>2, <1>3, PTL DEF Spec

-------------------------------------------------------------------------------
(* The bytes on disk: what a task or the ".download" file counts is written. *)

\* With one entity, what each task has counted and what the ".download" file
\* records is written.
BytesInv ==
  /\ cfg.kind = "ok" => cfg.size \in Sizes /\ cfg.size > 0
  /\ Tasks # {} \/ pc \in {"config", "parse"} => size \in Sizes
  /\ \A i \in Tasks : Covered(Start(size, tc, i), download[i], size)
  /\ Recorded

LEMMA BytesInit == Init => BytesInv
<1> SUFFICES ASSUME Init PROVE BytesInv
  OBVIOUS
<1>1. Tasks = {}  BY DEF Init, NoTasks, Tasks
<1>2. QED BY <1>1 DEF Init, BytesInv, Recorded, NoCfg

\* Nothing has to be written for a count of 0.
LEMMA CoveredZero ==
  ASSUME NEW a \in Int, NEW l PROVE Covered(a, 0, l)
BY DEF Covered

\* A step that leaves every written byte below l written keeps it covered.
LEMMA CoveredKept ==
  ASSUME NEW a \in Int, NEW d \in Int, NEW l \in Int, Covered(a, d, l),
         \A p \in DOMAIN file : p < l /\ file[p] # Zero =>
                                p \in DOMAIN file' /\ file'[p] # Zero
  PROVE  Covered(a, d, l)'
BY DEF Covered

\* A write leaves what was written written, and extends what is covered when it
\* starts where the covered positions end.
LEMMA CoveredWrite ==
  ASSUME FileType, NEW pos \in Nat, NEW s \in Nat \ {0}, NEW q \in Nat, NEW k \in Nat,
         file' = WriteAt(file, pos, s, q, k)
  PROVE  /\ \A p \in DOMAIN file : file[p] # Zero =>
                                   p \in DOMAIN file' /\ file'[p] # Zero
         /\ \A p \in pos..pos+k-1 : p \in DOMAIN file' /\ file'[p] # Zero
<1>1. DOMAIN file' = DOMAIN file \union 0..pos+k-1  BY DEF WriteAt
<1>2. \A x : EntityByte(s, x) # Zero  BY DEF EntityByte, Zero
<1>3. QED BY <1>1, <1>2 DEF WriteAt

\* A step that touches neither the file, the ".download" file nor the tasks.
LEMMA BytesFrame ==
  ASSUME BytesInv, UNCHANGED <<file, cfg, download, tc, size>>,
         pc' \in {"config", "parse"} => pc \in {"config", "parse"}
  PROVE  BytesInv'
BY DEF BytesInv, Recorded, Covered, Tasks

\* Replacing the ".download" file by a new one, a torn one or none.
LEMMA BytesNewCfg ==
  ASSUME BytesInv, TypeInv, pc \in {"config", "parse"}, file' = file,
         cfg' \in CreatedCfg(size, tc)
  PROVE  (cfg.kind = "ok" => cfg.size \in Sizes /\ cfg.size > 0)' /\ Recorded'
<1>1. CASE cfg' = NewCfg(size, tc)
  <2>1. size \in Sizes /\ size \in Nat /\ size > 0 /\ tc \in Nat \ {0}
    BY DEF BytesInv, TypeInv, TypeOK, TasksMatchCfg, DownloaderType
  <2>2. /\ cfg'.kind = "ok" /\ cfg'.size = size /\ cfg'.n = tc
        /\ cfg'.done = [i \in 0..tc-1 |-> 0]
    BY <1>1 DEF NewCfg
  <2>3. ASSUME NEW i \in 0..tc-1 PROVE Covered(Start(size, tc, i), 0, size)
    <3>1. Start(size, tc, i) \in Int  BY <2>1, BlockType
    <3>2. QED BY <3>1, CoveredZero
  <2>4. ASSUME NEW i \in DOMAIN cfg'.done
        PROVE  Covered(Start(cfg.size, cfg.n, i), cfg.done[i], cfg.size)'
    BY <2>2, <2>3 DEF Covered
  <2>5. QED BY <2>1, <2>2, <2>4 DEF Recorded
<1>2. CASE cfg' \in {TornCfg, NoCfg}
  BY <1>2 DEF Recorded, TornCfg, NoCfg
<1>3. QED BY <1>1, <1>2 DEF CreatedCfg

LEMMA BytesDownloader ==
  ASSUME OneEntity, TypeInv, BytesInv, Downloader
  PROVE  BytesInv'
<1>1. CASE CreateLocalFile
  <2>1. UNCHANGED <<cfg, download, tc>> /\ Tasks = {}
    BY <1>1 DEF CreateLocalFile, taskVars, TypeInv, TasksMatchCfg
  <2>2. CASE UNCHANGED file
    <3>1. pc' # "parse" /\ (pc' = "config" => size' \in Sizes)
      BY <1>1 DEF CreateLocalFile, Return
    <3>2. QED BY <2>1, <2>2, <3>1 DEF BytesInv, Recorded, Covered, Tasks
  <2>3. ASSUME NEW s \in Sizes, s > 0, size' = s, file' = SetLength(file, s)
        PROVE  BytesInv'
    <3>1. ASSUME cfg.kind = "ok", NEW i \in DOMAIN cfg.done
          PROVE  Covered(Start(cfg.size, cfg.n, i), cfg.done[i], cfg.size)'
      <4>1. cfg.size = s  BY <2>3, <3>1 DEF BytesInv, OneEntity
      <4>2. /\ Covered(Start(cfg.size, cfg.n, i), cfg.done[i], cfg.size)
            /\ cfg.n \in Nat \ {0} /\ i \in Nat /\ cfg.done[i] \in Int /\ cfg.size \in Nat
        BY <3>1 DEF BytesInv, Recorded, TypeInv, TypeOK, CfgType
      <4>3. Start(cfg.size, cfg.n, i) \in Nat  BY ONLY <4>2, BlockType
      <4>4. \A p \in DOMAIN file : p < s /\ file[p] # Zero =>
                                   p \in DOMAIN file' /\ file'[p] # Zero
        BY <2>3 DEF SetLength, TypeInv, TypeOK, FileType
      <4>5. \A a, d \in Int : Covered(a, d, s) => Covered(a, d, s)'
        BY <4>4, CoveredKept
      <4>6. QED BY <2>1, <4>1, <4>2, <4>3, <4>5
    <3>2. Recorded'  BY <2>1, <3>1 DEF Recorded
    <3>3. QED BY <2>1, <2>3, <3>2 DEF BytesInv, Tasks
  <2>4. QED BY <1>1, <2>2, <2>3 DEF CreateLocalFile
<1>2. CASE CreateDownloadCfg
  <2>1. /\ UNCHANGED <<file, download, tc, size>> /\ Tasks = {} /\ pc = "config"
        /\ size \in Sizes
    BY <1>2 DEF CreateDownloadCfg, taskVars, TypeInv, TasksMatchCfg, BytesInv
  <2>2. CASE UNCHANGED cfg  BY <2>1, <2>2, BytesFrame
  <2>3. CASE cfg' \in CreatedCfg(size, tc)
    BY <2>1, <2>3, BytesNewCfg DEF BytesInv, Tasks
  <2>4. QED BY <1>2, <2>2, <2>3 DEF CreateDownloadCfg
<1>3. CASE ParseDownloadCfg
  <2>1. /\ UNCHANGED <<file, size>> /\ Tasks = {} /\ pc = "parse"
        /\ size \in Sizes
    BY <1>3 DEF ParseDownloadCfg, TypeInv, TasksMatchCfg, BytesInv
  <2>2. CASE Return("false") /\ UNCHANGED <<cfg, tc, taskVars>>
    BY <2>1, <2>2, BytesFrame DEF Return, taskVars
  <2>3. CASE Return("false") /\ cfg' \in CreatedCfg(size, tc) /\ UNCHANGED <<tc, taskVars>>
    BY <2>1, <2>3, BytesNewCfg DEF Return, BytesInv, Tasks, taskVars
  <2>4. CASE LoadTasks(cfg') /\ cfg'.kind = "ok" /\ cfg'.size = size
             /\ (UNCHANGED cfg \/ cfg' \in CreatedCfg(size, tc))
    <3>1. Recorded' /\ (cfg.kind = "ok" => cfg.size \in Sizes /\ cfg.size > 0)'
      <4>1. CASE UNCHANGED cfg
        BY <2>1, <4>1 DEF BytesInv, Recorded, Covered
      <4>2. CASE cfg' \in CreatedCfg(size, tc)  BY <2>1, <4>2, BytesNewCfg
      <4>3. QED BY <2>4, <4>1, <4>2
    <3>2. tc' = cfg'.n /\ download' = cfg'.done /\ size' = cfg'.size
      BY <2>1, <2>4 DEF LoadTasks
    <3>3. (\A i \in Tasks : Covered(Start(size, tc, i), download[i], size))'
      BY <2>4, <3>1, <3>2 DEF Recorded, Tasks
    <3>4. QED BY <2>1, <3>1, <3>3 DEF BytesInv
  <2>5. QED
    BY <1>3, <2>2, <2>3, <2>4 DEF ParseDownloadCfg, CreatedCfg, NewCfg, TornCfg, NoCfg
<1>4. CASE TakeCompleted
  <2>1. /\ UNCHANGED <<file, download, tc, size>> /\ pc' \in {"decide", "finish"}
        /\ cur' \in Tasks
    BY <1>4 DEF TakeCompleted, taskVars, TypeInv, TypeOK, TaskType
  <2>2. CASE UNCHANGED cfg  BY <2>1, <2>2, BytesFrame
  <2>3. CASE cfg' = [cfg EXCEPT !.done[cur'] = download[cur']]
    <3>1. CfgType /\ download[cur'] \in Nat
      BY <2>1 DEF TypeInv, TypeOK, TaskType
    <3>2. /\ cfg'.kind = cfg.kind /\ cfg'.size = cfg.size /\ cfg'.n = cfg.n
          /\ cfg'.done = [cfg.done EXCEPT ![cur'] = download[cur']]
      BY <2>3, <3>1, CfgEntry
    <3>3. cfg.size = size /\ cfg.n = tc
      BY <1>4 DEF TakeCompleted, TypeInv, TasksMatchCfg, Loaded
    <3>4. Recorded'
      BY <2>1, <3>1, <3>2, <3>3 DEF BytesInv, Recorded, Covered, CfgType
    <3>5. QED BY <2>1, <3>2, <3>4 DEF BytesInv, Covered, Tasks
  <2>4. QED BY <1>4, <2>2, <2>3 DEF TakeCompleted
<1>5. CASE Finish
  <2>1. UNCHANGED <<file, download, tc, size>> /\ pc' \in {"save", "returned"}
    BY <1>5 DEF Finish, taskVars, Return
  <2>2. CASE UNCHANGED cfg  BY <2>1, <2>2, BytesFrame
  <2>3. CASE cfg' = NoCfg
    BY <2>1, <2>3 DEF NoCfg, BytesInv, Recorded, Covered, Tasks
  <2>4. QED BY <1>5, <2>2, <2>3 DEF Finish
<1>6. CASE SaveDownloadCfg
  <2>1. UNCHANGED <<file, download, tc, size>> /\ pc' = "returned"
    BY <1>6 DEF SaveDownloadCfg, taskVars, Return
  <2>2. PICK k \in 0..tc :
          cfg' = [cfg EXCEPT !.done = [i \in DOMAIN cfg.done |->
                                        IF i < k THEN download[i] ELSE cfg.done[i]]]
    BY <1>6 DEF SaveDownloadCfg
  <2>3. cfg.size = size /\ cfg.n = tc /\ DOMAIN cfg.done = Tasks /\ CfgType
    BY <1>6 DEF SaveDownloadCfg, TypeInv, TypeOK, TasksMatchCfg, Loaded, CfgType
  <2>4. [i \in DOMAIN cfg.done |-> IF i < k THEN download[i] ELSE cfg.done[i]]
          \in [0..cfg.n-1 -> Nat]
    BY <2>3 DEF CfgType, TypeInv, TypeOK, TaskType
  <2>5. /\ cfg'.kind = cfg.kind /\ cfg'.size = cfg.size /\ cfg'.n = cfg.n
        /\ cfg'.done = [i \in DOMAIN cfg.done |->
                          IF i < k THEN download[i] ELSE cfg.done[i]]
    BY <2>2, <2>3, <2>4, CfgReplace
  <2>6. Recorded'
    BY <2>1, <2>3, <2>5 DEF BytesInv, Recorded, Covered
  <2>7. QED BY <2>1, <2>5, <2>6 DEF BytesInv, Covered, Tasks
<1>7. CASE CreatePool \/ EnterSubmit \/ SubmitTask \/ OpenCfg \/ Decide \/ Resubmit
           \/ ShutdownPool
  <2>1. /\ UNCHANGED <<file, cfg, download, tc, size>>
        /\ pc' \notin {"config", "parse"}
    BY <1>7 DEF CreatePool, EnterSubmit, SubmitTask, OpenCfg, Decide, Resubmit,
                ShutdownPool, Rejected, Return, taskVars
  <2>2. QED BY <2>1, BytesFrame
<1>8. QED BY <1>1, <1>2, <1>3, <1>4, <1>5, <1>6, <1>7 DEF Downloader

LEMMA BytesTask ==
  ASSUME TypeInv, BytesInv, NEW i \in Tasks, Task(i) \/ TaskError(i)
  PROVE  BytesInv'
<1>1. CASE TaskRead(i)
  <2>1. PICK k \in 1..Min({Chunk, lim[i] - off[i]}) :
          /\ file' = WriteAt(file, StartPos(i), size, off[i], k)
          /\ download' = [download EXCEPT ![i] = @ + k]
          /\ off' = [off EXCEPT ![i] = @ + k]
    BY <1>1 DEF TaskRead
  <2>2. /\ off[i] \in Nat /\ lim[i] \in Nat /\ download \in [Tasks -> Nat]
        /\ Tasks \subseteq Nat /\ tc \in Nat \ {0} /\ FileType /\ size \in Nat \ {0}
    BY DEF TypeInv, TypeOK, TaskType, DownloaderType, TasksMatchCfg
  <2>3. k \in Nat
    <3>1. Min({Chunk, lim[i] - off[i]}) \in Int
      <4>1. Chunk \in Int /\ lim[i] - off[i] \in Int  BY <2>2
      <4>2. QED BY ONLY <4>1, MinPair
    <3>2. QED BY <3>1
  <2>4. StartPos(i) \in Nat  BY StartPosType
  <2>5. /\ \A p \in DOMAIN file : file[p] # Zero => p \in DOMAIN file' /\ file'[p] # Zero
        /\ \A p \in StartPos(i)..StartPos(i)+k-1 : p \in DOMAIN file' /\ file'[p] # Zero
    BY <2>1, <2>2, <2>3, <2>4, CoveredWrite
  <2>6. \A a, d, l \in Int : Covered(a, d, l) => Covered(a, d, l)'
    BY <2>5, CoveredKept
  <2>7. UNCHANGED <<cfg, tc, size, pc>>  BY <1>1 DEF TaskRead, dlVars
  <2>8. ASSUME NEW j \in Tasks
        PROVE  (Covered(Start(size, tc, j), download[j], size))'
    <3>1. Start(size, tc, j) \in Nat /\ download[j] \in Nat  BY <2>2, BlockType
    <3>2. ASSUME NEW p \in Start(size, tc, j)..Start(size, tc, j)+download[j]-1, p < size
          PROVE  p \in DOMAIN file' /\ file'[p] # Zero
      BY <2>5, <3>2 DEF BytesInv, Covered
    <3>3. CASE j # i
      <4>1. download'[j] = download[j]  BY <2>1, <2>2, <3>3
      <4>2. QED BY <2>7, <3>2, <4>1 DEF Covered, Start, BlockSize
    <3>4. CASE j = i
      <4>1. download'[j] = download[j] + k  BY <2>1, <2>2, <3>4
      <4>2. StartPos(i) = Start(size, tc, j) + download[j]  BY <3>4 DEF StartPos
      <4>3. ASSUME NEW p \in Start(size, tc, j)..Start(size, tc, j)+(download[j]+k)-1,
                   p < size
            PROVE  p \in DOMAIN file' /\ file'[p] # Zero
        <5>1. CASE p < Start(size, tc, j)+download[j]  BY <3>1, <3>2, <4>3, <5>1
        <5>2. CASE p >= StartPos(i)  BY <2>3, <2>5, <3>1, <4>2, <4>3, <5>2
        <5>3. QED BY <3>1, <4>2, <4>3, <5>1, <5>2
      <4>4. QED BY <2>7, <4>1, <4>3 DEF Covered, Start, BlockSize
    <3>5. QED BY <3>3, <3>4
  <2>9. Recorded'
    <3>1. SUFFICES ASSUME cfg.kind = "ok", NEW j \in DOMAIN cfg.done
                   PROVE  Covered(Start(cfg.size, cfg.n, j), cfg.done[j], cfg.size)'
      BY <2>7 DEF Recorded
    <3>2. /\ Covered(Start(cfg.size, cfg.n, j), cfg.done[j], cfg.size)
          /\ cfg.n \in Nat \ {0} /\ j \in Nat /\ cfg.done[j] \in Int /\ cfg.size \in Nat
      BY <3>1 DEF BytesInv, Recorded, TypeInv, TypeOK, CfgType
    <3>3. Start(cfg.size, cfg.n, j) \in Nat  BY ONLY <3>2, BlockType
    <3>4. QED BY <2>6, <2>7, <3>2, <3>3
  <2>10. Tasks' = Tasks  BY <2>1, <2>2 DEF Tasks
  <2>11. QED BY <2>7, <2>8, <2>9, <2>10 DEF BytesInv
<1>2. CASE ~TaskRead(i)
  <2>1. UNCHANGED <<file, cfg, download, tc, size, pc>>
    BY <1>2 DEF Task, TaskBegin, TaskConnect, TaskCheck, TaskEnd, TaskError, dlVars
  <2>2. QED BY <2>1, BytesFrame
<1>3. QED BY <1>1, <1>2

LEMMA BytesStep == OneEntity /\ TypeInv /\ BytesInv /\ [Next]_vars => BytesInv'
<1> SUFFICES ASSUME OneEntity, TypeInv, BytesInv, [Next]_vars PROVE BytesInv'
  OBVIOUS
<1>1. CASE Downloader  BY <1>1, BytesDownloader
<1>2. CASE \E i \in Tasks : Task(i) \/ TaskError(i)  BY <1>2, BytesTask
<1>3. CASE Reset \/ Interrupted \/ StopCall \/ Stop \/ UNCHANGED vars
  <2>1. /\ UNCHANGED <<file, cfg, download, tc, size>>
        /\ pc' \in {"config", "parse"} => pc \in {"config", "parse"}
    BY <1>3 DEF Reset, Interrupted, Return, StopCall, Stop, StopEnter, StopIterate,
                StopNext, StopShutdown, vars, dlVars, taskVars
  <2>2. QED BY <2>1, BytesFrame
<1>4. CASE Crash \/ NextRun
  <2>1. UNCHANGED <<file, cfg>> /\ Tasks' = {} /\ pc' = "idle"
    BY <1>4 DEF Crash, NextRun, Restart, NoTasks, Tasks
  <2>2. QED BY <2>1 DEF BytesInv, Recorded, Covered
<1>5. QED BY <1>1, <1>2, <1>3, <1>4 DEF Next

\* When the server always describes the same entity, whatever it answers to the
\* requests, the progress in the ".download" file never runs ahead of the bytes
\* in the file: a crash at any point leaves a pair of files a later download()
\* may resume from.
THEOREM CrashConsistent == OneEntity /\ Spec => []RecordedBytesWritten
<1>1. Init => TypeInv /\ BytesInv  BY TypeInit, BytesInit
<1>2. OneEntity /\ TypeInv /\ BytesInv /\ [Next]_vars => (TypeInv /\ BytesInv)'
  BY TypeStep, BytesStep
<1>3. BytesInv => RecordedBytesWritten  BY DEF BytesInv, RecordedBytesWritten
<1>4. OneEntity => []OneEntity
  <2>1. OneEntity => OneEntity'  BY DEF OneEntity
  <2>2. QED BY <2>1, PTL
<1>5. QED BY <1>1, <1>2, <1>3, <1>4, PTL DEF Spec

-------------------------------------------------------------------------------
(* Every byte at its own offset, when Range is honoured.                     *)

\* The byte a task reads next is the one its next position is for.
PlaceInv ==
  FullBody = {} =>
    /\ \A i \in Tasks : st[i] \in {"reading", "checking"} => off[i] = StartPos(i)
    /\ \A p \in DOMAIN file : file[p] # Zero => file[p][2] = p

LEMMA PlaceInit == Init => PlaceInv
BY DEF Init, PlaceInv, NoTasks, Tasks

\* A step that leaves the file alone and starts no task reading.
LEMMA PlaceFrame ==
  ASSUME PlaceInv, UNCHANGED <<file, download, off, tc, size>>,
         \A i \in Tasks : st'[i] \in {"reading", "checking"} =>
                          st[i] \in {"reading", "checking"}
  PROVE  PlaceInv'
BY DEF PlaceInv, StartPos, Tasks

LEMMA PlaceDownloader == ASSUME TypeInv, PlaceInv, Downloader PROVE PlaceInv'
<1>1. CASE CreateLocalFile
  <2>1. UNCHANGED <<download, off, st, tc>> /\ Tasks = {}
    BY <1>1 DEF CreateLocalFile, taskVars, TypeInv, TasksMatchCfg
  <2>2. CASE UNCHANGED file  BY <2>1, <2>2 DEF PlaceInv, Tasks
  <2>3. ASSUME NEW s \in Sizes, file' = SetLength(file, s) PROVE PlaceInv'
    BY <2>1, <2>3 DEF PlaceInv, SetLength, Tasks
  <2>4. QED BY <1>1, <2>2, <2>3 DEF CreateLocalFile
<1>2. CASE ParseDownloadCfg
  <2>1. CASE UNCHANGED <<file, tc, taskVars, size>>
    BY <2>1, PlaceFrame DEF taskVars
  <2>2. ASSUME NEW c, LoadTasks(c), UNCHANGED file,
               DOMAIN c.done = 0..c.n-1
        PROVE  PlaceInv'
    BY <2>2 DEF PlaceInv, LoadTasks, Tasks
  <2>3. cfg.kind = "ok" => DOMAIN cfg.done = 0..cfg.n-1
    BY DEF TypeInv, TypeOK, CfgType
  <2>4. \A c \in CreatedCfg(size, tc) : c.kind = "ok" => DOMAIN c.done = 0..c.n-1
    BY DEF CreatedCfg, NewCfg, TornCfg, NoCfg
  <2>5. QED BY <1>2, <2>1, <2>2, <2>3, <2>4 DEF ParseDownloadCfg
<1>3. CASE CreateDownloadCfg \/ CreatePool \/ EnterSubmit \/ OpenCfg \/ TakeCompleted
           \/ Decide \/ ShutdownPool \/ Finish \/ SaveDownloadCfg
  BY <1>3, PlaceFrame DEF CreateDownloadCfg, CreatePool, EnterSubmit, OpenCfg,
     TakeCompleted, Decide, ShutdownPool, Finish, SaveDownloadCfg, taskVars
<1>4. CASE SubmitTask \/ Resubmit
  <2>1. /\ UNCHANGED <<file, download, off, tc, size>>
        /\ \/ UNCHANGED st
           \/ st' = [st EXCEPT ![cur] = "starting"]
           \/ st' = [st EXCEPT ![cur] = "queued"]
    BY <1>4 DEF SubmitTask, Resubmit, Rejected
  <2>2. QED BY <2>1, PlaceFrame DEF TypeInv, TypeOK, TaskType
<1>5. QED BY <1>1, <1>2, <1>3, <1>4 DEF Downloader

LEMMA PlaceTask ==
  ASSUME TypeInv, PlaceInv, NEW i \in Tasks, Task(i) \/ TaskError(i)
  PROVE  PlaceInv'
<1> st \in [Tasks -> TaskStates]  BY DEF TypeInv, TypeOK, TaskType
<1>1. CASE TaskBegin(i) \/ TaskCheck(i) \/ TaskEnd(i) \/ TaskError(i)
  <2>1. /\ UNCHANGED <<file, download, off, tc, size>>
        /\ \/ st' = [st EXCEPT ![i] = "starting"]
           \/ st' = [st EXCEPT ![i] = "done"]
           \/ st[i] = "checking" /\ st' = [st EXCEPT ![i] = "reading"]
    BY <1>1 DEF TaskBegin, TaskCheck, TaskEnd, TaskError, Complete, dlVars
  <2>2. QED BY <2>1, PlaceFrame
<1>2. CASE TaskConnect(i)
  <2>1. UNCHANGED <<file, download, tc, size>>  BY <1>2 DEF TaskConnect, dlVars
  <2>2. CASE Complete(i) /\ UNCHANGED off
    BY <2>1, <2>2, PlaceFrame DEF Complete
  <2>3. CASE FullBody # {}  BY <2>3 DEF PlaceInv
  <2>4. CASE off' = [off EXCEPT ![i] = StartPos(i)] /\ st' = [st EXCEPT ![i] = "reading"]
    <3>1. off \in [Tasks -> Nat]  BY DEF TypeInv, TypeOK, TaskType
    <3>2. QED BY <2>1, <2>4, <3>1 DEF PlaceInv, StartPos, Tasks
  <2>5. QED BY <1>2, <2>2, <2>3, <2>4 DEF TaskConnect
<1>3. CASE TaskRead(i)
  <2>1. PICK k \in 1..Min({Chunk, lim[i] - off[i]}) :
          /\ file' = WriteAt(file, StartPos(i), size, off[i], k)
          /\ download' = [download EXCEPT ![i] = @ + k]
          /\ off' = [off EXCEPT ![i] = @ + k]
    BY <1>3 DEF TaskRead
  <2>2. SUFFICES ASSUME FullBody = {} PROVE PlaceInv'
    BY DEF PlaceInv
  <2>3. off[i] = StartPos(i) /\ off[i] \in Nat
    BY <1>3, <2>2 DEF TaskRead, PlaceInv, TypeInv, TypeOK, TaskType
  <2>4. \A p \in DOMAIN file' : file'[p] # Zero => file'[p][2] = p
    <3>1. SUFFICES ASSUME NEW p \in DOMAIN file', file'[p] # Zero PROVE file'[p][2] = p
      OBVIOUS
    <3>2. CASE p \in StartPos(i)..StartPos(i)+k-1
      <4>1. p \in Int /\ StartPos(i) + p - StartPos(i) = p  BY <2>3, <3>2
      <4>2. p \in DOMAIN file \union 0..StartPos(i)+k-1  BY <2>1, <3>1 DEF WriteAt
      <4>3. file'[p] = EntityByte(size, p)
        BY <2>1, <2>3, <3>2, <4>1, <4>2 DEF WriteAt
      <4>4. QED BY <4>3 DEF EntityByte
    <3>3. CASE p \notin StartPos(i)..StartPos(i)+k-1
      BY <2>1, <2>2, <3>1, <3>3 DEF WriteAt, PlaceInv
    <3>4. QED BY <3>2, <3>3
  <2>5. /\ off \in [Tasks -> Nat] /\ download \in [Tasks -> Nat]
        /\ UNCHANGED <<tc, size>> /\ st' = [st EXCEPT ![i] = "checking"]
    BY <1>3 DEF TaskRead, dlVars, TypeInv, TypeOK, TaskType
  <2>6. ASSUME NEW j \in Tasks', st'[j] \in {"reading", "checking"}
        PROVE  off'[j] = (StartPos(j))'
    <3>1. j \in Tasks  BY <2>1, <2>5 DEF Tasks
    <3>2. CASE j = i
      <4>1. off'[i] = off[i] + k /\ download'[i] = download[i] + k  BY <2>1, <2>5
      <4>2. Start(size, tc, i) \in Nat /\ download[i] \in Nat
        <5>1. size \in Nat /\ tc \in Nat \ {0} /\ i \in Nat /\ download[i] \in Nat
          BY DEF TypeInv, TypeOK, TaskType, DownloaderType, TasksMatchCfg
        <5>2. QED BY ONLY <5>1, BlockType
      <4>3. k \in Int  OBVIOUS
      <4>4. QED BY <2>3, <2>5, <3>2, <4>1, <4>2, <4>3 DEF StartPos, Start, BlockSize
    <3>3. CASE j # i
      BY <2>1, <2>2, <2>5, <2>6, <3>1, <3>3 DEF PlaceInv, StartPos
    <3>4. QED BY <3>2, <3>3
  <2>7. QED BY <2>4, <2>6 DEF PlaceInv
<1>4. QED BY <1>1, <1>2, <1>3 DEF Task

LEMMA PlaceStep == TypeInv /\ PlaceInv /\ [Next]_vars => PlaceInv'
<1> SUFFICES ASSUME TypeInv, PlaceInv, [Next]_vars PROVE PlaceInv'
  OBVIOUS
<1>1. CASE Downloader  BY <1>1, PlaceDownloader
<1>2. CASE \E i \in Tasks : Task(i) \/ TaskError(i)  BY <1>2, PlaceTask
<1>3. CASE Reset \/ Interrupted \/ StopCall \/ StopEnter \/ StopIterate \/ UNCHANGED vars
  BY <1>3, PlaceFrame DEF Reset, Interrupted, StopCall, StopEnter, StopIterate, vars,
     dlVars, taskVars
<1>4. CASE StopNext \/ StopShutdown
  <2>1. /\ UNCHANGED <<file, download, off, tc, size>>
        /\ \/ UNCHANGED st
           \/ st' = [st EXCEPT ![iter[1]] = IF @ = "reading" THEN "broken" ELSE @]
           \/ st' = [i \in Tasks |-> IF st[i] = "queued" THEN "dropped" ELSE st[i]]
    BY <1>4 DEF StopNext, StopShutdown, dlVars
  <2>2. QED BY <2>1, PlaceFrame DEF TypeInv, TypeOK, TaskType
<1>5. CASE Crash \/ NextRun
  BY <1>5 DEF Crash, NextRun, Restart, NoTasks, Tasks, PlaceInv
<1>6. QED BY <1>1, <1>2, <1>3, <1>4, <1>5 DEF Next, Stop

\* With a server that honours Range no byte is ever stored at another position
\* than its own, for every division into blocks, crash, resumption and stop().
THEOREM NoMisplacedByte == Spec => []BytesInPlace
<1>1. Init => TypeInv /\ PlaceInv  BY TypeInit, PlaceInit
<1>2. TypeInv /\ PlaceInv /\ [Next]_vars => (TypeInv /\ PlaceInv)'
  BY TypeStep, PlaceStep
<1>3. PlaceInv => BytesInPlace  BY DEF PlaceInv, BytesInPlace
<1>4. QED BY <1>1, <1>2, <1>3, PTL DEF Spec
-------------------------------------------------------------------------------
(* The completion queue, and what a task may still write after stop().       *)

\* A task is in the completion queue once, after its call() has returned, and
\* download() submits or resubmits no task that is in the pool.
QueueInv ==
  /\ \A k \in DOMAIN completed : st[completed[k]] = "done"
  /\ \A k, l \in DOMAIN completed : completed[k] = completed[l] => k = l
  /\ pc \in {"pool", "guard"} => \A i \in Tasks : st[i] = "new"
  /\ pc = "submit" => \A i \in Tasks : i >= cur => st[i] = "new"
  /\ pc \in {"decide", "resubmit"} =>
       st[cur] = "done" /\ \A k \in DOMAIN completed : completed[k] # cur

LEMMA QueueInit == Init => QueueInv
BY DEF Init, QueueInv, Tasks, NoTasks

\* Steps that leave the queue and the states of the tasks alone.
LEMMA QueueFrame ==
  ASSUME QueueInv, UNCHANGED <<completed, st, download, cur>>,
         pc' \in {"pool", "guard"} => pc \in {"pool", "guard"},
         pc' = "submit" => pc = "submit",
         pc' \in {"decide", "resubmit"} => pc \in {"decide", "resubmit"}
  PROVE  QueueInv'
BY DEF QueueInv, Tasks

\* Steps that change the states of tasks that are neither new nor done.
LEMMA QueueMove ==
  ASSUME TypeInv, QueueInv, UNCHANGED <<completed, Tasks, pc, cur>>,
         \A i \in Tasks : st[i] \in {"new", "done"} => st'[i] = st[i]
  PROVE  QueueInv'
<1>1. Tasks' = Tasks  OBVIOUS
<1>2. \A k \in DOMAIN completed : completed[k] \in Tasks
  BY DEF TypeInv, TypeOK, TaskType
<1>3. pc \in {"decide", "resubmit"} => cur \in Tasks  BY DEF TypeInv, TasksMatchCfg
<1>4. QED BY <1>1, <1>2, <1>3 DEF QueueInv

\* call() returns: the task was not in the queue.
LEMMA QueueComplete ==
  ASSUME TypeInv, QueueInv, NEW i \in Tasks, Complete(i), st[i] \notin {"new", "done"},
         UNCHANGED <<Tasks, pc, cur>>
  PROVE  QueueInv'
<1>1. Tasks' = Tasks  OBVIOUS
<1>2. completed \in Seq(Tasks) /\ st \in [Tasks -> TaskStates]
  BY DEF TypeInv, TypeOK, TaskType
<1>3. completed' = Append(completed, i) /\ st' = [st EXCEPT ![i] = "done"]  BY DEF Complete
<1>4. \A k \in DOMAIN completed : completed[k] \in Tasks /\ completed[k] # i
  BY <1>2 DEF QueueInv
<1>5. /\ DOMAIN completed' = 1..Len(completed)+1
      /\ \A k \in 1..Len(completed) : completed'[k] = completed[k]
      /\ completed'[Len(completed)+1] = i
      /\ DOMAIN completed = 1..Len(completed) /\ Len(completed) \in Nat
  BY <1>2, <1>3
<1>6. \A k \in DOMAIN completed' : st'[completed'[k]] = "done"
  <2> SUFFICES ASSUME NEW k \in DOMAIN completed' PROVE st'[completed'[k]] = "done"
    OBVIOUS
  <2>1. CASE k = Len(completed)+1  BY <2>1, <1>2, <1>3, <1>5
  <2>2. CASE k \in 1..Len(completed)
    <3>1. st[completed[k]] = "done" /\ completed[k] \in Tasks /\ completed[k] # i
      BY <2>2, <1>4, <1>5 DEF QueueInv
    <3>2. QED BY <2>2, <3>1, <1>2, <1>3, <1>5
  <2>3. QED BY <1>5, <2>1, <2>2
<1>7. \A k, l \in DOMAIN completed' : completed'[k] = completed'[l] => k = l
  <2> SUFFICES ASSUME NEW k \in DOMAIN completed', NEW l \in DOMAIN completed',
                      completed'[k] = completed'[l]
               PROVE  k = l
    OBVIOUS
  <2>1. CASE k \in 1..Len(completed) /\ l \in 1..Len(completed)
    BY <2>1, <1>5 DEF QueueInv
  <2>2. CASE k = Len(completed)+1 /\ l \in 1..Len(completed)  BY <2>2, <1>4, <1>5
  <2>3. CASE k \in 1..Len(completed) /\ l = Len(completed)+1  BY <2>3, <1>4, <1>5
  <2>4. QED BY <1>5, <2>1, <2>2, <2>3
<1>8. pc' \in {"pool", "guard"} => \A j \in Tasks' : st'[j] = "new"
  BY <1>1 DEF QueueInv
<1>9. pc' = "submit" => \A j \in Tasks' : j >= cur' => st'[j] = "new"
  BY <1>1, <1>2, <1>3 DEF QueueInv
<1>10. ASSUME pc' \in {"decide", "resubmit"}
       PROVE  st'[cur'] = "done" /\ \A k \in DOMAIN completed' : completed'[k] # cur'
  <2>1. cur \in Tasks /\ st[cur] = "done" /\ cur # i
    BY <1>10 DEF TypeInv, TasksMatchCfg, QueueInv
  <2>2. \A k \in DOMAIN completed : completed[k] # cur  BY <1>10 DEF QueueInv
  <2>3. st'[cur'] = "done"  BY <2>1, <1>2, <1>3
  <2>4. ASSUME NEW k \in DOMAIN completed' PROVE completed'[k] # cur'
    BY <2>1, <2>2, <1>5
  <2>5. QED BY <2>3, <2>4
<1>11. QED BY <1>6, <1>7, <1>8, <1>9, <1>10 DEF QueueInv

LEMMA QueueSubmit == TypeInv /\ QueueInv /\ SubmitTask => QueueInv'
<1> SUFFICES ASSUME TypeInv, QueueInv, SubmitTask PROVE QueueInv'
  OBVIOUS
<1>1. CASE Rejected
  BY <1>1, QueueFrame DEF SubmitTask, Rejected, Return
<1>2. CASE /\ st' = [st EXCEPT ![cur] = "starting"] /\ cur' = cur + 1
           /\ pc' \in {"open", "submit"}
  <2>1. pc = "submit" /\ cur \in Tasks /\ st[cur] = "new" /\ Tasks = 0..tc-1
    BY DEF SubmitTask, TypeInv, TypeOK, DownloaderType, TasksMatchCfg, Loaded, QueueInv
  <2>2. completed \in Seq(Tasks) /\ st \in [Tasks -> TaskStates] /\ cur \in Nat
    BY DEF TypeInv, TypeOK, TaskType, DownloaderType
  <2>3. UNCHANGED <<completed, download>>  BY DEF SubmitTask
  <2>4. ASSUME NEW k \in DOMAIN completed PROVE completed[k] \in Tasks /\ completed[k] # cur
    <3>1. st[completed[k]] = "done"  BY DEF QueueInv
    <3>2. completed[k] # cur  BY <2>1, <3>1
    <3>3. completed[k] \in Tasks  BY <2>2
    <3>4. QED BY <3>2, <3>3
  <2>5. \A k \in DOMAIN completed : st'[completed[k]] = "done"
    BY <1>2, <2>2, <2>4 DEF QueueInv
  <2>6. \A i \in Tasks : i >= cur + 1 => st'[i] = "new"
    BY <1>2, <2>1, <2>2 DEF QueueInv
  <2>7. QED BY <1>2, <2>3, <2>5, <2>6 DEF QueueInv, Tasks
<1>3. QED BY <1>1, <1>2 DEF SubmitTask

LEMMA QueueTake == TypeInv /\ QueueInv /\ TakeCompleted => QueueInv'
<1> SUFFICES ASSUME TypeInv, QueueInv, TakeCompleted PROVE QueueInv'
  OBVIOUS
<1>1. /\ completed \in Seq(Tasks) /\ completed # <<>>
      /\ cur' = completed[1] /\ completed' = Tail(completed)
      /\ UNCHANGED <<st, download>> /\ pc' \in {"decide", "finish"}
  BY DEF TakeCompleted, TypeInv, TypeOK, TaskType, taskVars
<1>2. /\ Len(completed) \in Nat \ {0} /\ DOMAIN completed = 1..Len(completed)
      /\ DOMAIN completed' = 1..Len(completed)-1
      /\ \A k \in 1..Len(completed)-1 : completed'[k] = completed[k+1]
  BY <1>1
<1>3. \A k \in DOMAIN completed' : st'[completed'[k]] = "done" /\ completed'[k] # cur'
  <2> SUFFICES ASSUME NEW k \in 1..Len(completed)-1
               PROVE  st[completed[k+1]] = "done" /\ completed[k+1] # completed[1]
    BY <1>1, <1>2
  <2>1. k+1 \in DOMAIN completed /\ 1 \in DOMAIN completed /\ k+1 # 1  BY <1>2
  <2>2. QED BY <2>1 DEF QueueInv
<1>4. \A k, l \in DOMAIN completed' : completed'[k] = completed'[l] => k = l
  <2> SUFFICES ASSUME NEW k \in 1..Len(completed)-1, NEW l \in 1..Len(completed)-1,
                      completed[k+1] = completed[l+1]
               PROVE  k = l
    BY <1>2
  <2>1. k+1 \in DOMAIN completed /\ l+1 \in DOMAIN completed  BY <1>2
  <2>2. k+1 = l+1  BY <2>1 DEF QueueInv
  <2>3. QED BY <2>2
<1>5. st'[cur'] = "done"  BY <1>1, <1>2 DEF QueueInv
<1>6. QED BY <1>1, <1>3, <1>4, <1>5 DEF QueueInv

LEMMA QueueStep == TypeInv /\ QueueInv /\ [Next]_vars => QueueInv'
<1> SUFFICES ASSUME TypeInv, QueueInv, [Next]_vars PROVE QueueInv'
  OBVIOUS
<1> USE DEF Return, dlVars, taskVars
<1>1. CASE Reset  BY <1>1, QueueFrame DEF Reset
<1>2. CASE Downloader
  <2>1. CASE CreateLocalFile  BY <2>1, QueueFrame DEF CreateLocalFile
  <2>2. CASE CreateDownloadCfg  BY <2>2, QueueFrame DEF CreateDownloadCfg
  <2>3. CASE ParseDownloadCfg
    <3>1. CASE pc' = "returned" /\ UNCHANGED <<st, download>>
      BY <2>3, <3>1, QueueFrame DEF ParseDownloadCfg
    <3>2. CASE \E c : LoadTasks(c)
      <4>1. completed = <<>> /\ UNCHANGED completed
        BY <2>3 DEF ParseDownloadCfg, TypeInv, TypeOK, TaskType, TasksMatchCfg
      <4>2. pc' = "pool" /\ Tasks' = DOMAIN st' /\ \A i \in Tasks' : st'[i] = "new"
        <5>1. Tasks' = 0..tc'-1
          BY <2>3, <3>2, TypeParse DEF TypeInv, TasksMatchCfg, Loaded, LoadTasks
        <5>2. QED BY <3>2, <5>1 DEF LoadTasks
      <4>3. QED BY <4>1, <4>2 DEF QueueInv
    <3>3. QED BY <2>3, <3>1, <3>2 DEF ParseDownloadCfg
  <2>4. CASE CreatePool  BY <2>4, QueueFrame DEF CreatePool
  <2>5. CASE EnterSubmit  BY <2>5 DEF EnterSubmit, QueueInv, Tasks
  <2>6. CASE SubmitTask  BY <2>6, QueueSubmit
  <2>7. CASE OpenCfg  BY <2>7, QueueFrame DEF OpenCfg
  <2>8. CASE TakeCompleted  BY <2>8, QueueTake
  <2>9. CASE Decide  BY <2>9, QueueFrame DEF Decide
  <2>10. CASE Resubmit
    <3>1. CASE Rejected  BY <2>10, <3>1, QueueFrame DEF Resubmit, Rejected
    <3>2. CASE st' = [st EXCEPT ![cur] = "queued"] /\ pc' = "take"
      <4>1. UNCHANGED <<completed, download>> /\ pc = "resubmit"  BY <2>10 DEF Resubmit
      <4>2. \A k \in DOMAIN completed : completed[k] # cur /\ completed[k] \in Tasks
        BY <4>1 DEF QueueInv, TypeInv, TypeOK, TaskType
      <4>3. \A k \in DOMAIN completed : st'[completed[k]] = "done"
        BY <3>2, <4>2 DEF QueueInv, TypeInv, TypeOK, TaskType
      <4>4. QED BY <3>2, <4>1, <4>3 DEF QueueInv
    <3>3. QED BY <2>10, <3>1, <3>2 DEF Resubmit
  <2>11. CASE ShutdownPool  BY <2>11, QueueFrame DEF ShutdownPool
  <2>12. CASE Finish  BY <2>12, QueueFrame DEF Finish
  <2>13. CASE SaveDownloadCfg  BY <2>13, QueueFrame DEF SaveDownloadCfg
  <2>14. QED
    BY <1>2, <2>1, <2>2, <2>3, <2>4, <2>5, <2>6, <2>7, <2>8, <2>9, <2>10, <2>11,
       <2>12, <2>13 DEF Downloader
<1>3. CASE Interrupted  BY <1>3, QueueFrame DEF Interrupted
<1>4. ASSUME NEW i \in Tasks, Task(i) \/ TaskError(i) PROVE QueueInv'
  <2> USE DEF TypeInv, TypeOK, TaskType
  <2>1. UNCHANGED <<Tasks, pc, cur>>
    BY <1>4 DEF Task, TaskBegin, TaskConnect, TaskRead, TaskCheck, TaskEnd, TaskError, Tasks
  <2>2. CASE TaskBegin(i)  BY <2>1, <2>2, QueueMove DEF TaskBegin
  <2>3. CASE TaskConnect(i)
    <3>1. CASE Complete(i)  BY <2>1, <2>3, <3>1, QueueComplete DEF TaskConnect
    <3>2. CASE st' = [st EXCEPT ![i] = "reading"] /\ UNCHANGED completed
      BY <2>1, <2>3, <3>2, QueueMove DEF TaskConnect
    <3>3. QED BY <2>3, <3>1, <3>2 DEF TaskConnect
  <2>4. CASE TaskRead(i)  BY <2>1, <2>4, QueueMove DEF TaskRead
  <2>5. CASE TaskCheck(i)
    <3>1. CASE Complete(i)  BY <2>1, <2>5, <3>1, QueueComplete DEF TaskCheck
    <3>2. CASE st' = [st EXCEPT ![i] = "reading"] /\ UNCHANGED completed
      BY <2>1, <2>5, <3>2, QueueMove DEF TaskCheck
    <3>3. QED BY <2>5, <3>1, <3>2 DEF TaskCheck
  <2>6. CASE TaskEnd(i)  BY <2>1, <2>6, QueueComplete DEF TaskEnd
  <2>7. CASE TaskError(i)  BY <2>1, <2>7, QueueComplete DEF TaskError
  <2>8. QED BY <1>4, <2>2, <2>3, <2>4, <2>5, <2>6, <2>7 DEF Task
<1>5. CASE StopCall  BY <1>5, QueueFrame DEF StopCall
<1>6. CASE Stop
  <2> USE DEF TypeInv, TypeOK, TaskType
  <2>1. UNCHANGED <<Tasks, completed, pc, cur>>
    BY <1>6 DEF Stop, StopEnter, StopIterate, StopNext, StopShutdown, Tasks
  <2>2. CASE StopEnter \/ StopIterate
    BY <2>1, <2>2, QueueMove DEF StopEnter, StopIterate
  <2>3. CASE StopNext  BY <2>1, <2>3, QueueMove DEF StopNext
  <2>4. CASE StopShutdown  BY <2>1, <2>4, QueueMove DEF StopShutdown
  <2>5. QED BY <1>6, <2>2, <2>3, <2>4 DEF Stop
<1>7. CASE Crash \/ NextRun
  BY <1>7 DEF Crash, NextRun, Restart, QueueInv, Tasks, NoTasks
<1>8. CASE UNCHANGED vars  BY <1>8, QueueFrame DEF vars
<1>9. QED BY <1>1, <1>2, <1>3, <1>4, <1>5, <1>6, <1>7, <1>8 DEF Next

\* While stopFlag is not TRUE no task has written late; after a late chunk the
\* task is at its test of the flag, or has returned and is not resubmitted.
LateInv ==
  /\ held # "TRUE"
  /\ Tasks # {} => pc # "idle"
  /\ flag # "TRUE" => \A i \in Tasks : late[i] = 0
  /\ pc = "resubmit" => late[cur] = 0
  /\ \A i \in Tasks : late[i] = 0 \/ (late[i] = 1 /\ st[i] \in {"checking", "done"})

LEMMA LateInit == Init => LateInv
BY DEF Init, LateInv, Tasks, NoTasks

\* Steps that leave what tasks wrote, and the tasks at their test or returned, alone.
LEMMA LateFrame ==
  ASSUME LateInv, UNCHANGED <<Tasks, late>>, held' \in {held, "none"},
         flag' \in {flag, "TRUE"}, Tasks # {} => pc' # "idle",
         pc' = "resubmit" => pc = "resubmit" /\ cur' = cur,
         \A i \in Tasks : st[i] \in {"checking", "done"} => st'[i] = st[i]
  PROVE  LateInv'
BY DEF LateInv

LEMMA LateStep == TypeInv /\ QueueInv /\ LateInv /\ [Next]_vars => LateInv'
<1> SUFFICES ASSUME TypeInv, QueueInv, LateInv, [Next]_vars PROVE LateInv'
  OBVIOUS
<1> USE DEF Return, dlVars, taskVars, Tasks
<1>1. CASE Reset  BY <1>1 DEF Reset, LateInv
<1>2. CASE Downloader
  <2>1. CASE CreateLocalFile  BY <2>1, LateFrame DEF CreateLocalFile
  <2>2. CASE CreateDownloadCfg  BY <2>2, LateFrame DEF CreateDownloadCfg
  <2>3. CASE ParseDownloadCfg
    <3>1. CASE UNCHANGED taskVars /\ pc' = "returned"
      BY <2>3, <3>1, LateFrame DEF ParseDownloadCfg
    <3>2. CASE \E c : LoadTasks(c)
      <4>1. Tasks' = 0..tc'-1
        BY <2>3, <3>2, TypeParse DEF TypeInv, TasksMatchCfg, Loaded, LoadTasks
      <4>2. pc' = "pool" /\ UNCHANGED held /\ \A i \in Tasks' : late'[i] = 0
        BY <2>3, <3>2, <4>1 DEF ParseDownloadCfg, LoadTasks
      <4>3. QED BY <4>2 DEF LateInv
    <3>3. QED BY <2>3, <3>1, <3>2 DEF ParseDownloadCfg
  <2>4. CASE CreatePool  BY <2>4, LateFrame DEF CreatePool
  <2>5. CASE EnterSubmit  BY <2>5 DEF EnterSubmit, LateInv
  <2>6. CASE SubmitTask
    <3>1. CASE Rejected  BY <2>6, <3>1, LateFrame DEF SubmitTask, Rejected
    <3>2. CASE pool # "stop" /\ st' = [st EXCEPT ![cur] = "starting"] /\ held' \in {held, "none"}
      <4>1. st[cur] = "new" /\ cur \in Tasks
        BY <2>6 DEF SubmitTask, QueueInv, TypeInv, TypeOK, DownloaderType, TasksMatchCfg, Loaded
      <4>2. \A i \in Tasks : st[i] \in {"checking", "done"} => st'[i] = st[i]
        BY <3>2, <4>1 DEF TypeInv, TypeOK, TaskType
      <4>3. pc' \in {"open", "submit"}
        BY <2>6, <3>2 DEF SubmitTask, Rejected
      <4>4. UNCHANGED <<Tasks, late, flag>>  BY <2>6 DEF SubmitTask
      <4>5. QED BY <3>2, <4>2, <4>3, <4>4, LateFrame
    <3>3. QED BY <2>6, <3>1, <3>2 DEF SubmitTask
  <2>7. CASE OpenCfg  BY <2>7, LateFrame DEF OpenCfg
  <2>8. CASE TakeCompleted  BY <2>8, LateFrame DEF TakeCompleted
  <2>9. CASE Decide  BY <2>9 DEF Decide, LateInv, TypeInv, TasksMatchCfg
  <2>10. CASE Resubmit
    <3>1. CASE Rejected  BY <2>10, <3>1, LateFrame DEF Resubmit, Rejected
    <3>2. CASE st' = [st EXCEPT ![cur] = "queued"] /\ pc' = "take" /\ held' = "none"
      BY <2>10, <3>2 DEF Resubmit, LateInv, TypeInv, TypeOK, TaskType
    <3>3. QED BY <2>10, <3>1, <3>2 DEF Resubmit
  <2>11. CASE ShutdownPool  BY <2>11, LateFrame DEF ShutdownPool
  <2>12. CASE Finish  BY <2>12, LateFrame DEF Finish
  <2>13. CASE SaveDownloadCfg  BY <2>13, LateFrame DEF SaveDownloadCfg
  <2>14. QED
    BY <1>2, <2>1, <2>2, <2>3, <2>4, <2>5, <2>6, <2>7, <2>8, <2>9, <2>10, <2>11,
       <2>12, <2>13 DEF Downloader
<1>3. CASE Interrupted  BY <1>3, LateFrame DEF Interrupted
<1>4. ASSUME NEW i \in Tasks, Task(i) \/ TaskError(i) PROVE LateInv'
  <2> USE DEF TypeInv, TypeOK, TaskType
  <2>1. UNCHANGED <<Tasks, pc, cur, flag, held>>
    BY <1>4 DEF Task, TaskBegin, TaskConnect, TaskRead, TaskCheck, TaskEnd, TaskError
  <2>2. CASE TaskRead(i)
    <3>1. st[i] = "reading" /\ late[i] = 0  BY <1>4, <2>2 DEF TaskRead, LateInv
    <3>2. st' = [st EXCEPT ![i] = "checking"]  BY <2>2 DEF TaskRead
    <3>3. late' = [late EXCEPT ![i] = IF flag = "TRUE" THEN 1 ELSE 0]
      BY <2>2, <3>1 DEF TaskRead
    <3>4. \A j \in Tasks' : late'[j] = 0 \/ (late'[j] = 1 /\ st'[j] \in {"checking", "done"})
      BY <2>1, <3>2, <3>3 DEF LateInv
    <3>5. flag' # "TRUE" => \A j \in Tasks' : late'[j] = 0
      BY <2>1, <3>3 DEF LateInv
    <3>6. pc' = "resubmit" => late'[cur'] = 0
      <4>1. pc = "resubmit" => cur \in Tasks /\ cur # i
        BY <3>1 DEF QueueInv, TasksMatchCfg
      <4>2. QED BY <2>1, <3>3, <4>1 DEF LateInv
    <3>7. QED BY <2>1, <3>4, <3>5, <3>6 DEF LateInv
  <2>3. CASE TaskCheck(i)
    <3>1. CASE flag = "TRUE"
      BY <2>1, <2>3, <3>1 DEF TaskCheck, Complete, LateInv
    <3>2. CASE flag # "TRUE"
      BY <2>1, <2>3, <3>2 DEF TaskCheck, LateInv
    <3>3. QED BY <3>1, <3>2
  <2>4. CASE TaskBegin(i)  BY <2>1, <2>4, LateFrame DEF TaskBegin, LateInv
  <2>5. CASE TaskConnect(i) \/ TaskEnd(i) \/ TaskError(i)
    <3>1. UNCHANGED late /\ st[i] \notin {"checking", "done"}
      BY <2>5 DEF TaskConnect, TaskEnd, TaskError
    <3>2. \A j \in Tasks : j # i => st'[j] = st[j]
      BY <2>5 DEF TaskConnect, TaskEnd, TaskError, Complete
    <3>3. \A j \in Tasks : st[j] \in {"checking", "done"} => st'[j] = st[j]
      BY <3>1, <3>2
    <3>4. QED BY <2>1, <3>1, <3>3, LateFrame DEF LateInv
  <2>6. QED BY <1>4, <2>2, <2>3, <2>4, <2>5 DEF Task
<1>5. CASE StopCall  BY <1>5, LateFrame DEF StopCall, LateInv
<1>6. CASE Stop
  <2> USE DEF TypeInv, TypeOK, TaskType
  <2>1. UNCHANGED <<Tasks, late, pc, cur, held>> /\ flag' \in {flag, "TRUE"}
    BY <1>6 DEF Stop, StopEnter, StopIterate, StopNext, StopShutdown
  <2>2. \A i \in Tasks : st[i] \in {"checking", "done"} => st'[i] = st[i]
    BY <1>6 DEF Stop, StopEnter, StopIterate, StopNext, StopShutdown
  <2>3. QED BY <2>1, <2>2, LateFrame DEF LateInv
<1>7. CASE Crash \/ NextRun
  BY <1>7 DEF Crash, NextRun, Restart, LateInv, NoTasks
<1>8. CASE UNCHANGED vars  BY <1>8, LateFrame DEF vars, LateInv
<1>9. QED BY <1>1, <1>2, <1>3, <1>4, <1>5, <1>6, <1>7, <1>8 DEF Next

\* Once stopFlag is TRUE no task writes more than one chunk: not one that was
\* reading, nor one that waited in the work queue or was being resubmitted.
THEOREM StopIsPrompt == Spec => []AtMostOneLateChunk
<1>1. Init => TypeInv /\ QueueInv /\ LateInv  BY TypeInit, QueueInit, LateInit
<1>2. TypeInv /\ QueueInv /\ LateInv /\ [Next]_vars => (TypeInv /\ QueueInv /\ LateInv)'
  BY TypeStep, QueueStep, LateStep
<1>3. LateInv => AtMostOneLateChunk  BY DEF LateInv, AtMostOneLateChunk
<1>4. QED BY <1>1, <1>2, <1>3, PTL DEF Spec
===============================================================================
