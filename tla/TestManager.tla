----------------------------- MODULE TestManager -----------------------------
(***************************************************************************)
(* TestManager.java and the start/stop toggle of MainActivity: the UI      *)
(* thread starts and stops test runs, a thread of MyThreadPool executes    *)
(* startTest() for each accepted run, and the run's single-threaded        *)
(* executor executes its tests one after the other.                        *)
(*                                                                         *)
(* A run is named by the number of the start() that was accepted; its      *)
(* executor has the same name.  What a test does is not modelled here: it  *)
(* ends by itself, or when it is interrupted.                              *)
(***************************************************************************)
EXTENDS Naturals, FiniteSets

CONSTANTS
  MaxStarts,   \* bound: accepted calls of start()
  MaxTests,    \* bound: tests in a configuration
  BadConfig    \* what may be wrong with the configuration: subset of
               \* {"load", "parse"}

ASSUME BoundsAssumption == MaxStarts \in Nat /\ MaxTests \in Nat
ASSUME ConfigAssumption == BadConfig \subseteq {"load", "parse"}

Runs == 1..MaxStarts

VARIABLES
  mTestState,  \* "IDLE", "RUN" or "COMPLETE"
  title,       \* the menu item: "Start" or "Stop"
  starts,      \* accepted calls of start() so far
  pc,          \* where startTest() of each run is
  left,        \* tests of the list each run has still to submit
  exec,        \* the run whose executor mExecutorService refers to; 0: null
  status,      \* each executor: "none", "run", "shut" or "stop"
  queue,       \* tests waiting in each executor
  busy         \* whether the thread of each executor executes a test

vars == <<mTestState, title, starts, pc, left, exec, status, queue, busy>>
execVars == <<exec, status, queue, busy>>

Init ==
  /\ mTestState = "IDLE"
  /\ title = "Start"
  /\ starts = 0
  /\ pc = [r \in Runs |-> "none"]
  /\ left = [r \in Runs |-> 0]
  /\ exec = 0
  /\ status = [r \in Runs |-> "none"]
  /\ queue = [r \in Runs |-> 0]
  /\ busy = [r \in Runs |-> FALSE]

-----------------------------------------------------------------------------
(* The UI thread.                                                          *)

\* Fault: start() tests the state but leaves setting it to startTest().
start_NoSet ==
  /\ mTestState # "RUN"
  /\ starts < MaxStarts
  /\ starts' = starts + 1
  /\ pc' = [pc EXCEPT ![starts + 1] = "queued"]
  /\ UNCHANGED <<mTestState, left>>

\* The test and the assignment are one synchronized block.  A refused start
\* shows a toast.
start ==
  \/ /\ mTestState = "RUN"
     /\ UNCHANGED <<mTestState, starts, pc, left>>
  \/ /\ mTestState # "RUN"
     /\ starts < MaxStarts
     /\ starts' = starts + 1
     /\ mTestState' = "RUN"
     /\ pc' = [pc EXCEPT ![starts + 1] = "queued"]
     /\ UNCHANGED left

\* shutdownNow() drops the waiting tests and interrupts the one executed.
stop ==
  IF exec = 0 THEN UNCHANGED execVars
  ELSE /\ status' = [status EXCEPT ![exec] = "stop"]
       /\ queue' = [queue EXCEPT ![exec] = 0]
       /\ UNCHANGED <<exec, busy>>

ToggleStart ==
  /\ title = "Start"
  /\ title' = "Stop"
  /\ start
  /\ UNCHANGED execVars

ToggleStop ==
  /\ title = "Stop"
  /\ title' = "Start"
  /\ stop
  /\ UNCHANGED <<mTestState, starts, pc, left>>

\* onDestroy(); the activity that replaces it inflates the menu again.
Destroy ==
  /\ title' = "Start"
  /\ stop
  /\ UNCHANGED <<mTestState, starts, pc, left>>

\* The test page inflates the menu anew, whatever the manager is doing.
ShowTestPager ==
  /\ title' = "Start"
  /\ UNCHANGED <<mTestState, starts, pc, left, execVars>>

-----------------------------------------------------------------------------
(* startTest(), on a thread of MyThreadPool.  An unchecked exception ends  *)
(* it ("threw"): the Future that holds it is never read.                   *)

Goto(r, from, to) == pc[r] = from /\ pc' = [pc EXCEPT ![r] = to]

Begin(r) ==
  /\ Goto(r, "queued", "create")
  /\ mTestState' = "RUN"
  /\ UNCHANGED <<title, starts, left, execVars>>

CreateExecutor(r) ==
  /\ Goto(r, "create", "load")
  /\ exec' = r
  /\ status' = [status EXCEPT ![r] = "run"]
  /\ UNCHANGED <<mTestState, title, starts, left, queue, busy>>

\* Fault: a failed load leaves the state as it is.
Load_NoReset(r) ==
  /\ \/ Goto(r, "load", "parse")
     \/ "load" \in BadConfig /\ Goto(r, "load", "ended")
  /\ UNCHANGED <<mTestState, title, starts, left, execVars>>

\* TestConfig.load fails when the file is missing or is not XML.
Load(r) ==
  \/ /\ Goto(r, "load", "parse")
     /\ UNCHANGED <<mTestState, title, starts, left, execVars>>
  \/ /\ "load" \in BadConfig
     /\ Goto(r, "load", "ended")
     /\ mTestState' = "IDLE"
     /\ UNCHANGED <<title, starts, left, execVars>>

\* TestConfig.parse makes the list of tests, or a number in the file does not
\* parse (NumberFormatException).
Parse(r) ==
  \/ /\ Goto(r, "parse", "submit")
     /\ \E n \in 0..MaxTests : left' = [left EXCEPT ![r] = n]
     /\ UNCHANGED <<mTestState, title, starts, execVars>>
  \/ /\ "parse" \in BadConfig
     /\ Goto(r, "parse", "threw")
     /\ UNCHANGED <<mTestState, title, starts, left, execVars>>

\* The first test goes to the new thread of the executor, a later one to its
\* queue.  After shutdownNow() the test is rejected with an exception.
Submit(r) ==
  \/ /\ pc[r] = "submit" /\ left[r] > 0
     /\ status[exec] = "run"
     /\ left' = [left EXCEPT ![r] = @ - 1]
     /\ IF busy[exec] THEN queue' = [queue EXCEPT ![exec] = @ + 1] /\ UNCHANGED busy
                      ELSE busy' = [busy EXCEPT ![exec] = TRUE] /\ UNCHANGED queue
     /\ UNCHANGED <<mTestState, title, starts, pc, exec, status>>
  \/ /\ Goto(r, "submit", "threw")
     /\ left[r] > 0 /\ status[exec] # "run"
     /\ UNCHANGED <<mTestState, title, starts, left, execVars>>
  \/ /\ left[r] = 0
     /\ Goto(r, "submit", "await")
     /\ status' = [status EXCEPT ![exec] = IF @ = "run" THEN "shut" ELSE @]
     /\ UNCHANGED <<mTestState, title, starts, left, exec, queue, busy>>

IsTerminated(e) == status[e] \in {"shut", "stop"} /\ queue[e] = 0 /\ ~busy[e]

\* Fault: a time-out of awaitTermination is taken for the end.
Await_Once(r) ==
  /\ Goto(r, "await", "ended")
  /\ mTestState' = "COMPLETE"
  /\ UNCHANGED <<title, starts, left, execVars>>

\* A time-out of awaitTermination only repeats the call.
Await(r) ==
  /\ Goto(r, "await", "ended")
  /\ IsTerminated(exec)
  /\ mTestState' = "COMPLETE"
  /\ UNCHANGED <<title, starts, left, execVars>>

StartTest(r) ==
  Begin(r) \/ CreateExecutor(r) \/ Load(r) \/ Parse(r) \/ Submit(r) \/ Await(r)

\* The thread of executor r: the test it executes ends, by itself or by the
\* interrupt, and it takes the next one.
TestEnds(r) ==
  /\ busy[r]
  /\ IF queue[r] > 0 THEN queue' = [queue EXCEPT ![r] = @ - 1] /\ UNCHANGED busy
                     ELSE busy' = [busy EXCEPT ![r] = FALSE] /\ UNCHANGED queue
  /\ UNCHANGED <<mTestState, title, starts, pc, left, exec, status>>

-----------------------------------------------------------------------------
Next ==
  \/ ToggleStart \/ ToggleStop \/ Destroy \/ ShowTestPager
  \/ \E r \in Runs : StartTest(r) \/ TestEnds(r)

Spec == Init /\ [][Next]_vars

\* The pool runs what is submitted to it, and a test ends.
Fairness ==
  \A r \in Runs : WF_vars(StartTest(r)) /\ WF_vars(TestEnds(r))

FairSpec == Spec /\ Fairness

-----------------------------------------------------------------------------
(* Properties.                                                             *)

Phases == {"none", "queued", "create", "load", "parse", "submit", "await",
           "ended", "threw"}
Active(r) == pc[r] \notin {"none", "ended", "threw"}

\* The types of the variables; mExecutorService refers to the executor of a
\* run that was accepted.
TypeOK ==
  /\ mTestState \in {"IDLE", "RUN", "COMPLETE"}
  /\ title \in {"Start", "Stop"}
  /\ starts \in 0..MaxStarts
  /\ pc \in [Runs -> Phases]
  /\ left \in [Runs -> Nat]
  /\ exec \in 0..starts
  /\ status \in [Runs -> {"none", "run", "shut", "stop"}]
  /\ queue \in [Runs -> Nat]
  /\ busy \in [Runs -> BOOLEAN]

\* Two runs are never under way together: the state that start() tests is RUN
\* from the accepted start to the last assignment of startTest(), which sets
\* it again, and nothing else clears it.
OneRunAtATime == \A r, s \in Runs : Active(r) /\ Active(s) => r = s

\* When the state says that no test runs, none does, in any executor: a run
\* that completes, fails to load or is stopped leaves no test behind for the
\* next one to meet.
NoTestLeftBehind ==
  mTestState # "RUN" => \A r \in Runs : ~busy[r] /\ queue[r] = 0

\* An accepted run leaves RUN again, so that the next start is accepted, however
\* it is stopped and whatever its configuration; only an exception that ends
\* startTest() prevents it.
EveryRunEnds == mTestState = "RUN" ~> mTestState # "RUN" \/ \E r \in Runs : pc[r] = "threw"
=============================================================================
