-------------------------- MODULE TestManagerProofs --------------------------
(***************************************************************************)
(* Proofs about TestManager for any number of runs and tests.              *)
(***************************************************************************)
EXTENDS TestManager, TLAPS

USE BoundsAssumption, ConfigAssumption

\* startTest() of the run was accepted and has not cleared the state; a run
\* that an exception ended never will.
Unfinished(r) == pc[r] \notin {"none", "ended"}

\* Unfinished runs keep the state at RUN, so there is one at most; from the
\* creation of its executor mExecutorService is its own; and only a run that
\* submits, awaits or was ended by an exception has tests.
RunInv ==
  /\ \A r \in Runs : r > starts => pc[r] = "none"
  /\ \A r \in Runs : Unfinished(r) => mTestState = "RUN"
  /\ \A r, s \in Runs : Unfinished(r) /\ Unfinished(s) => r = s
  /\ \A r \in Runs : pc[r] \in {"load", "parse", "submit", "await"} => exec = r
  /\ \A r \in Runs : busy[r] \/ queue[r] > 0 => pc[r] \in {"submit", "await", "threw"}

Inv == TypeOK /\ RunInv

LEMMA InitInv == Init => Inv
<1> SUFFICES ASSUME Init PROVE Inv
  OBVIOUS
<1>1. TypeOK  BY DEF Init, TypeOK, Runs, Phases
<1>2. RunInv  BY DEF Init, RunInv, Runs, Unfinished
<1>3. QED BY <1>1, <1>2 DEF Inv

\* stop() changes the executors only, and adds no test.
LEMMA StopInv ==
  ASSUME Inv, stop, title' \in {"Start", "Stop"}, UNCHANGED <<mTestState, starts, pc, left>>
  PROVE  Inv'
<1> USE DEF Inv
<1>1. CASE exec = 0
  BY <1>1 DEF stop, execVars, TypeOK, RunInv, Unfinished
<1>2. CASE exec # 0
  <2>1. TypeOK'  BY <1>2 DEF stop, TypeOK
  <2>2. /\ UNCHANGED <<exec, busy>>
        /\ \A r \in Runs : queue'[r] = queue[r] \/ queue'[r] = 0
    BY <1>2 DEF stop, TypeOK
  <2>3. RunInv'  BY <2>2 DEF RunInv, Unfinished, TypeOK
  <2>4. QED BY <2>1, <2>3
<1>3. QED BY <1>1, <1>2

LEMMA StartTestInv ==
  ASSUME Inv, NEW r \in Runs, StartTest(r)
  PROVE  Inv'
<1> USE DEF Inv, Goto, execVars, Runs
<1>1. CASE Begin(r)
  <2>1. TypeOK'  BY <1>1 DEF Begin, TypeOK, Phases
  <2>2. RunInv'  BY <1>1 DEF Begin, TypeOK, RunInv, Unfinished
  <2>3. QED BY <2>1, <2>2
<1>2. CASE CreateExecutor(r)
  <2>1. r \in 0..starts  BY <1>2 DEF CreateExecutor, TypeOK, RunInv
  <2>2. TypeOK'  BY <1>2, <2>1 DEF CreateExecutor, TypeOK, Phases
  <2>3. RunInv'  BY <1>2 DEF CreateExecutor, TypeOK, RunInv, Unfinished
  <2>4. QED BY <2>2, <2>3
<1>3. CASE Load(r)
  <2>1. TypeOK'  BY <1>3 DEF Load, TypeOK, Phases
  <2>2. RunInv'  BY <1>3 DEF Load, TypeOK, RunInv, Unfinished
  <2>3. QED BY <2>1, <2>2
<1>4. CASE Parse(r)
  <2>1. left' \in [Runs -> Nat]
    <3>1. left \in [Runs -> Nat]  BY DEF TypeOK
    <3>2. ASSUME NEW n \in 0..MaxTests, left' = [left EXCEPT ![r] = n]
          PROVE  left' \in [Runs -> Nat]
      BY <3>1, <3>2
    <3>3. CASE UNCHANGED left  BY <3>1, <3>3
    <3>4. QED BY <1>4, <3>2, <3>3 DEF Parse
  <2>2. pc' \in [Runs -> Phases]  BY <1>4 DEF Parse, TypeOK, Phases
  <2>3. TypeOK'  BY <1>4, <2>1, <2>2 DEF Parse, TypeOK
  <2>4. RunInv'  BY <1>4 DEF Parse, TypeOK, RunInv, Unfinished
  <2>5. QED BY <2>3, <2>4
<1>5. CASE Submit(r)
  <2>1. exec = r  BY <1>5 DEF Submit, RunInv
  <2>2. CASE /\ pc[r] = "submit" /\ left[r] > 0
             /\ left' = [left EXCEPT ![r] = @ - 1]
             /\ \/ queue' = [queue EXCEPT ![r] = @ + 1] /\ UNCHANGED busy
                \/ busy' = [busy EXCEPT ![r] = TRUE] /\ UNCHANGED queue
             /\ UNCHANGED <<mTestState, title, starts, pc, exec, status>>
    <3>1. left' \in [Runs -> Nat]  BY <2>2 DEF TypeOK
    <3>2. queue' \in [Runs -> Nat] /\ busy' \in [Runs -> BOOLEAN]
      <4> queue \in [Runs -> Nat] /\ busy \in [Runs -> BOOLEAN]  BY DEF TypeOK
      <4>1. CASE queue' = [queue EXCEPT ![r] = @ + 1] /\ UNCHANGED busy  BY <4>1
      <4>2. CASE busy' = [busy EXCEPT ![r] = TRUE] /\ UNCHANGED queue  BY <4>2
      <4>3. QED BY <2>2, <4>1, <4>2
    <3>3. TypeOK'  BY <2>2, <3>1, <3>2 DEF TypeOK
    <3>4. \A s \in Runs : s # r => queue'[s] = queue[s] /\ busy'[s] = busy[s]
      BY <2>2 DEF TypeOK
    <3>5. RunInv'  BY <2>2, <3>4 DEF RunInv, Unfinished
    <3>6. QED BY <3>3, <3>5
  <2>3. CASE Goto(r, "submit", "threw") /\ UNCHANGED <<mTestState, title, starts, left, execVars>>
    <3>1. TypeOK'  BY <2>3 DEF TypeOK, Phases
    <3>2. RunInv'  BY <2>3 DEF TypeOK, RunInv, Unfinished
    <3>3. QED BY <3>1, <3>2
  <2>4. CASE /\ Goto(r, "submit", "await")
             /\ status' = [status EXCEPT ![r] = IF @ = "run" THEN "shut" ELSE @]
             /\ UNCHANGED <<mTestState, title, starts, left, exec, queue, busy>>
    <3>1. status' \in [Runs -> {"none", "run", "shut", "stop"}]  BY <2>4 DEF TypeOK
    <3>2. TypeOK'  BY <2>4, <3>1 DEF TypeOK, Phases
    <3>3. RunInv'  BY <2>4 DEF TypeOK, RunInv, Unfinished
    <3>4. QED BY <3>2, <3>3
  <2>5. QED BY <1>5, <2>1, <2>2, <2>3, <2>4 DEF Submit
<1>6. CASE Await(r)
  <2>1. exec = r  BY <1>6 DEF Await, RunInv
  <2>2. TypeOK'  BY <1>6 DEF Await, TypeOK, Phases
  <2>3. RunInv'  BY <1>6, <2>1 DEF Await, IsTerminated, TypeOK, RunInv, Unfinished
  <2>4. QED BY <2>2, <2>3
<1>7. QED BY <1>1, <1>2, <1>3, <1>4, <1>5, <1>6 DEF StartTest

LEMMA StepInv == Inv /\ [Next]_vars => Inv'
<1> SUFFICES ASSUME Inv, [Next]_vars PROVE Inv'
  OBVIOUS
<1>1. CASE ToggleStart
  <2>1. CASE mTestState = "RUN"
    BY <1>1, <2>1 DEF ToggleStart, start, execVars, Inv, TypeOK, RunInv, Unfinished
  <2>2. CASE mTestState # "RUN"
    <3> USE <1>1, <2>2 DEF ToggleStart, start, execVars, Inv, Runs
    <3>1. starts + 1 \in Runs /\ starts \in Nat  BY DEF TypeOK
    <3>2. pc' \in [Runs -> Phases]  BY <3>1 DEF TypeOK, Phases
    <3>3. starts' \in 0..MaxStarts  BY <3>1
    <3>4. exec' \in 0..starts'  BY <3>1 DEF TypeOK
    <3>5. TypeOK'  BY <3>2, <3>3, <3>4 DEF TypeOK
    <3>6. \A r \in Runs : ~Unfinished(r)  BY DEF RunInv
    <3>7. /\ mTestState' = "RUN" /\ starts' = starts + 1 /\ UNCHANGED <<exec, busy, queue>>
          /\ \A r \in Runs : pc'[r] = IF r = starts + 1 THEN "queued" ELSE pc[r]
      BY <3>1 DEF TypeOK
    <3>8. RunInv'  BY <3>1, <3>6, <3>7 DEF RunInv, Unfinished
    <3>9. QED BY <3>5, <3>8
  <2>3. QED BY <2>1, <2>2
<1>2. CASE ToggleStop  BY <1>2, StopInv DEF ToggleStop
<1>3. CASE Destroy  BY <1>3, StopInv DEF Destroy
<1>4. CASE \E r \in Runs : StartTest(r)  BY <1>4, StartTestInv
<1>5. ASSUME NEW r \in Runs, TestEnds(r) PROVE Inv'
  <2> USE <1>5 DEF TestEnds, Inv
  <2>1. queue' \in [Runs -> Nat] /\ busy' \in [Runs -> BOOLEAN]
    <3>1. CASE queue[r] > 0  BY <3>1 DEF TypeOK
    <3>2. CASE ~(queue[r] > 0)  BY <3>2 DEF TypeOK
    <3>3. QED BY <3>1, <3>2
  <2>2. TypeOK'  BY <2>1 DEF TypeOK
  <2>3. \A s \in Runs : /\ s # r => queue'[s] = queue[s] /\ busy'[s] = busy[s]
                        /\ UNCHANGED <<mTestState, starts, pc, exec>>
    BY DEF TypeOK
  <2>4. RunInv'  BY <2>3 DEF RunInv, Unfinished
  <2>5. QED BY <2>2, <2>4
<1>6. CASE UNCHANGED vars
  BY <1>6 DEF vars, Inv, TypeOK, RunInv, Unfinished
<1>7. CASE ShowTestPager
  BY <1>7 DEF ShowTestPager, execVars, Inv, TypeOK, RunInv, Unfinished
<1>8. QED BY <1>1, <1>2, <1>3, <1>4, <1>5, <1>6, <1>7 DEF Next

\* The types hold in every reachable state.
THEOREM TypeCorrect == Spec => []TypeOK
<1>1. Inv => TypeOK  BY DEF Inv
<1>2. QED BY <1>1, InitInv, StepInv, PTL DEF Spec

\* start() never lets a second run in, whatever the user stops and when, and
\* although a stopped run keeps working for a while.
THEOREM RunsExclude == Spec => []OneRunAtATime
<1>1. Inv => OneRunAtATime  BY DEF Inv, RunInv, OneRunAtATime, Active, Unfinished
<1>2. QED BY <1>1, InitInv, StepInv, PTL DEF Spec

\* Once the state has left RUN no executor holds or executes a test.
THEOREM RunsLeaveNothing == Spec => []NoTestLeftBehind
<1>1. Inv => NoTestLeftBehind
  BY DEF Inv, TypeOK, RunInv, NoTestLeftBehind, Unfinished
<1>2. QED BY <1>1, InitInv, StepInv, PTL DEF Spec
==============================================================================
