----------------------------- MODULE VoiceTest -----------------------------
(***************************************************************************)
(* VoiceTest.java with PhoneStateReceiver.java and TelephonyUtil.java: a   *)
(* test that dials a number several times and hangs up after a while.      *)
(*                                                                         *)
(* Threads: the test thread in call() (pc), the main thread that delivers  *)
(* phone-state broadcasts to update() (mpc), and the hang-up timers of the *)
(* scheduled pool (timers).  The phone is external.  The receiver ignores  *)
(* what a broadcast says and asks the phone for its state, so a broadcast  *)
(* that waits for the main thread is only counted.                         *)
(*                                                                         *)
(* Time is abstract: a timer that is set, a timed wait and a sleep may end *)
(* at any moment.                                                          *)
(***************************************************************************)
EXTENDS Integers, Sequences

CONSTANTS
  Counts,      \* values of count, the number of calls the test makes
  CallTimes,   \* values of callTime, in seconds
  MaxCalls     \* bound: calls, dialled and incoming

ASSUME CountsAssumption == Counts \subseteq Nat
ASSUME CallTimesAssumption == CallTimes \subseteq Nat
ASSUME MaxCallsAssumption == MaxCalls \in Nat

VARIABLES
  pc,          \* where call() is
  i,           \* its loop variable
  callTime, count,
  observing,   \* the test is in PhoneStateReceiver's list of observers
  notified,    \* the waiting test thread was notified
  intr,        \* its interrupt flag
  requests,    \* ACTION_CALL intents the phone has not handled
  phone,       \* TelephonyManager.getCallState()
  below,       \* the state under a RINGING one
  callNo,      \* number of the present or the last call
  rings,       \* incoming calls so far
  broadcasts,  \* PHONE_STATE broadcasts waiting for the main thread
  mpc, data,   \* where onReceive is, and the argument of notifyObservers
  timers,      \* every hang-up task ever scheduled
  endCallTask, \* index of the one the field refers to; 0 is null
  overlap,     \* history: the phone changed before update() saw the last change
  stopped,     \* history: the test thread was interrupted
  upset        \* history: a wait timed out, ITelephony failed, or the test
               \* dialled with the previous call unsettled

testVars == <<pc, i, callTime, count, observing>>
phoneVars == <<phone, below, callNo, broadcasts, overlap>>
mainVars == <<mpc, data, endCallTask>>
vars == <<testVars, notified, intr, requests, phoneVars, rings, mainVars, timers,
          stopped, upset>>

Init ==
  /\ pc = "start" /\ i = 0 /\ callTime \in CallTimes /\ count \in Counts
  /\ observing = FALSE /\ notified = FALSE /\ intr = FALSE
  /\ requests = 0 /\ phone = "IDLE" /\ below = "IDLE" /\ callNo = 0 /\ rings = 0
  /\ broadcasts = 0 /\ mpc = "idle" /\ data = "IDLE"
  /\ timers = <<>> /\ endCallTask = 0
  /\ overlap = FALSE /\ stopped = FALSE /\ upset = FALSE

-----------------------------------------------------------------------------
(* The phone.                                                              *)

\* Every change of state is broadcast.  It overlaps an earlier one that
\* update() has not seen yet.
PhoneTo(s) ==
  /\ phone' = s
  /\ broadcasts' = broadcasts + 1
  /\ \/ broadcasts = 0 /\ mpc = "idle" /\ UNCHANGED overlap
     \/ (broadcasts > 0 \/ mpc # "idle") /\ overlap' = TRUE

\* The dialer handles an ACTION_CALL intent; on a busy phone, or without
\* service, no call comes of it.
PlaceCall ==
  /\ requests > 0
  /\ requests' = requests - 1
  /\ \/ phone = "IDLE" /\ PhoneTo("OFFHOOK") /\ callNo' = callNo + 1
     \/ UNCHANGED <<phone, broadcasts, overlap, callNo>>
  /\ UNCHANGED <<testVars, notified, intr, below, rings, mainVars, timers,
                 stopped, upset>>

HangUp ==
  /\ phone = "OFFHOOK"
  /\ PhoneTo("IDLE")
  /\ UNCHANGED <<testVars, notified, intr, requests, below, callNo, rings,
                 mainVars, timers, stopped, upset>>

\* An incoming call, on an idle phone or during a call.
Ring ==
  /\ phone # "RINGING" /\ count + rings < MaxCalls
  /\ rings' = rings + 1
  /\ below' = phone
  /\ PhoneTo("RINGING")
  /\ UNCHANGED <<testVars, notified, intr, requests, callNo, mainVars, timers,
                 stopped, upset>>

\* It is answered or it goes away.
RingEnds ==
  /\ phone = "RINGING"
  /\ \/ PhoneTo("OFFHOOK") /\ callNo' = callNo + 1
     \/ PhoneTo(below) /\ UNCHANGED callNo
  /\ below' = "IDLE"
  /\ UNCHANGED <<testVars, notified, intr, requests, rings, mainVars, timers,
                 stopped, upset>>

\* ITelephony.endCall() ends the call or rejects the ringing one.  A
\* RemoteException is caught and logged.
TelephonyEndCall ==
  /\ \/ phone = "IDLE" /\ UNCHANGED <<phone, below, broadcasts, overlap, upset>>
     \/ phone # "IDLE" /\ PhoneTo(below) /\ below' = "IDLE" /\ UNCHANGED upset
     \/ upset' = TRUE /\ UNCHANGED <<phone, below, broadcasts, overlap>>
  /\ UNCHANGED <<callNo, stopped>>

-----------------------------------------------------------------------------
(* call().                                                                 *)

AddObserver ==
  /\ pc = "start"
  /\ observing' = TRUE
  /\ pc' = "dial"
  /\ UNCHANGED <<i, callTime, count, notified, intr, requests, phoneVars, rings,
                 mainVars, timers, stopped, upset>>

\* A notification that belongs to the previous call may still come.
Unsettled ==
  broadcasts > 0 \/ mpc # "idle" \/ \E t \in DOMAIN timers : timers[t].st = "ended"

\* The head of the loop and dial(), which returns TRUE whatever comes of the
\* intent, or throws: then the loop is left.
Dial ==
  /\ pc = "dial"
  /\ \/ /\ i < count
        /\ requests' = requests + 1
        /\ IF Unsettled THEN upset' = TRUE ELSE UNCHANGED upset
        /\ pc' = "dialled"
     \/ pc' = "finally" /\ UNCHANGED <<requests, upset>>
  /\ UNCHANGED <<i, callTime, count, observing, notified, intr, phoneVars,
                 rings, mainVars, timers, stopped>>

\* Fault: the test does not wait for the call.
Wait_Not ==
  /\ pc = "dialled" /\ ~intr
  /\ pc' = "sleep" /\ notified' = FALSE
  /\ UNCHANGED <<i, callTime, count, observing, intr, requests, phoneVars,
                 rings, mainVars, timers, stopped, upset>>

\* wait() gives up the monitor that stopWait() takes: a notification before
\* this step is lost.
Wait ==
  /\ pc = "dialled" /\ ~intr
  /\ pc' = "waiting"
  /\ notified' = FALSE
  /\ UNCHANGED <<i, callTime, count, observing, intr, requests, phoneVars,
                 rings, mainVars, timers, stopped, upset>>

\* Fault: wait() without a timeout.
WaitTime_Forever == 0

\* The argument of wait(), where 0 means no timeout.
WaitTime == 3000 * callTime

WaitEnds ==
  /\ pc = "waiting"
  /\ \/ notified /\ UNCHANGED upset
     \/ WaitTime > 0 /\ upset' = TRUE
  /\ pc' = "sleep"
  /\ notified' = FALSE
  /\ UNCHANGED <<i, callTime, count, observing, intr, requests, phoneVars,
                 rings, mainVars, timers, stopped>>

SleepEnds ==
  /\ pc = "sleep" /\ ~intr
  /\ i' = i + 1
  /\ pc' = "dial"
  /\ UNCHANGED <<callTime, count, observing, notified, intr, requests,
                 phoneVars, rings, mainVars, timers, stopped, upset>>

\* TestManager.stop() interrupts the test thread.
Interrupt ==
  /\ pc # "ended" /\ ~stopped
  /\ intr' = TRUE
  /\ stopped' = TRUE
  /\ UNCHANGED <<testVars, notified, requests, phoneVars, rings, mainVars,
                 timers, upset>>

\* wait() or sleep() throws InterruptedException.
Interrupted ==
  /\ pc \in {"dialled", "waiting", "sleep"} /\ intr
  /\ intr' = FALSE
  /\ pc' = "catch"
  /\ UNCHANGED <<i, callTime, count, observing, notified, requests, phoneVars,
                 rings, mainVars, timers, stopped, upset>>

\* endCall() in the handler; its notifyAll finds nobody waiting.
CatchEndCall ==
  /\ pc = "catch"
  /\ TelephonyEndCall
  /\ pc' = "finally"
  /\ UNCHANGED <<i, callTime, count, observing, notified, intr, requests, rings,
                 mainVars, timers>>

DeleteObserver ==
  /\ pc = "finally"
  /\ observing' = FALSE
  /\ pc' = "ended"
  /\ UNCHANGED <<i, callTime, count, notified, intr, requests, phoneVars, rings,
                 mainVars, timers, stopped, upset>>

TestThread == AddObserver \/ Dial \/ Wait \/ WaitEnds \/ SleepEnds \/ Interrupted
              \/ CatchEndCall \/ DeleteObserver

-----------------------------------------------------------------------------
(* onReceive() and update(), on the main thread.                           *)

\* getCallState().
Receive ==
  /\ mpc = "idle" /\ broadcasts > 0
  /\ broadcasts' = broadcasts - 1
  /\ data' = phone
  /\ mpc' = "notify"
  /\ UNCHANGED <<testVars, notified, intr, requests, phone, below, callNo,
                 overlap, rings, endCallTask, timers, stopped, upset>>

\* Observable.notifyObservers copies the list of observers, then calls them.
NotifyObservers ==
  /\ mpc = "notify"
  /\ mpc' = IF observing THEN "update" ELSE "idle"
  /\ UNCHANGED <<testVars, notified, intr, requests, phoneVars, rings, data,
                 endCallTask, timers, stopped, upset>>

\* A task that ran or was cancelled.
Over == [st |-> "over", call |-> 0]

\* stopWait(): only the test thread waits on this monitor.
StopWait == notified' = (notified \/ pc = "waiting")

\* Fault: the timer is not cancelled.
UpdateIdle_NoCancel ==
  /\ mpc = "update" /\ data = "IDLE"
  /\ StopWait
  /\ mpc' = "idle"
  /\ UNCHANGED <<testVars, intr, requests, phoneVars, rings, data, endCallTask,
                 timers, stopped, upset>>

\* CALL_STATE_IDLE.  cancel(true) of a task that is running does not stop it:
\* endCall() never looks at the interrupt flag.
UpdateIdle ==
  /\ mpc = "update" /\ data = "IDLE"
  /\ timers' = [t \in DOMAIN timers |->
                  IF t = endCallTask /\ timers[t].st = "set"
                  THEN Over ELSE timers[t]]
  /\ StopWait
  /\ mpc' = "idle"
  /\ UNCHANGED <<testVars, intr, requests, phoneVars, rings, data, endCallTask,
                 stopped, upset>>

\* Fault: the new task is not kept in the field.
UpdateOffhook_NotKept ==
  /\ mpc = "update" /\ data = "OFFHOOK"
  /\ timers' = Append(timers, [st |-> "set", call |-> callNo])
  /\ mpc' = "idle"
  /\ UNCHANGED <<testVars, notified, intr, requests, phoneVars, rings, data,
                 endCallTask, stopped, upset>>

\* CALL_STATE_OFFHOOK.  The call a timer is for is remembered as history.
UpdateOffhook ==
  /\ mpc = "update" /\ data = "OFFHOOK"
  /\ timers' = Append(timers, [st |-> "set", call |-> callNo])
  /\ endCallTask' = Len(timers')
  /\ mpc' = "idle"
  /\ UNCHANGED <<testVars, notified, intr, requests, phoneVars, rings, data,
                 stopped, upset>>

UpdateRinging ==
  /\ mpc = "update" /\ data = "RINGING"
  /\ mpc' = "idle"
  /\ UNCHANGED <<testVars, notified, intr, requests, phoneVars, rings, data,
                 endCallTask, timers, stopped, upset>>

MainThread ==
  Receive \/ NotifyObservers \/ UpdateIdle \/ UpdateOffhook \/ UpdateRinging

-----------------------------------------------------------------------------
(* endCall() on a thread of the scheduled pool.                            *)

TimerEndCall(t) ==
  /\ timers[t].st = "set"
  /\ TelephonyEndCall
  /\ timers' = [timers EXCEPT ![t].st = "ended"]
  /\ UNCHANGED <<testVars, notified, intr, requests, rings, mainVars>>

TimerStopWait(t) ==
  /\ timers[t].st = "ended"
  /\ StopWait
  /\ timers' = [timers EXCEPT ![t] = Over]
  /\ UNCHANGED <<testVars, intr, requests, phoneVars, rings, mainVars, stopped,
                 upset>>

-----------------------------------------------------------------------------
Next ==
  \/ PlaceCall \/ HangUp \/ Ring \/ RingEnds
  \/ TestThread \/ Interrupt \/ MainThread
  \/ \E t \in DOMAIN timers : TimerEndCall(t) \/ TimerStopWait(t)

Spec == Init /\ [][Next]_vars

\* The test thread is scheduled by the system, a timed wait and a sleep end.
\* Nothing makes the phone, the network or another caller act, and the
\* properties do not need the main thread or a timer to be prompt.
FairSpec == Spec /\ WF_vars(TestThread)

-----------------------------------------------------------------------------
(* Properties.                                                             *)

Timers == [st : {"set", "ended", "over"}, call : Nat]

TypeOK ==
  /\ pc \in {"start", "dial", "dialled", "waiting", "sleep", "catch", "finally",
            "ended"}
  /\ callTime \in Nat /\ count \in Nat /\ i \in 0..count
  /\ observing \in BOOLEAN /\ notified \in BOOLEAN /\ intr \in BOOLEAN
  /\ requests \in Nat
  /\ phone \in {"IDLE", "RINGING", "OFFHOOK"} /\ below \in {"IDLE", "OFFHOOK"}
  /\ callNo \in Nat /\ rings \in Nat /\ broadcasts \in Nat
  /\ mpc \in {"idle", "notify", "update"} /\ data \in {"IDLE", "RINGING", "OFFHOOK"}
  /\ timers \in Seq(Timers)
  /\ endCallTask \in 0..Len(timers)
  /\ overlap \in BOOLEAN /\ stopped \in BOOLEAN /\ upset \in BOOLEAN

Set(t) == timers[t].st = "set"

\* update() keeps only the last timer in endCallTask and forgets the one before.
\* A timer that nothing can cancel any more exists only after an incoming call,
\* or after the phone changed state before update() had seen the last change.
LoneTimer ==
  ~overlap /\ rings = 0 =>
    \A t \in DOMAIN timers : Set(t) => t = endCallTask

\* While the test observes the phone, a hang-up timer ends the call it was set
\* for and not a later one, unless a change of state was overtaken or a call
\* came in.  After deleteObserver() nothing cancels a timer that is still set.
TimerEndsOwnCall ==
  [][\A t \in DOMAIN timers :
       /\ observing /\ Set(t) /\ timers'[t].st = "ended"
       /\ phone = "OFFHOOK" /\ phone' = "IDLE"
       => timers[t].call = callNo \/ overlap \/ rings > 0]_vars

\* A test that nothing disturbed leaves no call, no request for one and no
\* timer behind when call() removes the observer.
CleanEnd ==
  pc = "ended" /\ ~overlap /\ ~stopped /\ ~upset /\ rings = 0 =>
    /\ phone = "IDLE" /\ requests = 0
    /\ \A t \in DOMAIN timers : ~Set(t)

\* The notification of stopWait() may come before the wait it is meant for; the
\* timeout of the wait makes the test end all the same.  A call-time of 0 is
\* excluded: wait(0) has no timeout.
VoiceTestEnds == callTime > 0 => <>(pc = "ended")

\* An interrupt ends the test wherever it arrives, whatever call-time is.
InterruptEndsTest == stopped ~> pc = "ended"

\* call() ends: by its time-outs, and by an interrupt where it has none.
TestEnds == VoiceTestEnds /\ InterruptEndsTest
=============================================================================
