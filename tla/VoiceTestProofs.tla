-------------------------- MODULE VoiceTestProofs --------------------------
(***************************************************************************)
(* What TLAPS proves of VoiceTest for every number of calls: the types,    *)
(* and that while no change of state is overtaken and no call comes in,    *)
(* the only timer that is set is the one endCallTask refers to, and it     *)
(* belongs to the present call; and that a test which nothing disturbs     *)
(* leaves nothing behind.                                                  *)
(***************************************************************************)
EXTENDS VoiceTest, TLAPS

Calm == ~overlap /\ rings = 0
NoneSet == \A t \in DOMAIN timers : timers[t].st # "set"

\* Until it ends the test observes the phone, and no timer is older than it.
\* The last conjunct bounds the loop variable.
Registration ==
  /\ pc = "start" => timers = <<>> /\ mpc # "update" /\ ~observing
  /\ pc \notin {"start", "ended"} => observing
  /\ pc = "ended" => ~observing
  /\ pc \in {"dialled", "waiting", "sleep"} => i < count

\* Calm: at most one change of state is on its way to update(), and what
\* onReceive read is still the state of the phone.
OneInFlight ==
  Calm => /\ broadcasts <= 1
          /\ mpc # "idle" => broadcasts = 0 /\ data = phone
          /\ phone # "RINGING" /\ below = "IDLE"

\* Calm: when update() has seen the end of a call, and until it sees the
\* beginning of the next one, no timer is set.
NoTimerBetweenCalls ==
  Calm => /\ phone = "IDLE" /\ broadcasts = 0 /\ mpc = "idle" =>
               NoneSet \/ pc = "ended"
          /\ phone = "OFFHOOK" /\ (broadcasts > 0 \/ mpc = "notify") =>
               NoneSet \/ pc = "ended"
          /\ phone = "OFFHOOK" /\ mpc = "update" => NoneSet

\* Calm: the timer that is set belongs to the present call.
TimerOfPresentCall ==
  Calm /\ pc # "ended" /\ phone = "OFFHOOK" =>
    \A t \in DOMAIN timers : timers[t].st = "set" => timers[t].call = callNo

IInv ==
  /\ TypeOK
  /\ Registration
  /\ OneInFlight
  /\ NoTimerBetweenCalls
  /\ LoneTimer
  /\ TimerOfPresentCall

LEMMA InitInv == Init => IInv
<1> SUFFICES ASSUME Init PROVE IInv
  OBVIOUS
<1>1. TypeOK
  <2>1. callTime \in Nat /\ count \in Nat
    BY CountsAssumption, CallTimesAssumption DEF Init
  <2>2. timers \in Seq(Timers) /\ Len(timers) = 0
    BY DEF Init
  <2>3. endCallTask \in 0..Len(timers) /\ i \in 0..count  BY <2>1, <2>2 DEF Init
  <2>4. QED BY <2>1, <2>2, <2>3 DEF Init, TypeOK
<1>2. Registration /\ OneInFlight  BY DEF Init, Registration, OneInFlight
<1>3. NoTimerBetweenCalls /\ LoneTimer /\ TimerOfPresentCall
  BY DEF Init, NoTimerBetweenCalls, LoneTimer, TimerOfPresentCall, NoneSet
<1>4. QED BY <1>1, <1>2, <1>3 DEF IInv

\* A change of the phone's state keeps the types of what it changes.
LEMMA PhoneToType ==
  ASSUME TypeOK, NEW s \in {"IDLE", "RINGING", "OFFHOOK"}, PhoneTo(s)
  PROVE  /\ phone' \in {"IDLE", "RINGING", "OFFHOOK"}
         /\ broadcasts' \in Nat
         /\ overlap' \in BOOLEAN
<1>1. overlap' \in BOOLEAN
  <2>1. CASE UNCHANGED overlap  BY <2>1 DEF TypeOK
  <2>2. CASE overlap' = TRUE  BY <2>2
  <2>3. QED BY <2>1, <2>2 DEF PhoneTo
<1>2. QED BY <1>1 DEF TypeOK, PhoneTo

\* So does TelephonyUtil.endCall().
LEMMA EndCallType ==
  ASSUME TypeOK, TelephonyEndCall
  PROVE  /\ phone' \in {"IDLE", "RINGING", "OFFHOOK"} /\ below' \in {"IDLE", "OFFHOOK"}
         /\ broadcasts' \in Nat /\ overlap' \in BOOLEAN /\ upset' \in BOOLEAN
         /\ UNCHANGED <<callNo, stopped>>
<1>1. CASE UNCHANGED <<phone, below, broadcasts, overlap, upset>>
  BY <1>1 DEF TelephonyEndCall, TypeOK
<1>2. CASE PhoneTo(below) /\ below' = "IDLE" /\ UNCHANGED upset
  <2>1. below \in {"IDLE", "RINGING", "OFFHOOK"}  BY DEF TypeOK
  <2>2. QED BY <1>2, <2>1, PhoneToType DEF TelephonyEndCall, TypeOK
<1>3. CASE upset' = TRUE /\ UNCHANGED <<phone, below, broadcasts, overlap>>
  BY <1>3 DEF TelephonyEndCall, TypeOK
<1>4. QED BY <1>1, <1>2, <1>3 DEF TelephonyEndCall

LEMMA StepInv == IInv /\ [Next]_vars => IInv'
<1> SUFFICES ASSUME IInv, [Next]_vars PROVE IInv'
  OBVIOUS
<1> USE DEF IInv, testVars, phoneVars, mainVars, Calm, NoneSet, Set
<1>1. CASE PlaceCall
  <2>0. /\ phone' \in {"IDLE", "RINGING", "OFFHOOK"}
        /\ broadcasts' \in Nat /\ overlap' \in BOOLEAN
    BY <1>1, PhoneToType DEF PlaceCall, TypeOK
  <2>1. TypeOK'  BY <1>1, <2>0 DEF PlaceCall, TypeOK, Registration
  <2>2. Registration'  BY <1>1 DEF PlaceCall, PhoneTo, TypeOK, Registration
  <2>3. OneInFlight'  BY <1>1 DEF PlaceCall, PhoneTo, TypeOK, OneInFlight
  <2>4. NoTimerBetweenCalls'
    BY <1>1 DEF PlaceCall, PhoneTo, TypeOK, Registration, OneInFlight,
         NoTimerBetweenCalls, LoneTimer
  <2>5. LoneTimer'
    BY <1>1 DEF PlaceCall, PhoneTo, TypeOK, OneInFlight, NoTimerBetweenCalls,
         LoneTimer
  <2>6. TimerOfPresentCall'
    BY <1>1 DEF PlaceCall, PhoneTo, TypeOK, Registration, OneInFlight,
         NoTimerBetweenCalls, TimerOfPresentCall
  <2>7. QED BY <2>1, <2>2, <2>3, <2>4, <2>5, <2>6
<1>2. CASE HangUp
  <2>0. /\ phone' \in {"IDLE", "RINGING", "OFFHOOK"}
        /\ broadcasts' \in Nat /\ overlap' \in BOOLEAN
    BY <1>2, PhoneToType DEF HangUp, TypeOK
  <2>1. TypeOK'  BY <1>2, <2>0 DEF HangUp, TypeOK, Registration
  <2>2. Registration'  BY <1>2 DEF HangUp, PhoneTo, TypeOK, Registration
  <2>3. OneInFlight'  BY <1>2 DEF HangUp, PhoneTo, TypeOK, OneInFlight
  <2>4. NoTimerBetweenCalls'
    BY <1>2 DEF HangUp, PhoneTo, TypeOK, Registration, OneInFlight,
         NoTimerBetweenCalls, LoneTimer
  <2>5. LoneTimer'
    BY <1>2 DEF HangUp, PhoneTo, TypeOK, OneInFlight, NoTimerBetweenCalls,
         LoneTimer
  <2>6. TimerOfPresentCall'
    BY <1>2 DEF HangUp, PhoneTo, TypeOK, Registration, OneInFlight,
         NoTimerBetweenCalls, TimerOfPresentCall
  <2>7. QED BY <2>1, <2>2, <2>3, <2>4, <2>5, <2>6
<1>3. CASE Ring
  <2>0. /\ phone' \in {"IDLE", "RINGING", "OFFHOOK"}
        /\ broadcasts' \in Nat /\ overlap' \in BOOLEAN
    BY <1>3, PhoneToType DEF Ring, TypeOK
  <2>1. TypeOK'  BY <1>3, <2>0 DEF Ring, TypeOK, Registration
  <2>2. Registration'  BY <1>3 DEF Ring, PhoneTo, TypeOK, Registration
  <2>3. OneInFlight'  BY <1>3 DEF Ring, PhoneTo, TypeOK, OneInFlight
  <2>4. NoTimerBetweenCalls'
    BY <1>3 DEF Ring, PhoneTo, TypeOK, Registration, OneInFlight,
         NoTimerBetweenCalls, LoneTimer
  <2>5. LoneTimer'
    BY <1>3 DEF Ring, PhoneTo, TypeOK, OneInFlight, NoTimerBetweenCalls,
         LoneTimer
  <2>6. TimerOfPresentCall'
    BY <1>3 DEF Ring, PhoneTo, TypeOK, Registration, OneInFlight,
         NoTimerBetweenCalls, TimerOfPresentCall
  <2>7. QED BY <2>1, <2>2, <2>3, <2>4, <2>5, <2>6
<1>4. CASE RingEnds
  <2>0. /\ phone' \in {"IDLE", "RINGING", "OFFHOOK"}
        /\ broadcasts' \in Nat /\ overlap' \in BOOLEAN
    BY <1>4, PhoneToType DEF RingEnds, TypeOK
  <2>1. TypeOK'  BY <1>4, <2>0 DEF RingEnds, TypeOK, Registration
  <2>2. Registration'  BY <1>4 DEF RingEnds, PhoneTo, TypeOK, Registration
  <2>3. OneInFlight'  BY <1>4 DEF RingEnds, PhoneTo, TypeOK, OneInFlight
  <2>4. NoTimerBetweenCalls'
    BY <1>4 DEF RingEnds, PhoneTo, TypeOK, Registration, OneInFlight,
         NoTimerBetweenCalls, LoneTimer
  <2>5. LoneTimer'
    BY <1>4 DEF RingEnds, PhoneTo, TypeOK, OneInFlight, NoTimerBetweenCalls,
         LoneTimer
  <2>6. TimerOfPresentCall'
    BY <1>4 DEF RingEnds, PhoneTo, TypeOK, Registration, OneInFlight,
         NoTimerBetweenCalls, TimerOfPresentCall
  <2>7. QED BY <2>1, <2>2, <2>3, <2>4, <2>5, <2>6
<1>5. CASE AddObserver
  <2>1. TypeOK'  BY <1>5 DEF AddObserver, TypeOK, Registration
  <2>2. (Registration /\ OneInFlight /\ NoTimerBetweenCalls)'
    BY <1>5 DEF AddObserver, TypeOK, Registration, OneInFlight,
         NoTimerBetweenCalls
  <2>3. (LoneTimer /\ TimerOfPresentCall)'
    BY <1>5 DEF AddObserver, LoneTimer, TimerOfPresentCall
  <2>4. QED BY <2>1, <2>2, <2>3
<1>6. CASE Dial
  <2>0. upset' \in BOOLEAN
    <3>1. CASE UNCHANGED upset  BY <3>1 DEF TypeOK
    <3>2. CASE upset' = TRUE  BY <3>2
    <3>3. QED BY <1>6, <3>1, <3>2 DEF Dial
  <2>1. TypeOK'  BY <1>6, <2>0 DEF Dial, TypeOK, Registration
  <2>2. (Registration /\ OneInFlight /\ NoTimerBetweenCalls)'
    BY <1>6 DEF Dial, TypeOK, Registration, OneInFlight, NoTimerBetweenCalls
  <2>3. (LoneTimer /\ TimerOfPresentCall)'
    BY <1>6 DEF Dial, LoneTimer, TimerOfPresentCall
  <2>4. QED BY <2>1, <2>2, <2>3
<1>7. CASE Wait
  <2>1. TypeOK'  BY <1>7 DEF Wait, TypeOK, Registration
  <2>2. (Registration /\ OneInFlight /\ NoTimerBetweenCalls)'
    BY <1>7 DEF Wait, TypeOK, Registration, OneInFlight, NoTimerBetweenCalls
  <2>3. (LoneTimer /\ TimerOfPresentCall)'
    BY <1>7 DEF Wait, LoneTimer, TimerOfPresentCall
  <2>4. QED BY <2>1, <2>2, <2>3
<1>8. CASE WaitEnds
  <2>1. TypeOK'  BY <1>8 DEF WaitEnds, TypeOK, Registration
  <2>2. (Registration /\ OneInFlight /\ NoTimerBetweenCalls)'
    BY <1>8 DEF WaitEnds, TypeOK, Registration, OneInFlight, NoTimerBetweenCalls
  <2>3. (LoneTimer /\ TimerOfPresentCall)'
    BY <1>8 DEF WaitEnds, LoneTimer, TimerOfPresentCall
  <2>4. QED BY <2>1, <2>2, <2>3
<1>9. CASE SleepEnds
  <2>1. TypeOK'  BY <1>9 DEF SleepEnds, TypeOK, Registration
  <2>2. (Registration /\ OneInFlight /\ NoTimerBetweenCalls)'
    BY <1>9 DEF SleepEnds, TypeOK, Registration, OneInFlight,
         NoTimerBetweenCalls
  <2>3. (LoneTimer /\ TimerOfPresentCall)'
    BY <1>9 DEF SleepEnds, LoneTimer, TimerOfPresentCall
  <2>4. QED BY <2>1, <2>2, <2>3
<1>10. CASE Interrupted
  <2>1. TypeOK'  BY <1>10 DEF Interrupted, TypeOK, Registration
  <2>2. (Registration /\ OneInFlight /\ NoTimerBetweenCalls)'
    BY <1>10 DEF Interrupted, TypeOK, Registration, OneInFlight,
         NoTimerBetweenCalls
  <2>3. (LoneTimer /\ TimerOfPresentCall)'
    BY <1>10 DEF Interrupted, LoneTimer, TimerOfPresentCall
  <2>4. QED BY <2>1, <2>2, <2>3
<1>11. CASE CatchEndCall
  <2>1. TypeOK'  BY <1>11, EndCallType DEF CatchEndCall, TypeOK, Registration
  <2>2. Registration'  BY <1>11 DEF CatchEndCall, TelephonyEndCall, PhoneTo,
                            TypeOK, Registration
  <2>3. OneInFlight'  BY <1>11 DEF CatchEndCall, TelephonyEndCall, PhoneTo,
                           TypeOK, OneInFlight
  <2>4. NoTimerBetweenCalls'
    BY <1>11 DEF CatchEndCall, TelephonyEndCall, PhoneTo, TypeOK, Registration,
         OneInFlight, NoTimerBetweenCalls, LoneTimer
  <2>5. LoneTimer'
    BY <1>11 DEF CatchEndCall, TelephonyEndCall, PhoneTo, TypeOK, OneInFlight,
         NoTimerBetweenCalls, LoneTimer
  <2>6. TimerOfPresentCall'
    BY <1>11 DEF CatchEndCall, TelephonyEndCall, PhoneTo, TypeOK, Registration,
         OneInFlight, NoTimerBetweenCalls, TimerOfPresentCall
  <2>7. QED BY <2>1, <2>2, <2>3, <2>4, <2>5, <2>6
<1>12. CASE DeleteObserver
  <2>1. TypeOK'  BY <1>12 DEF DeleteObserver, TypeOK, Registration
  <2>2. (Registration /\ OneInFlight /\ NoTimerBetweenCalls)'
    BY <1>12 DEF DeleteObserver, TypeOK, Registration, OneInFlight,
         NoTimerBetweenCalls
  <2>3. (LoneTimer /\ TimerOfPresentCall)'
    BY <1>12 DEF DeleteObserver, LoneTimer, TimerOfPresentCall
  <2>4. QED BY <2>1, <2>2, <2>3
<1>13. CASE Interrupt
  <2>1. TypeOK'  BY <1>13 DEF Interrupt, TypeOK, Registration
  <2>2. (Registration /\ OneInFlight /\ NoTimerBetweenCalls)'
    BY <1>13 DEF Interrupt, TypeOK, Registration, OneInFlight,
         NoTimerBetweenCalls
  <2>3. (LoneTimer /\ TimerOfPresentCall)'
    BY <1>13 DEF Interrupt, LoneTimer, TimerOfPresentCall
  <2>4. QED BY <2>1, <2>2, <2>3
<1>14. CASE Receive
  <2>1. TypeOK'  BY <1>14 DEF Receive, TypeOK, Registration
  <2>2. Registration'  BY <1>14 DEF Receive, TypeOK, Registration
  <2>3. OneInFlight'  BY <1>14 DEF Receive, TypeOK, OneInFlight
  <2>4. NoTimerBetweenCalls'
    BY <1>14 DEF Receive, TypeOK, Registration, OneInFlight,
         NoTimerBetweenCalls, LoneTimer
  <2>5. LoneTimer'
    BY <1>14 DEF Receive, TypeOK, OneInFlight, NoTimerBetweenCalls, LoneTimer
  <2>6. TimerOfPresentCall'
    BY <1>14 DEF Receive, TypeOK, Registration, OneInFlight,
         NoTimerBetweenCalls, TimerOfPresentCall
  <2>7. QED BY <2>1, <2>2, <2>3, <2>4, <2>5, <2>6
<1>15. CASE NotifyObservers
  <2>1. TypeOK'  BY <1>15 DEF NotifyObservers, TypeOK, Registration
  <2>2. Registration'  BY <1>15 DEF NotifyObservers, TypeOK, Registration
  <2>3. OneInFlight'  BY <1>15 DEF NotifyObservers, TypeOK, OneInFlight
  <2>4. NoTimerBetweenCalls'
    BY <1>15 DEF NotifyObservers, TypeOK, Registration, OneInFlight,
         NoTimerBetweenCalls, LoneTimer
  <2>5. LoneTimer'
    BY <1>15 DEF NotifyObservers, TypeOK, OneInFlight, NoTimerBetweenCalls,
         LoneTimer
  <2>6. TimerOfPresentCall'
    BY <1>15 DEF NotifyObservers, TypeOK, Registration, OneInFlight,
         NoTimerBetweenCalls, TimerOfPresentCall
  <2>7. QED BY <2>1, <2>2, <2>3, <2>4, <2>5, <2>6
<1>16. CASE UpdateIdle
  <2>1. TypeOK'  BY <1>16 DEF UpdateIdle, StopWait, Over, TypeOK, Timers
  <2>2. Registration'  BY <1>16 DEF UpdateIdle, StopWait, Over, TypeOK,
                            Registration
  <2>3. OneInFlight'  BY <1>16 DEF UpdateIdle, StopWait, Over, TypeOK,
                           OneInFlight
  <2>4. NoTimerBetweenCalls'
    BY <1>16 DEF UpdateIdle, StopWait, Over, TypeOK, Registration, OneInFlight,
         NoTimerBetweenCalls, LoneTimer
  <2>5. LoneTimer'
    BY <1>16 DEF UpdateIdle, StopWait, Over, TypeOK, OneInFlight,
         NoTimerBetweenCalls, LoneTimer
  <2>6. TimerOfPresentCall'
    BY <1>16 DEF UpdateIdle, StopWait, Over, TypeOK, Registration, OneInFlight,
         NoTimerBetweenCalls, TimerOfPresentCall
  <2>7. QED BY <2>1, <2>2, <2>3, <2>4, <2>5, <2>6
<1>17. CASE UpdateOffhook
  <2>1. TypeOK'  BY <1>17 DEF UpdateOffhook, TypeOK, Timers
  <2>2. Registration'  BY <1>17 DEF UpdateOffhook, TypeOK, Registration
  <2>3. OneInFlight'  BY <1>17 DEF UpdateOffhook, TypeOK, OneInFlight
  <2>4. NoTimerBetweenCalls'
    BY <1>17 DEF UpdateOffhook, TypeOK, Registration, OneInFlight,
         NoTimerBetweenCalls, LoneTimer
  <2>5. LoneTimer'
    BY <1>17 DEF UpdateOffhook, TypeOK, OneInFlight, NoTimerBetweenCalls,
         LoneTimer
  <2>6. TimerOfPresentCall'
    BY <1>17 DEF UpdateOffhook, TypeOK, Registration, OneInFlight,
         NoTimerBetweenCalls, TimerOfPresentCall
  <2>7. QED BY <2>1, <2>2, <2>3, <2>4, <2>5, <2>6
<1>18. CASE UpdateRinging
  <2>1. TypeOK'  BY <1>18 DEF UpdateRinging, TypeOK, Registration
  <2>2. (Registration /\ OneInFlight /\ NoTimerBetweenCalls)'
    BY <1>18 DEF UpdateRinging, TypeOK, Registration, OneInFlight,
         NoTimerBetweenCalls
  <2>3. (LoneTimer /\ TimerOfPresentCall)'
    BY <1>18 DEF UpdateRinging, LoneTimer, TimerOfPresentCall
  <2>4. QED BY <2>1, <2>2, <2>3
<1>19. CASE \E t \in DOMAIN timers : TimerEndCall(t)
  <2>1. TypeOK'
    <3>1. PICK t \in DOMAIN timers : TimerEndCall(t)  BY <1>19
    <3>2. timers' \in Seq(Timers) /\ Len(timers') = Len(timers)
      <4> DEFINE r == [timers[t] EXCEPT !.st = "ended"]
      <4>1. timers[t] \in Timers  BY <3>1 DEF TypeOK
      <4>2. r \in Timers  BY <4>1 DEF Timers
      <4>3. timers' = [timers EXCEPT ![t] = r]  BY <3>1 DEF TimerEndCall
      <4> HIDE DEF r
      <4>4. QED BY <3>1, <4>2, <4>3 DEF TypeOK
    <3>3. /\ phone' \in {"IDLE", "RINGING", "OFFHOOK"}
          /\ below' \in {"IDLE", "OFFHOOK"} /\ broadcasts' \in Nat
          /\ overlap' \in BOOLEAN /\ upset' \in BOOLEAN
          /\ UNCHANGED <<callNo, stopped>>
      BY <3>1, EndCallType DEF TimerEndCall
    <3>4. UNCHANGED <<testVars, notified, intr, requests, rings, mainVars>>
      BY <3>1 DEF TimerEndCall
    <3>5. QED BY <3>2, <3>3, <3>4 DEF TypeOK
  <2>2. Registration'  BY <1>19 DEF TimerEndCall, TelephonyEndCall, PhoneTo,
                            TypeOK, Registration
  <2>3. OneInFlight'  BY <1>19 DEF TimerEndCall, TelephonyEndCall, PhoneTo,
                           TypeOK, OneInFlight
  <2>4. NoTimerBetweenCalls'
    BY <1>19 DEF TimerEndCall, TelephonyEndCall, PhoneTo, TypeOK, Registration,
         OneInFlight, NoTimerBetweenCalls, LoneTimer
  <2>5. LoneTimer'
    BY <1>19 DEF TimerEndCall, TelephonyEndCall, PhoneTo, TypeOK, OneInFlight,
         NoTimerBetweenCalls, LoneTimer
  <2>6. TimerOfPresentCall'
    BY <1>19 DEF TimerEndCall, TelephonyEndCall, PhoneTo, TypeOK, Registration,
         OneInFlight, NoTimerBetweenCalls, TimerOfPresentCall
  <2>7. QED BY <2>1, <2>2, <2>3, <2>4, <2>5, <2>6
<1>20. CASE \E t \in DOMAIN timers : TimerStopWait(t)
  <2>1. TypeOK'  BY <1>20 DEF TimerStopWait, StopWait, Over, TypeOK, Timers
  <2>2. Registration'  BY <1>20 DEF TimerStopWait, StopWait, Over, TypeOK,
                            Registration
  <2>3. OneInFlight'  BY <1>20 DEF TimerStopWait, StopWait, Over, TypeOK,
                           OneInFlight
  <2>4. NoTimerBetweenCalls'
    BY <1>20 DEF TimerStopWait, StopWait, Over, TypeOK, Registration,
         OneInFlight, NoTimerBetweenCalls, LoneTimer
  <2>5. LoneTimer'
    BY <1>20 DEF TimerStopWait, StopWait, Over, TypeOK, OneInFlight,
         NoTimerBetweenCalls, LoneTimer
  <2>6. TimerOfPresentCall'
    BY <1>20 DEF TimerStopWait, StopWait, Over, TypeOK, Registration,
         OneInFlight, NoTimerBetweenCalls, TimerOfPresentCall
  <2>7. QED BY <2>1, <2>2, <2>3, <2>4, <2>5, <2>6
<1>21. CASE UNCHANGED vars
  BY <1>21 DEF vars, TypeOK, Registration, OneInFlight, NoTimerBetweenCalls,
             LoneTimer, TimerOfPresentCall
<1>22. QED
  BY <1>1, <1>2, <1>3, <1>4, <1>5, <1>6, <1>7, <1>8, <1>9, <1>10, <1>11, <1>12,
     <1>13, <1>14, <1>15, <1>16, <1>17, <1>18, <1>19, <1>20, <1>21
     DEF Next, TestThread, MainThread

LEMMA Inductive == Spec => []IInv
BY InitInv, StepInv, PTL DEF Spec

\* Every variable of the voice test keeps its type, for any configuration: the
\* loop variable never passes count, endCallTask always refers to a scheduled
\* task.
THEOREM TypeCorrect == Spec => []TypeOK
<1>1. IInv => TypeOK  BY DEF IInv
<1>2. QED BY <1>1, Inductive, PTL

\* update() never loses a set timer as long as every change of state is
\* delivered before the next one and no call comes in.
THEOREM OnlyLastTimerSet == Spec => []LoneTimer
<1>1. IInv => LoneTimer  BY DEF IInv
<1>2. QED BY <1>1, Inductive, PTL

\* Under the same conditions the timer that fires while the test observes the
\* phone hangs up the call it was set for.
THEOREM OwnCallOnly == Spec => TimerEndsOwnCall
<1> DEFINE Own == \A t \in DOMAIN timers :
       /\ observing /\ Set(t) /\ timers'[t].st = "ended"
       /\ phone = "OFFHOOK" /\ phone' = "IDLE"
       => timers[t].call = callNo \/ overlap \/ rings > 0
<1>1. IInv => Own
  BY DEF IInv, TypeOK, Registration, TimerOfPresentCall, Calm, Set
<1>2. QED BY <1>1, Inductive, PTL DEF TimerEndsOwnCall

-----------------------------------------------------------------------------
(* A test that nothing disturbs.                                           *)

Undisturbed == Calm /\ ~stopped /\ ~upset
AtRest == phone = "IDLE" /\ requests = 0 /\ NoneSet

\* Undisturbed: between two calls, and once the waiting thread is notified, the
\* phone is idle, no call is asked for and no timer is set; a request is only
\* made when nothing of the last call is left, and the timer that has hung up
\* was the only one.
CleanInv ==
  /\ intr \/ pc = "catch" => stopped
  /\ Undisturbed =>
       /\ notified => pc = "waiting"
       /\ pc \notin {"dialled", "waiting"} \/ notified => AtRest
       /\ requests <= 1
       /\ requests = 1 =>
            /\ phone = "IDLE" /\ broadcasts = 0 /\ mpc = "idle"
            /\ \A t \in DOMAIN timers : timers[t].st = "over"
       /\ (\E t \in DOMAIN timers : timers[t].st = "ended") => phone = "IDLE" /\ NoneSet

LEMMA CleanInit == Init => CleanInv
BY DEF Init, CleanInv, AtRest, NoneSet

LEMMA CleanStep == IInv /\ CleanInv /\ [Next]_vars => CleanInv'
<1> SUFFICES ASSUME IInv, CleanInv, [Next]_vars PROVE CleanInv'
  OBVIOUS
<1> USE DEF testVars, phoneVars, mainVars, CleanInv, Undisturbed, Calm, AtRest, NoneSet
<1>0. TypeOK /\ OneInFlight /\ LoneTimer  BY DEF IInv
<1>1. CASE PlaceCall  BY <1>0, <1>1 DEF PlaceCall, PhoneTo, TypeOK
<1>2. CASE HangUp  BY <1>0, <1>2 DEF HangUp, PhoneTo, TypeOK
<1>3. CASE Ring
  <2>1. rings' # 0 /\ UNCHANGED <<intr, pc, stopped>>  BY <1>0, <1>3 DEF Ring, TypeOK
  <2>2. QED BY <2>1
<1>4. CASE RingEnds
  <2>1. ~Calm /\ UNCHANGED rings /\ (overlap => overlap')
    BY <1>0, <1>4 DEF RingEnds, OneInFlight, PhoneTo
  <2>2. QED BY <1>4, <2>1 DEF RingEnds
<1>5. CASE AddObserver  BY <1>5 DEF AddObserver
<1>6. CASE Dial
  <2>1. CASE pc' = "finally" /\ UNCHANGED <<requests, upset>>  BY <1>6, <2>1 DEF Dial
  <2>2. CASE requests' = requests + 1 /\ pc' = "dialled" /\ Unsettled /\ upset' = TRUE
    BY <1>6, <2>2 DEF Dial
  <2>3. CASE requests' = requests + 1 /\ pc' = "dialled" /\ ~Unsettled /\ UNCHANGED upset
    <3>1. broadcasts = 0 /\ mpc = "idle" /\ \A t \in DOMAIN timers : timers[t].st # "ended"
      BY <1>0, <2>3 DEF Unsettled, TypeOK
    <3>2. ASSUME NEW t \in DOMAIN timers
          PROVE  timers[t].st \in {"set", "ended", "over"}
      <4>1. timers[t] \in Timers  BY <1>0 DEF TypeOK
      <4>2. QED BY <4>1 DEF Timers
    <3>3. QED BY <1>0, <1>6, <2>3, <3>1, <3>2 DEF Dial, TypeOK
  <2>4. QED BY <1>6, <2>1, <2>2, <2>3 DEF Dial
<1>7. CASE Wait  BY <1>7 DEF Wait
<1>8. CASE WaitEnds  BY <1>8 DEF WaitEnds
<1>9. CASE SleepEnds  BY <1>9 DEF SleepEnds
<1>10. CASE Interrupted  BY <1>10 DEF Interrupted
<1>11. CASE CatchEndCall
  <2>1. stopped /\ UNCHANGED stopped  BY <1>11 DEF CatchEndCall, TelephonyEndCall
  <2>2. QED BY <2>1
<1>12. CASE DeleteObserver  BY <1>12 DEF DeleteObserver
<1>13. CASE Interrupt  BY <1>13 DEF Interrupt
<1>14. CASE Receive  BY <1>0, <1>14 DEF Receive, TypeOK
<1>15. CASE NotifyObservers  BY <1>0, <1>15 DEF NotifyObservers
<1>16. CASE UpdateIdle
  <2>1. DOMAIN timers' = DOMAIN timers  BY <1>16 DEF UpdateIdle
  <2>2. \A t \in DOMAIN timers : timers'[t].st \in {timers[t].st, "over"}
    BY <1>16 DEF UpdateIdle, Over
  <2>3. Calm => \A t \in DOMAIN timers : timers'[t].st # "set"
    BY <1>0, <1>16 DEF UpdateIdle, Over, LoneTimer, Set
  <2>4. Calm => phone = "IDLE"  BY <1>0, <1>16 DEF UpdateIdle, OneInFlight
  <2>5. QED BY <1>0, <1>16, <2>1, <2>2, <2>3, <2>4 DEF UpdateIdle, StopWait, TypeOK
<1>17. CASE UpdateOffhook
  <2>1. Calm => phone = "OFFHOOK"  BY <1>0, <1>17 DEF UpdateOffhook, OneInFlight
  <2>2. \A t \in DOMAIN timers' : \/ t \in DOMAIN timers /\ timers'[t] = timers[t]
                                  \/ timers'[t].st = "set"
    BY <1>0, <1>17 DEF UpdateOffhook, TypeOK
  <2>3. QED BY <1>17, <2>1, <2>2 DEF UpdateOffhook
<1>18. CASE UpdateRinging  BY <1>18 DEF UpdateRinging
<1>19. ASSUME NEW t \in DOMAIN timers, TimerEndCall(t) PROVE CleanInv'
  <2>1. timers[t].st = "set" /\ UNCHANGED <<pc, intr, notified, requests, rings, stopped, mpc>>
    BY <1>19 DEF TimerEndCall, TelephonyEndCall
  <2>2. DOMAIN timers' = DOMAIN timers /\ timers'[t].st = "ended"
        /\ \A u \in DOMAIN timers : u # t => timers'[u] = timers[u]
    <3> DEFINE r == [timers[t] EXCEPT !.st = "ended"]
    <3>1. timers[t] \in Timers  BY <1>0 DEF TypeOK
    <3>2. r.st = "ended"  BY <3>1 DEF Timers
    <3>3. timers' = [timers EXCEPT ![t] = r]  BY <1>19 DEF TimerEndCall
    <3> HIDE DEF r
    <3>4. QED BY <1>0, <3>2, <3>3 DEF TypeOK
  <2>3. (overlap => overlap') /\ (upset => upset')
    BY <1>19 DEF TimerEndCall, TelephonyEndCall, PhoneTo
  <2>4. Calm /\ ~upset' => phone' = "IDLE"
    BY <1>0, <1>19 DEF TimerEndCall, TelephonyEndCall, PhoneTo, OneInFlight
  <2>5. Calm => \A u \in DOMAIN timers' : timers'[u].st # "set"
    BY <1>0, <2>1, <2>2 DEF LoneTimer, Set
  <2>6. QED BY <1>0, <2>1, <2>2, <2>3, <2>4, <2>5 DEF TypeOK
<1>20. ASSUME NEW t \in DOMAIN timers, TimerStopWait(t) PROVE CleanInv'
  <2>1. DOMAIN timers' = DOMAIN timers
        /\ \A u \in DOMAIN timers : timers'[u].st \in {timers[u].st, "over"}
    BY <1>0, <1>20 DEF TimerStopWait, Over, TypeOK, Timers
  <2>2. timers[t].st = "ended"  BY <1>20 DEF TimerStopWait
  <2>3. QED BY <1>0, <1>20, <2>1, <2>2 DEF TimerStopWait, StopWait, TypeOK
<1>21. CASE UNCHANGED vars  BY <1>21 DEF vars
<1>22. QED
  BY <1>1, <1>2, <1>3, <1>4, <1>5, <1>6, <1>7, <1>8, <1>9, <1>10, <1>11, <1>12,
     <1>13, <1>14, <1>15, <1>16, <1>17, <1>18, <1>19, <1>20, <1>21
     DEF Next, TestThread, MainThread

\* A test that is not interrupted and meets no time-out, failure, overtaken
\* broadcast or incoming call leaves no call, request or timer behind, however
\* many calls it makes.
THEOREM NothingLeftBehind == Spec => []CleanEnd
<1>1. Init => IInv /\ CleanInv  BY InitInv, CleanInit
<1>2. IInv /\ CleanInv /\ [Next]_vars => (IInv /\ CleanInv)'  BY StepInv, CleanStep
<1>3. CleanInv => CleanEnd
  BY DEF CleanInv, CleanEnd, Undisturbed, Calm, AtRest, NoneSet, Set
<1>4. QED BY <1>1, <1>2, <1>3, PTL DEF Spec
=============================================================================
