-------------------------- MODULE FlushTimerProofs --------------------------
(***************************************************************************)
(* Theorems about FlushTimer: for any delay, latency and number of events, *)
(* a change is saved in time.                                              *)
(***************************************************************************)
EXTENDS FlushTimer, SequenceTheorems, TLAPS

LEMMA TimerInitInv == TimerInit => TimerInv
<1> SUFFICES ASSUME TimerInit PROVE TimerInv
  OBVIOUS
<1>1. posted \in Seq(0 .. Latency) /\ DOMAIN posted = {}
  BY DEF TimerInit
<1>2. /\ change \in -1 .. Latency /\ begun \in -1 .. Latency
      /\ age \in Int /\ fresh \in Int /\ timer \in -Latency .. maxFlushDelay /\ age >= -1 /\ fresh >= -1
  BY DelayAssumption DEF TimerInit, None
<1>3. Followed(fresh)
  BY DEF TimerInit, Followed
<1> QED
  BY <1>1, <1>2, <1>3, DelayAssumption DEF TimerInit, TimerInv, None

\* What is said of the events that wait.
EventsInv == Followed(fresh) /\ \A i \in DOMAIN posted : fresh - posted[i] <= 2 * Latency

LEMMA TimerStepInv == TimerInv /\ [TimerNext]_timerVars => TimerInv'
<1> SUFFICES ASSUME TimerInv, [TimerNext]_timerVars PROVE TimerInv'
  OBVIOUS
<1> USE DelayAssumption DEF None
<1>0. /\ Len(posted) \in Nat /\ DOMAIN posted = 1 .. Len(posted)
      /\ \A i \in DOMAIN posted : posted[i] \in 0 .. Latency
      /\ fresh \in Int /\ age \in Int /\ change \in Int /\ begun \in Int /\ timer \in Int
      /\ -Latency <= timer /\ timer <= maxFlushDelay
  BY DEF TimerInv
<1>1. CASE Insert
  <2>1. flushing # "read" => EventsInv'
    <3>1. CASE fresh = None
      BY <1>0, <1>1, <3>1 DEF Insert, Since, Followed, EventsInv
    <3>2. CASE fresh # None
      BY <1>1, <3>2 DEF TimerInv, Insert, Since, Followed, EventsInv
    <3> QED
      BY <3>1, <3>2
  <2> QED
    BY <1>1, <2>1 DEF Insert, TimerInv, Since, EventsInv
<1>2. CASE QueueFlush
  <2>1. CASE isActive
    BY <1>2, <2>1 DEF QueueFlush, NeedsTimer, TimerInv, Followed
  <2>2. CASE ~isActive
    <3>1. /\ posted' = Append(posted, 0) /\ posted' \in Seq(0 .. Latency)
          /\ DOMAIN posted' = 1 .. (Len(posted) + 1)
          /\ \A i \in DOMAIN posted : i \in DOMAIN posted' /\ posted'[i] = posted[i]
          /\ Len(posted) + 1 \in DOMAIN posted' /\ posted'[Len(posted) + 1] = 0
          /\ \A i \in DOMAIN posted' : i \in DOMAIN posted \/ posted'[i] = 0
      BY <1>0, <1>2, <2>2 DEF QueueFlush, NeedsTimer, TimerInv
    <3>2. flushing # "read" => Followed(fresh)'
      <4>1. CASE fresh = None
        BY <1>2, <4>1 DEF QueueFlush, Followed
      <4>2. CASE fresh # None /\ change >= fresh
        <5>1. posted'[Len(posted) + 1] >= fresh' - Latency
          BY <1>2, <3>1, <4>2 DEF QueueFlush, TimerInv
        <5> QED
          BY <3>1, <5>1 DEF Followed
      <4>3. ASSUME NEW i \in DOMAIN posted, posted[i] >= fresh - Latency PROVE Followed(fresh)'
        <5>1. i \in DOMAIN posted' /\ posted'[i] >= fresh' - Latency
          BY <1>2, <3>1, <4>3 DEF QueueFlush
        <5> QED
          BY <5>1 DEF Followed
      <4> QED
        BY <2>2, <4>1, <4>2, <4>3 DEF TimerInv, Followed
    <3>3. flushing # "read" => fresh <= 2 * Latency
      BY <1>0, <2>2 DEF TimerInv, Followed
    <3>4. flushing # "read" => \A i \in DOMAIN posted' : fresh - posted'[i] <= 2 * Latency
      BY <3>1, <3>3 DEF TimerInv
    <3> QED
      BY <1>2, <3>1, <3>2, <3>4 DEF QueueFlush, TimerInv
  <2> QED
    BY <2>1, <2>2 DEF TimerInv
<1>3. CASE StartFlushTimer
  <2>1. /\ posted' = Tail(posted) /\ posted' \in Seq(0 .. Latency)
        /\ \A i \in DOMAIN posted' : i + 1 \in DOMAIN posted /\ posted'[i] = posted[i + 1]
    BY <1>0, <1>3 DEF StartFlushTimer, TimerInv
  <2>2. age <= 3 * Latency
    BY <1>0, <1>3 DEF StartFlushTimer, TimerInv
  <2>3. \A i \in DOMAIN posted' : fresh - posted'[i] <= 2 * Latency
    BY <1>3, <2>1 DEF StartFlushTimer, TimerInv
  <2> QED
    BY <1>3, <2>1, <2>2, <2>3 DEF StartFlushTimer, TimerInv, Followed
<1>4. CASE Timeout
  <2>1. age <= maxFlushDelay + 4 * Latency
    BY <1>0, <1>4 DEF Timeout, TimerInv
  <2>2. age' <= maxFlushDelay + 4 * Latency + begun' /\ begun' \in -1 .. Latency
    BY <1>0, <1>4, <2>1 DEF Timeout
  <2>3. fresh' = age' /\ flushing' = "read" /\ begun' # None /\ isActive' = FALSE
    BY <1>4 DEF Timeout, TimerInv
  <2>4. UNCHANGED <<timer, change, posted, age, fresh>>
    BY <1>4 DEF Timeout
  <2> QED
    BY <2>2, <2>3, <2>4 DEF TimerInv
<1>5. CASE Read
  BY <1>5, <1>0 DEF Read, TimerInv, Followed
<1>6. CASE Save
  BY <1>6 DEF Save, TimerInv, Followed
<1>7. CASE Tick
  <2>1. /\ posted' \in Seq(0 .. Latency) /\ DOMAIN posted' = DOMAIN posted
        /\ \A i \in DOMAIN posted : posted'[i] = posted[i] + 1
    <3>1. posted' \in [1 .. Len(posted) -> 0 .. Latency]
      BY <1>0, <1>7 DEF Tick
    <3> QED
      BY <1>0, <1>7, <3>1 DEF Tick
  <2>2. flushing # "read" => EventsInv'
    <3>1. CASE fresh = None
      BY <1>0, <1>7, <2>1, <3>1 DEF Tick, Older, Followed, EventsInv
    <3>2. CASE fresh # None
      <4>1. fresh' = fresh + 1
        BY <1>7, <3>2 DEF Tick, Older
      <4>2. \A i \in DOMAIN posted' : fresh' - posted'[i] = fresh - posted[i]
        BY <1>0, <2>1, <4>1
      <4>3. flushing # "read" /\ change >= fresh => change' >= fresh'
        BY <1>7, <3>2, <4>1 DEF Tick, Older, TimerInv
      <4>4. \A i \in DOMAIN posted' :
              posted[i] >= fresh - Latency => posted'[i] >= fresh' - Latency
        BY <1>0, <2>1, <4>1
      <4>5. flushing # "read" => Followed(fresh)'
        BY <1>7, <2>1, <3>2, <4>3, <4>4 DEF TimerInv, Tick, Followed
      <4> QED
        BY <2>1, <4>2, <4>5 DEF TimerInv, EventsInv
    <3> QED
      BY <3>1, <3>2
  <2>3. /\ change' \in -1 .. Latency /\ begun' \in -1 .. Latency
        /\ age' \in Int /\ age' >= -1 /\ fresh' \in Int /\ fresh' >= -1
    BY <1>7 DEF Tick, TimerInv, Older
  <2>4. /\ timer' \in -Latency .. maxFlushDelay
        /\ isActive => age' <= maxFlushDelay + 3 * Latency - timer'
    BY <1>0, <1>7 DEF Tick, TimerInv, Older
  <2>5. flushing # "no" => age' <= maxFlushDelay + 4 * Latency + begun' /\ begun' # None
    BY <1>0, <1>7 DEF Tick, TimerInv, Older
  <2>6. UNCHANGED <<isActive, flushing>>
    BY <1>7 DEF Tick
  <2>7. flushing # "save" => fresh' = age'
    BY <1>7 DEF Tick, TimerInv
  <2> QED
    BY <2>1, <2>2, <2>3, <2>4, <2>5, <2>6, <2>7 DEF TimerInv, EventsInv
<1>8. CASE UNCHANGED timerVars
  BY <1>8 DEF timerVars, TimerInv, Followed
<1> QED
  BY <1>1, <1>2, <1>3, <1>4, <1>5, <1>6, <1>7, <1>8 DEF TimerNext

(***************************************************************************)
(* What is behind the bound: an event on its way was sent soon after the   *)
(* oldest change it is for, and a change that a flush has not read is      *)
(* followed by an event, if the timer is not active                        *)
(* (simplejsondb.cpp:214).                                                 *)
(***************************************************************************)
THEOREM TimerKeepsUp == TimerSpec => []TimerInv
BY TimerInitInv, TimerStepInv, PTL DEF TimerSpec

(***************************************************************************)
(* A change is in the file once the delay and five latencies have passed,  *)
(* for any delay, latency and number of changes (main.cpp:79).             *)
(***************************************************************************)
THEOREM ChangesAreSavedInTime == TimerSpec => []SavedInTime
<1>1. TimerInv => SavedInTime
  BY DelayAssumption DEF TimerInv, SavedInTime, Followed, None
<1> QED
  BY <1>1, TimerInitInv, TimerStepInv, PTL DEF TimerSpec
=============================================================================
