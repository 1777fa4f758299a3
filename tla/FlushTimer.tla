----------------------------- MODULE FlushTimer -----------------------------
(***************************************************************************)
(* How long a change waits to be saved (src/simplejsondb.cpp): queueFlush  *)
(* on the main thread, and the timer and flush() on the flush thread, for  *)
(* one database and a delay that is positive.  SimpleJsonDB says that a    *)
(* change is saved; here there is a clock, and the question is when.       *)
(*                                                                         *)
(* The main thread looks at isActive() to see whether the timer has to be  *)
(* started, but it is started later, by an event, on the other thread: by  *)
(* then more changes may have asked for it, and each of them starts it     *)
(* anew.  Saves that fail and saves that are forced are left to            *)
(* SimpleJsonDB.                                                           *)
(*                                                                         *)
(* What isActive() returns is what the timer is (SimpleJsonDB lets it be   *)
(* stale): the time until one thread sees what the other has done to the   *)
(* timer is part of the Latency of the step that does it.                  *)
(***************************************************************************)
EXTENDS Integers, Sequences

CONSTANTS
    maxFlushDelay, \* in ticks of the clock
    Latency,       \* the ticks until a thread has done what it is to do next
    MaxPosted      \* the events that may wait (a bound)

ASSUME DelayAssumption ==
    maxFlushDelay \in Nat \ {0} /\ Latency \in Nat /\ MaxPosted \in Nat

VARIABLES
    isActive, \* of the timer
    timer,    \* the ticks until it expires, below 0 if it has
    flushing, \* the flush thread: "no", or what it does next
    change,   \* how long ago a change was made that is not queued yet
    posted,   \* how long ago each signalFlushTimer was sent that waits
    begun,    \* how long ago the flush was begun
    age,      \* how long ago the oldest change was made that is not in the file
    fresh     \* the same, of those that are not in what is being saved either

timerVars == <<isActive, timer, flushing, change, posted, begun, age, fresh>>

None == -1
Since(t) == IF t = None THEN 0 ELSE t
Older(t) == IF t = None THEN None ELSE t + 1

-----------------------------------------------------------------------------
(* The main thread                                                         *)

\* setValue() and its like change the object.
Insert ==
    /\ change = None /\ Len(posted) < MaxPosted
    /\ change' = 0 /\ age' = Since(age) /\ fresh' = Since(fresh)
    /\ UNCHANGED <<isActive, timer, flushing, posted, begun>>

\* Mutant: the timer is started whether it is active or not.
NeedsTimerAnyhow == TRUE

\* Mutant: a flush that is on its way is taken to save the change.
NeedsTimerIfIdle == ~isActive /\ flushing = "no"

NeedsTimer == ~isActive

QueueFlush ==
    /\ change # None /\ change' = None
    /\ posted' = IF NeedsTimer THEN Append(posted, 0) ELSE posted
    /\ UNCHANGED <<isActive, timer, flushing, begun, age, fresh>>

-----------------------------------------------------------------------------
(* The flush thread                                                        *)

\* A timer that is active is started anew.
StartFlushTimer ==
    /\ flushing = "no" /\ posted # <<>>
    /\ posted' = Tail(posted)
    /\ isActive' = TRUE /\ timer' = maxFlushDelay
    /\ UNCHANGED <<flushing, change, begun, age, fresh>>

\* The timer is single-shot: it is not active any more when flush() is called.
Timeout ==
    /\ flushing = "no" /\ isActive /\ timer <= 0
    /\ isActive' = FALSE
    /\ flushing' = "read" /\ begun' = 0
    /\ UNCHANGED <<timer, change, posted, age, fresh>>

\* jsonString(): what is inserted after this is not saved by this flush.
Read ==
    /\ flushing = "read" /\ flushing' = "save"
    /\ fresh' = None
    /\ UNCHANGED <<isActive, timer, change, posted, begun, age>>

\* commit()
Save ==
    /\ flushing = "save" /\ flushing' = "no"
    /\ age' = fresh /\ begun' = None
    /\ UNCHANGED <<isActive, timer, change, posted, fresh>>

-----------------------------------------------------------------------------
\* Time passes while nothing that is to be done has waited for too long.
Tick ==
    /\ change < Latency /\ begun < Latency
    /\ \A i \in DOMAIN posted : posted[i] < Latency
    /\ isActive => timer > -Latency
    /\ timer' = IF isActive THEN timer - 1 ELSE timer
    /\ change' = Older(change) /\ begun' = Older(begun)
    /\ age' = Older(age) /\ fresh' = Older(fresh)
    /\ posted' = [i \in DOMAIN posted |-> posted[i] + 1]
    /\ UNCHANGED <<isActive, flushing>>

TimerInit ==
    /\ isActive = FALSE /\ timer = 0 /\ flushing = "no"
    /\ change = None /\ posted = <<>> /\ begun = None
    /\ age = None /\ fresh = None

TimerNext ==
    Insert \/ QueueFlush \/ StartFlushTimer \/ Timeout \/ Read \/ Save \/ Tick

TimerSpec == TimerInit /\ [][TimerNext]_timerVars

-----------------------------------------------------------------------------
(***************************************************************************)
(* A change is in the file once the delay and the time that five steps of  *)
(* the threads may take have passed, however many changes follow it, and   *)
(* though some of them start the timer anew ("maximum db flush delay",     *)
(* main.cpp:79).                                                           *)
(***************************************************************************)
SavedInTime == age <= maxFlushDelay + 5 * Latency

\* Is a change that was made a ago sure to be followed by a flush?
Followed(a) ==
    \/ a = None \/ isActive \/ change >= a
    \/ \E i \in DOMAIN posted : posted[i] >= a - Latency

(***************************************************************************)
(* Why: a change is queued in time if the timer is not active; an event    *)
(* that waits was sent soon after the oldest change it is for, so that it  *)
(* cannot start the timer late; and what a flush has not read is followed  *)
(* by another.                                                             *)
(***************************************************************************)
TimerInv ==
    /\ isActive \in BOOLEAN /\ flushing \in {"no", "read", "save"}
    /\ change \in -1 .. Latency /\ begun \in -1 .. Latency
    /\ age \in Int /\ age >= -1 /\ fresh \in Int /\ fresh >= -1
    /\ posted \in Seq(0 .. Latency)
    /\ timer \in -Latency .. maxFlushDelay
    /\ flushing # "no" => ~isActive /\ begun # None
    /\ flushing # "save" => fresh = age
    /\ flushing # "read" =>
         Followed(fresh) /\ \A i \in DOMAIN posted : fresh - posted[i] <= 2 * Latency
    /\ isActive => age <= maxFlushDelay + 3 * Latency - timer
    /\ flushing # "no" => age <= maxFlushDelay + 4 * Latency + begun
=============================================================================
