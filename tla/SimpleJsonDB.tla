----------------------------- MODULE SimpleJsonDB -----------------------------
(***************************************************************************)
(* The persistence protocol of qtdbd: the SimpleJsonDB objects             *)
(* (src/simplejsondb.cpp) together with the two threads DBTree runs them   *)
(* on (src/dbtree.cpp).                                                    *)
(*                                                                         *)
(* The main thread changes a database in memory under its writeLock and    *)
(* then calls queueFlush; the flush thread owns every flushTimer, and      *)
(* serialises and saves a database when its timer fires or when the main   *)
(* thread asks it to, blocking (rmValue of a whole database, exitCleanup). *)
(*                                                                         *)
(* Data are abstracted to what durability needs: the content of a database *)
(* is a version, one more for every change, and whether it is "{}".  The   *)
(* file of a database is the content last saved; an absent file is an      *)
(* empty content.                                                          *)
(***************************************************************************)
EXTENDS Integers, Sequences

CONSTANTS
    Dbs,           \* every database the tree may hold
    MainDb,        \* the one that holds what is not below vm/ or dom-store/
    MaxFlushDelay, \* maxFlushDelay, in milliseconds: only its sign, 0 and -1 matter
    InMemory,      \* whether the path of the main database is ":memory:"
    MaxVersion     \* bound: no change is begun that could exceed it

ASSUME DbsAssumption == MainDb \in Dbs
ASSUME DelayAssumption == MaxFlushDelay \in Int
ASSUME InMemoryAssumption == InMemory \in BOOLEAN
ASSUME VersionAssumption == MaxVersion \in Nat

Threads == {"main", "flush"}
Content == [ver : Nat, text : {"empty", "keys"}]
TimerStates == {"active", "inactive"}
Event == [kind : {"start", "flush", "force"}, db : Dbs]
Stages == {"idle", "want", "reading", "saving"}

VARIABLES
    phase,      \* of the process
    dbs,        \* mainDb and the values of vmsDbs and domstoreDbs
    mem,        \* content in memory, by database
    disk,       \* content of its file
    failed,     \* history: a save of the content now in memory has failed
    writeLock,  \* holder of the mutex, by database
    flushTimer, \* state of the timer, by database
    since,      \* values flushTimer had since the flush thread last released the lock
    visible,    \* values the main thread may read from flushTimer[cur]
    events,     \* the posted events of the flush thread
    stage,      \* of the call of flush() a thread is in, by thread
    target,     \* the database flush() is called for
    snap,       \* the content it has serialised and will save
    wakes,      \* does the main thread wait for the flush thread's call?
    torn,       \* has the tree changed under the flush thread's reading?
    pc, op, cur,\* main thread: where it is, in which operation, on which database
    toForce     \* the databases exitCleanup has not forced yet

procVars == <<phase, dbs, toForce>>
dataVars == <<mem, disk, failed>>
timerVars == <<flushTimer, since, visible>>
mainVars == <<pc, op, cur>>
flushVars == <<stage, target, snap, wakes, torn>>
vars == <<procVars, dataVars, writeLock, timerVars, events, flushVars, mainVars>>

-----------------------------------------------------------------------------
Up == phase \in {"serving", "exiting"}

NoText == [ver |-> 0, text |-> "empty"]
IsEmpty(content) == content.text = "empty"

\* flush() returns before it writes anything.
Skips(d) == MaxFlushDelay = -1 \/ (InMemory /\ d = MainDb)

(***************************************************************************)
(* isActive() reads the timer without a lock, so the main thread may see   *)
(* any value the timer had since the last write it is ordered after: the   *)
(* writes before the flush thread's last release of the lock that the main *)
(* thread has acquired.                                                    *)
(***************************************************************************)
SetTimer(d, state) ==
    /\ flushTimer' = [flushTimer EXCEPT ![d] = state]
    /\ since' = [since EXCEPT ![d] = @ \cup {state}]
    /\ visible' = IF d = cur THEN visible \cup {state} ELSE visible

-----------------------------------------------------------------------------
(* The process: start, crash, exit.                                        *)

\* A process that starts has no thread of the last one, whose memory is gone.
FreshProcess ==
    /\ failed' = [d \in Dbs |-> FALSE]
    /\ writeLock' = [d \in Dbs |-> "free"]
    /\ flushTimer' = [d \in Dbs |-> "inactive"]
    /\ since' = [d \in Dbs |-> {"inactive"}]
    /\ visible' = {"inactive"}
    /\ events' = <<>>
    /\ stage' = [t \in Threads |-> "idle"]
    /\ target' = [t \in Threads |-> MainDb]
    /\ snap' = [t \in Threads |-> NoText]
    /\ wakes' = FALSE /\ torn' = FALSE
    /\ pc' = "idle" /\ op' = "set" /\ cur' = MainDb
    /\ toForce' = {}

\* DBTree(), loadTree(), readFromDisk(): before the first request is served.
Start ==
    /\ ~Up
    /\ phase' = "serving"
    /\ dbs' = {MainDb} \cup {d \in Dbs : ~InMemory /\ ~IsEmpty(disk[d])}
    /\ mem' = IF InMemory
              THEN [d \in Dbs |-> [ver |-> disk[d].ver, text |-> "empty"]]
              ELSE disk
    /\ FreshProcess
    /\ UNCHANGED disk

\* The process is killed, or the machine loses power.
Crash ==
    /\ Up
    /\ phase' = "crashed"
    /\ UNCHANGED <<dbs, toForce, dataVars, writeLock, timerVars, events, flushVars, mainVars>>

\* Mutant: the databases below the main one are forgotten.
BeginExitMainOnly ==
    /\ phase = "serving" /\ pc = "idle"
    /\ phase' = "exiting"
    /\ toForce' = {MainDb}
    /\ op' = "force"
    /\ UNCHANGED <<dbs, dataVars, writeLock, timerVars, events, flushVars, pc, cur>>

\* aboutToQuit: the event loop of the main thread has returned.
BeginExit ==
    /\ phase = "serving" /\ pc = "idle"
    /\ phase' = "exiting"
    /\ toForce' = dbs
    /\ op' = "force"
    /\ UNCHANGED <<dbs, dataVars, writeLock, timerVars, events, flushVars, pc, cur>>

\* exitCleanup: one blocking forcePendingFlush, mainDb first.
ForceNext ==
    /\ phase = "exiting" /\ pc = "idle"
    /\ \E d \in toForce :
         /\ MainDb \in toForce => d = MainDb
         /\ toForce' = toForce \ {d}
         /\ cur' = d
         /\ events' = Append(events, [kind |-> "force", db |-> d])
    /\ pc' = "blocked"
    /\ UNCHANGED <<phase, dbs, dataVars, writeLock, timerVars, flushVars, op>>

Stop ==
    /\ phase = "exiting" /\ pc = "idle" /\ toForce = {}
    /\ phase' = "stopped"
    /\ UNCHANGED <<dbs, toForce, dataVars, writeLock, timerVars, events, flushVars, mainVars>>

-----------------------------------------------------------------------------
(* flush(), on the thread t that runs it.                                  *)

\* flush() is entered: a database that is saved has its timer stopped first.
EnterFlush(t, d, blocking) ==
    /\ stage' = [stage EXCEPT ![t] = "want"]
    /\ target' = [target EXCEPT ![t] = d]
    /\ wakes' = blocking
    /\ UNCHANGED <<snap, torn>>

\* flush() returns; a caller that waits for it goes on.
Return(t) ==
    /\ stage' = [stage EXCEPT ![t] = "idle"]
    /\ target' = [target EXCEPT ![t] = MainDb]
    /\ snap' = [snap EXCEPT ![t] = NoText]
    /\ wakes' = FALSE
    /\ pc' = IF t = "main" THEN "idle"
             ELSE IF ~wakes THEN pc
             ELSE IF op = "drop" THEN "unhash" ELSE "idle"

\* Mutant: jsonString does not wait for the lock.
BeginReadUnlocked(t) ==
    LET d == target[t] IN
    /\ Up /\ stage[t] = "want"
    /\ writeLock' = [writeLock EXCEPT ![d] = t]
    /\ stage' = [stage EXCEPT ![t] = "reading"]
    /\ UNCHANGED <<procVars, dataVars, timerVars, events, target, snap, wakes, torn, mainVars>>

\* jsonString() takes the lock ...
BeginRead(t) ==
    LET d == target[t] IN
    /\ Up /\ stage[t] = "want"
    /\ writeLock[d] = "free"
    /\ writeLock' = [writeLock EXCEPT ![d] = t]
    /\ stage' = [stage EXCEPT ![t] = "reading"]
    /\ UNCHANGED <<procVars, dataVars, timerVars, events, target, snap, wakes, torn, mainVars>>

\* ... and releases it with the text of the database.
EndRead(t) ==
    LET d == target[t] IN
    /\ Up /\ stage[t] = "reading"
    /\ writeLock' = [writeLock EXCEPT ![d] = "free"]
    /\ since' = IF t = "flush" THEN [since EXCEPT ![d] = {flushTimer[d]}] ELSE since
    /\ IF Skips(d)
       THEN Return(t)
       ELSE /\ stage' = [stage EXCEPT ![t] = "saving"]
            /\ snap' = [snap EXCEPT ![t] = mem[d]]
            /\ UNCHANGED <<target, wakes, pc>>
    /\ torn' = FALSE
    /\ UNCHANGED <<procVars, dataVars, flushTimer, visible, events, op, cur>>

(***************************************************************************)
(* The text of the main database is that of the whole tree, written while  *)
(* only its own lock is held.  If the main thread changed a database below *)
(* it meanwhile (torn), the text may be no JSON, and jsonString exits.     *)
(***************************************************************************)
Abort(t) ==
    /\ Up /\ stage[t] = "reading" /\ t = "flush" /\ torn
    /\ phase' = "aborted"
    /\ UNCHANGED <<dbs, toForce, dataVars, writeLock, timerVars, events, flushVars, mainVars>>

\* The file is replaced atomically, or removed if there is nothing to hold.
Save(t) ==
    /\ Up /\ stage[t] = "saving"
    /\ disk' = [disk EXCEPT ![target[t]] = snap[t]]
    /\ Return(t)
    /\ UNCHANGED <<procVars, mem, failed, writeLock, timerVars, events, torn, op, cur>>

\* Mutant: a QFile for the QSaveFile, so that a failed save loses the old file.
SaveFailsTruncating(t) ==
    LET d == target[t] IN
    /\ Up /\ stage[t] = "saving"
    /\ ~(IsEmpty(snap[t]) /\ IsEmpty(disk[d]))
    /\ disk' = [disk EXCEPT ![d] = NoText]
    /\ failed' = [failed EXCEPT ![d] = @ \/ snap[t] = mem[d]]
    /\ Return(t)
    /\ UNCHANGED <<procVars, mem, writeLock, timerVars, events, torn, op, cur>>

\* The file cannot be opened, committed or removed: a warning at most.
SaveFails(t) ==
    LET d == target[t] IN
    /\ Up /\ stage[t] = "saving"
    /\ ~(IsEmpty(snap[t]) /\ IsEmpty(disk[d]))
    /\ failed' = [failed EXCEPT ![d] = @ \/ snap[t] = mem[d]]
    /\ Return(t)
    /\ UNCHANGED <<procVars, mem, disk, writeLock, timerVars, events, torn, op, cur>>

-----------------------------------------------------------------------------
(* The event loop of the flush thread.                                     *)

FlushIdle == Up /\ stage["flush"] = "idle"

\* timeout(): the timer is single-shot, so it is inactive when flush() runs.
FireTimer(d) ==
    /\ FlushIdle /\ flushTimer[d] = "active"
    /\ SetTimer(d, "inactive")
    /\ EnterFlush("flush", d, FALSE)
    /\ UNCHANGED <<procVars, dataVars, writeLock, events, mainVars>>

Dispatch(kind, d) ==
    /\ FlushIdle /\ events # <<>>
    /\ Head(events) = [kind |-> kind, db |-> d]
    /\ events' = Tail(events)

\* Mutant: the signal is not connected to startFlushTimer.
StartNothing(d) ==
    /\ Dispatch("start", d)
    /\ UNCHANGED <<procVars, dataVars, writeLock, timerVars, flushVars, mainVars>>

\* startFlushTimer()
StartFlushTimer(d) ==
    /\ Dispatch("start", d)
    /\ SetTimer(d, "active")
    /\ UNCHANGED <<procVars, dataVars, writeLock, flushVars, mainVars>>

StopTimerUnlessSkipped(d) ==
    IF Skips(d) THEN UNCHANGED timerVars ELSE SetTimer(d, "inactive")

\* flush(), invoked by rmValue
DispatchFlush(d) ==
    /\ Dispatch("flush", d)
    /\ StopTimerUnlessSkipped(d)
    /\ EnterFlush("flush", d, TRUE)
    /\ UNCHANGED <<procVars, dataVars, writeLock, mainVars>>

\* forcePendingFlush(), invoked by exitCleanup
ForcePendingFlush(d) ==
    /\ Dispatch("force", d)
    /\ IF flushTimer[d] = "active"
       THEN /\ StopTimerUnlessSkipped(d)
            /\ EnterFlush("flush", d, TRUE)
            /\ UNCHANGED pc
       ELSE /\ pc' = "idle"
            /\ UNCHANGED <<timerVars, flushVars>>
    /\ UNCHANGED <<procVars, dataVars, writeLock, op, cur>>

-----------------------------------------------------------------------------
(* The main thread.                                                        *)

\* createChildDb with createEmpty; its setValue skips the flush.
CreateChildDb(d) ==
    /\ phase = "serving" /\ pc = "idle"
    /\ d \notin dbs
    /\ writeLock[MainDb] = "free"
    /\ dbs' = dbs \cup {d}
    /\ UNCHANGED <<phase, toForce, dataVars, writeLock, timerVars, events, flushVars, mainVars>>

(***************************************************************************)
(* set:  one insertion of setValue or the unite of mergeValue              *)
(* rm:   rmValue of a key of database d                                    *)
(* drop: rmValue of a whole database, vm/<uuid> or dom-store/<uuid>        *)
(***************************************************************************)
Changes(o) == IF o = "rm" THEN 2 ELSE 1

Begin(o, d) ==
    /\ phase = "serving" /\ pc = "idle"
    /\ d \in dbs
    /\ mem[d].ver + Changes(o) =< MaxVersion
    /\ pc' = "want" /\ op' = o /\ cur' = d
    /\ UNCHANGED <<procVars, dataVars, writeLock, timerVars, events, flushVars>>

SetOrMerge(d) == Begin("set", d)
RmKey(d) == Begin("rm", d)
RmDb(d) == d # MainDb /\ Begin("drop", d)

\* The database whose lock the second critical section of rmValue takes.
ParentDb == IF op = "drop" THEN MainDb ELSE cur

\* Mutant: isActive is read before the lock is taken.
AcquireAfterReading(from, to, d) ==
    /\ Up /\ pc = from
    /\ writeLock[d] = "free"
    /\ writeLock' = [writeLock EXCEPT ![d] = "main"]
    /\ visible' = TimerStates
    /\ pc' = to
    /\ UNCHANGED <<procVars, dataVars, flushTimer, since, events, flushVars, op, cur>>

AcquireWriteLock(from, to, d) ==
    /\ Up /\ pc = from
    /\ writeLock[d] = "free"
    /\ writeLock' = [writeLock EXCEPT ![d] = "main"]
    /\ visible' = since[d]
    /\ pc' = to
    /\ UNCHANGED <<procVars, dataVars, flushTimer, since, events, flushVars, op, cur>>

AcquireDb == AcquireWriteLock("want", "hold", cur)
AcquireParentDb == AcquireWriteLock("want2", "hold2", ParentDb)

ReleaseWriteLock(d) == writeLock' = [writeLock EXCEPT ![d] = "free"]

\* Mutant: the change is taken back.
NewContentBackwards(d, texts) ==
    \E text \in texts :
        /\ mem' = [mem EXCEPT ![d] = [ver |-> mem[d].ver - 1, text |-> text]]
        /\ failed' = [failed EXCEPT ![d] = FALSE]

NewContent(d, texts) ==
    \E text \in texts :
        /\ mem' = [mem EXCEPT ![d] = [ver |-> mem[d].ver + 1, text |-> text]]
        /\ failed' = [failed EXCEPT ![d] = FALSE]

\* A change below the main database while its text is being written.
Tear(d) ==
    /\ torn' = (torn \/ (d # MainDb /\ stage["flush"] = "reading" /\ target["flush"] = MainDb))
    /\ UNCHANGED <<stage, target, snap, wakes>>

\* Uniting with an empty object leaves the database as empty as it was.
Insert ==
    /\ Up /\ pc = "hold" /\ op = "set"
    /\ NewContent(cur, {"keys", mem[cur].text})
    /\ Tear(cur)
    /\ ReleaseWriteLock(cur)
    /\ pc' = "queue"
    /\ UNCHANGED <<procVars, disk, timerVars, events, op, cur>>

\* The removed object is emptied under the lock of its database ...
Clear ==
    /\ Up /\ pc = "hold" /\ op \in {"rm", "drop"}
    /\ NewContent(cur, IF op = "drop" THEN {"empty"} ELSE {mem[cur].text})
    /\ Tear(cur)
    /\ ReleaseWriteLock(cur)
    /\ pc' = "want2"
    /\ UNCHANGED <<procVars, disk, timerVars, events, op, cur>>

\* ... and taken out of its parent under the lock of the parent's database.
RemoveKey ==
    /\ Up /\ pc = "hold2" /\ op = "rm"
    /\ NewContent(cur, {"empty", mem[cur].text})
    /\ Tear(cur)
    /\ ReleaseWriteLock(cur)
    /\ pc' = "queue"
    /\ UNCHANGED <<procVars, disk, timerVars, events, op, cur>>

\* Mutant: the lock of the parent's database is kept.
UnlinkDbLocked ==
    /\ Up /\ pc = "hold2" /\ op = "drop"
    /\ pc' = "post"
    /\ UNCHANGED <<procVars, dataVars, writeLock, timerVars, events, flushVars, op, cur>>

\* What the main database saves does not include its vm and dom-store keys.
UnlinkDb ==
    /\ Up /\ pc = "hold2" /\ op = "drop"
    /\ ReleaseWriteLock(MainDb)
    /\ pc' = "post"
    /\ UNCHANGED <<procVars, dataVars, timerVars, events, flushVars, op, cur>>

\* Mutant: a QueuedConnection, which does not wait.
PostFlushUnawaited ==
    /\ Up /\ pc = "post"
    /\ events' = Append(events, [kind |-> "flush", db |-> cur])
    /\ pc' = "unhash"
    /\ UNCHANGED <<procVars, dataVars, writeLock, timerVars, flushVars, op, cur>>

\* Mutant: a DirectConnection, which flushes on the main thread.
PostFlushDirect ==
    /\ Up /\ pc = "post"
    /\ EnterFlush("main", cur, FALSE)
    /\ pc' = "inline"
    /\ UNCHANGED <<procVars, dataVars, writeLock, timerVars, events, op, cur>>

\* invokeMethod(flush, BlockingQueuedConnection)
PostFlush ==
    /\ Up /\ pc = "post"
    /\ events' = Append(events, [kind |-> "flush", db |-> cur])
    /\ pc' = "blocked"
    /\ UNCHANGED <<procVars, dataVars, writeLock, timerVars, flushVars, op, cur>>

\* vmsDbs.remove(key): the last reference goes, and the object with it.
RemoveFromHash ==
    /\ Up /\ pc = "unhash"
    /\ dbs' = dbs \ {cur}
    /\ pc' = "idle"
    /\ UNCHANGED <<phase, toForce, dataVars, writeLock, timerVars, events, flushVars, op, cur>>

\* Mutant: a delay of 0 flushes nothing.
FlushNothing ==
    /\ Up /\ pc = "queue" /\ MaxFlushDelay = 0
    /\ pc' = "idle"
    /\ UNCHANGED <<procVars, dataVars, writeLock, timerVars, events, flushVars, op, cur>>

\* queueFlush() with a delay of 0: flush() on this thread.
FlushInline ==
    /\ Up /\ pc = "queue" /\ MaxFlushDelay = 0
    /\ pc' = "inline"
    /\ StopTimerUnlessSkipped(cur)
    /\ EnterFlush("main", cur, FALSE)
    /\ UNCHANGED <<procVars, dataVars, writeLock, events, op, cur>>

\* queueFlush() with a delay: ask for the timer unless it seems active.
SignalFlushTimer ==
    /\ Up /\ pc = "queue" /\ MaxFlushDelay > 0
    /\ "inactive" \in visible
    /\ events' = Append(events, [kind |-> "start", db |-> cur])
    /\ pc' = "idle"
    /\ UNCHANGED <<procVars, dataVars, writeLock, timerVars, flushVars, op, cur>>

\* Mutant: the test of the timer is inverted.
NoSignalWhenInactive ==
    /\ Up /\ pc = "queue"
    /\ MaxFlushDelay < 0 \/ (MaxFlushDelay > 0 /\ "inactive" \in visible)
    /\ pc' = "idle"
    /\ UNCHANGED <<procVars, dataVars, writeLock, timerVars, events, flushVars, op, cur>>

NoSignal ==
    /\ Up /\ pc = "queue"
    /\ MaxFlushDelay < 0 \/ (MaxFlushDelay > 0 /\ "active" \in visible)
    /\ pc' = "idle"
    /\ UNCHANGED <<procVars, dataVars, writeLock, timerVars, events, flushVars, op, cur>>

-----------------------------------------------------------------------------
Init ==
    /\ phase = "stopped"
    /\ dbs = {}
    /\ \E absent \in SUBSET Dbs :
          disk = [d \in Dbs |-> [ver |-> 0, text |-> IF d \in absent THEN "empty" ELSE "keys"]]
    /\ mem = disk
    /\ failed = [d \in Dbs |-> FALSE]
    /\ writeLock = [d \in Dbs |-> "free"]
    /\ flushTimer = [d \in Dbs |-> "inactive"]
    /\ since = [d \in Dbs |-> {"inactive"}]
    /\ visible = {"inactive"}
    /\ events = <<>>
    /\ stage = [t \in Threads |-> "idle"]
    /\ target = [t \in Threads |-> MainDb]
    /\ snap = [t \in Threads |-> NoText]
    /\ wakes = FALSE /\ torn = FALSE
    /\ pc = "idle" /\ op = "set" /\ cur = MainDb
    /\ toForce = {}

\* What a thread does until the call it is in returns.
MainStep ==
    \/ AcquireDb \/ AcquireParentDb
    \/ Insert \/ Clear \/ RemoveKey \/ UnlinkDb \/ PostFlush \/ RemoveFromHash
    \/ FlushInline \/ SignalFlushTimer \/ NoSignal
    \/ ForceNext \/ Stop

FlushStep(t) == BeginRead(t) \/ EndRead(t) \/ Abort(t) \/ Save(t) \/ SaveFails(t)

DispatchStep ==
    \E d \in Dbs : StartFlushTimer(d) \/ DispatchFlush(d) \/ ForcePendingFlush(d)

\* Requests, signals and failures.
Request ==
    \/ \E d \in Dbs : CreateChildDb(d) \/ SetOrMerge(d) \/ RmKey(d) \/ RmDb(d)
    \/ BeginExit \/ Crash \/ Start

Next ==
    \/ Request
    \/ MainStep
    \/ \E t \in Threads : FlushStep(t)
    \/ DispatchStep
    \/ \E d \in Dbs : FireTimer(d)

Spec == Init /\ [][Next]_vars

(***************************************************************************)
(* A call that has begun goes on: both threads run, locks are given to who *)
(* waits, and the event loop of the flush thread neither forgets its       *)
(* posted events nor lets them starve a timer that is due.  Nothing is     *)
(* assumed of requests, signals and failures.                              *)
(***************************************************************************)
Fairness ==
    /\ WF_vars(MainStep)
    /\ \A t \in Threads : WF_vars(FlushStep(t))
    /\ WF_vars(DispatchStep)
    /\ \A d \in Dbs : SF_vars(FireTimer(d))

FairSpec == Spec /\ Fairness

-----------------------------------------------------------------------------
(* What the protocol promises.                                             *)

TypeOK ==
    /\ phase \in {"serving", "exiting", "stopped", "crashed", "aborted"}
    /\ dbs \subseteq Dbs /\ toForce \subseteq Dbs
    /\ mem \in [Dbs -> Content] /\ disk \in [Dbs -> Content]
    /\ failed \in [Dbs -> BOOLEAN]
    /\ writeLock \in [Dbs -> Threads \cup {"free"}]
    /\ flushTimer \in [Dbs -> TimerStates]
    /\ since \in [Dbs -> SUBSET TimerStates] /\ visible \in SUBSET TimerStates
    /\ events \in Seq(Event)
    /\ stage \in [Threads -> Stages] /\ target \in [Threads -> Dbs]
    /\ snap \in [Threads -> Content] /\ wakes \in BOOLEAN /\ torn \in BOOLEAN
    /\ pc \in {"idle", "want", "hold", "want2", "hold2", "queue", "inline",
               "post", "blocked", "unhash"}
    /\ op \in {"set", "rm", "drop", "force"} /\ cur \in Dbs

\* The configurations that promise to save: -1 and ":memory:" do not.
Persistent == MaxFlushDelay >= 0 /\ ~InMemory

Queued(kind, d) == \E i \in 1..Len(events) : events[i] = [kind |-> kind, db |-> d]

\* A text of d that is still to be made will be saved.
WillSerialise(d) ==
    \/ flushTimer[d] = "active" \/ Queued("start", d) \/ Queued("flush", d)
    \/ ~Skips(d) /\ \E t \in Threads : target[t] = d /\ stage[t] \in {"want", "reading"}

\* The content now in memory is on its way to the file.
InFlight(d) ==
    \E t \in Threads : target[t] = d /\ stage[t] = "saving" /\ snap[t] = mem[d]

\* The main thread has changed d and not yet asked for it to be saved.
Owed(d) == cur = d /\ pc \in {"want2", "hold2", "queue", "post"}

(***************************************************************************)
(* The running process never forgets a change: while a file is behind the  *)
(* memory, something is bound to write it, or a save of this very content  *)
(* has failed and only logged a warning.  In particular the main thread    *)
(* may skip the signal on the strength of an isActive() it read without a  *)
(* lock, however stale that was (queueFlush, simplejsondb.cpp:214).        *)
(***************************************************************************)
NoLostUpdate ==
    (Up /\ Persistent) =>
        \A d \in Dbs : mem[d] = disk[d] \/ failed[d] \/ WillSerialise(d)
                                        \/ InFlight(d) \/ Owed(d)

\* Nothing is under way for d on the flush thread.
Quiet(d) ==
    /\ flushTimer[d] = "inactive"
    /\ \A i \in 1..Len(events) : events[i].db # d
    /\ \A t \in Threads : stage[t] # "idle" => target[t] # d

(***************************************************************************)
(* A database that rmValue has taken out of its hash is destroyed on the   *)
(* main thread: by then its timer is stopped, no event is posted to it and *)
(* the flush thread is not inside it (dbtree.cpp:350, "force flush (which  *)
(* will stop pending timers), then remove"), and it left no file behind    *)
(* unless removing it failed.                                              *)
(***************************************************************************)
RemovedDbIsQuiet ==
    Up =>
        \A d \in Dbs \ dbs : Quiet(d) /\ (Persistent => IsEmpty(disk[d]) \/ failed[d])

(***************************************************************************)
(* exitCleanup leaves nothing behind: once it returns every change is in   *)
(* its file, or a save of it has failed, and the flush thread, which is    *)
(* never joined, has nothing left to do.                                   *)
(***************************************************************************)
CleanExit ==
    (phase = "stopped" /\ Persistent) =>
        \A d \in Dbs : (mem[d] = disk[d] \/ failed[d]) /\ Quiet(d)

\* A file never goes back to an older content, whoever saves it.
FilesNeverGoBack == [][\A d \in Dbs : disk'[d].ver >= disk[d].ver]_vars

(***************************************************************************)
(* While a database is serialised nobody changes it: both threads take its *)
(* lock, and a thread in flush() holds no lock of another database.        *)
(***************************************************************************)
OneHolder ==
    Up => \A d \in Dbs :
        /\ writeLock[d] = "flush" <=> stage["flush"] = "reading" /\ target["flush"] = d
        /\ writeLock[d] = "main" <=>
              \/ pc = "hold" /\ cur = d
              \/ pc = "hold2" /\ ParentDb = d
              \/ stage["main"] = "reading" /\ target["main"] = d

(***************************************************************************)
(* A request is answered: no lock and no blocking call holds the main      *)
(* thread for ever.                                                        *)
(***************************************************************************)
RequestsReturn == (Up /\ pc # "idle") ~> (pc = "idle" \/ ~Up)

(***************************************************************************)
(* A change reaches the disk after it is made unless its save fails or the *)
(* process dies first.                                                     *)
(***************************************************************************)
EventuallyDurable ==
    Persistent =>
        \A d \in Dbs : \A v \in 1..MaxVersion :
            (Up /\ mem[d].ver >= v)
                ~> (disk[d].ver >= v \/ failed[d] \/ phase \in {"crashed", "aborted"})

(***************************************************************************)
(* The store the databases implement, when they are meant to be saved.     *)
(***************************************************************************)
StoreStatus == IF Up THEN "open" ELSE IF phase = "stopped" THEN "closed" ELSE "dead"
Versions(contents) == [d \in Dbs |-> contents[d].ver]

Store == INSTANCE DurableStore WITH
    status  <- StoreStatus,
    current <- Versions(mem),
    durable <- Versions(disk),
    givenUp <- failed

\* Delayed and forced saves, lost signals, failures and crashes included, the
\* protocol of this module is a DurableStore.
ImplementsStore == Store!Spec

(***************************************************************************)
(* jsonString takes it that the text it has just written parses            *)
(* (simplejsondb.cpp:83-93): it exits the process otherwise.               *)
(***************************************************************************)
SerialisedTextParses == phase # "aborted"
=============================================================================
