------------------------- MODULE SimpleJsonDBProofs -------------------------
(***************************************************************************)
(* IInv is an invariant of SimpleJsonDB, whatever databases there are and  *)
(* whatever the delay.  Each lemma on a step has one case per action that  *)
(* can disturb the formula.                                                *)
(***************************************************************************)
EXTENDS SimpleJsonDBInv, SequenceTheorems, TLAPS

USE DbsAssumption, DelayAssumption, InMemoryAssumption, VersionAssumption DEF Threads

LEMMA ContentFacts ==
  /\ NoText \in Content
  /\ \A n \in Nat, x \in {"empty", "keys"} : [ver |-> n, text |-> x] \in Content
  /\ \A c \in Content : c.ver \in Nat /\ c.text \in {"empty", "keys"}
  BY DEF Content, NoText

LEMMA NoEvents == <<>> \in Seq(Event)
  OBVIOUS

LEMMA TimerStateFacts == "active" \in TimerStates /\ "inactive" \in TimerStates
  BY DEF TimerStates

-----------------------------------------------------------------------------
(* Types                                                                   *)

LEMMA TypeInit == Init => TypeOK
<1> SUFFICES ASSUME Init PROVE TypeOK
  OBVIOUS
<1>1. disk \in [Dbs -> Content]
  <2>1. PICK absent \in SUBSET Dbs :
           disk = [d \in Dbs |-> [ver |-> 0, text |-> IF d \in absent THEN "empty" ELSE "keys"]]
    BY DEF Init
  <2> QED
    BY <2>1, ContentFacts
<1>2. mem \in [Dbs -> Content]
  BY <1>1 DEF Init
<1>3. snap \in [Threads -> Content]
  BY ContentFacts DEF Init
<1>4. /\ flushTimer \in [Dbs -> TimerStates] /\ since \in [Dbs -> SUBSET TimerStates]
      /\ visible \in SUBSET TimerStates
  BY DEF Init, TimerStates
<1>5. events \in Seq(Event)
  BY NoEvents DEF Init
<1>6. stage \in [Threads -> Stages] /\ target \in [Threads -> Dbs]
  BY DEF Init, Stages
<1>7. /\ phase = "stopped" /\ dbs = {} /\ toForce = {} /\ pc = "idle" /\ op = "set"
      /\ cur = MainDb /\ wakes = FALSE /\ torn = FALSE
      /\ failed \in [Dbs -> BOOLEAN] /\ writeLock \in [Dbs -> Threads \cup {"free"}]
  BY DEF Init
<1> QED
  BY <1>1, <1>2, <1>3, <1>4, <1>5, <1>6, <1>7 DEF TypeOK

LEMMA SetTimerType ==
  ASSUME TypeOK, NEW d \in Dbs, NEW s \in TimerStates, SetTimer(d, s)
  PROVE  /\ flushTimer' \in [Dbs -> TimerStates]
         /\ since' \in [Dbs -> SUBSET TimerStates]
         /\ visible' \in SUBSET TimerStates
  BY DEF SetTimer, TypeOK

LEMMA StopTimerType ==
  ASSUME TypeOK, NEW d \in Dbs, StopTimerUnlessSkipped(d)
  PROVE  /\ flushTimer' \in [Dbs -> TimerStates]
         /\ since' \in [Dbs -> SUBSET TimerStates]
         /\ visible' \in SUBSET TimerStates
<1>1. CASE Skips(d)
  BY <1>1 DEF StopTimerUnlessSkipped, TypeOK, timerVars
<1>2. CASE ~Skips(d)
  BY <1>2, SetTimerType, TimerStateFacts DEF StopTimerUnlessSkipped
<1> QED
  BY <1>1, <1>2

LEMMA EnterFlushType ==
  ASSUME TypeOK, NEW t \in Threads, NEW d \in Dbs, NEW b \in BOOLEAN, EnterFlush(t, d, b)
  PROVE  /\ stage' \in [Threads -> Stages] /\ target' \in [Threads -> Dbs]
         /\ snap' \in [Threads -> Content] /\ wakes' \in BOOLEAN /\ torn' \in BOOLEAN
  BY DEF EnterFlush, TypeOK, Stages

LEMMA ReturnType ==
  ASSUME TypeOK, NEW t \in Threads, Return(t)
  PROVE  /\ stage' \in [Threads -> Stages] /\ target' \in [Threads -> Dbs]
         /\ snap' \in [Threads -> Content] /\ wakes' \in BOOLEAN
         /\ pc' \in {pc, "idle", "unhash"}
  BY ContentFacts DEF Return, TypeOK, Stages

LEMMA NewContentType ==
  ASSUME TypeOK, NEW d \in Dbs, NEW texts \in SUBSET {"empty", "keys"}, NewContent(d, texts)
  PROVE  mem' \in [Dbs -> Content] /\ failed' \in [Dbs -> BOOLEAN]
<1>1. PICK x \in texts :
        /\ mem' = [mem EXCEPT ![d] = [ver |-> mem[d].ver + 1, text |-> x]]
        /\ failed' = [failed EXCEPT ![d] = FALSE]
  BY DEF NewContent
<1>2. mem[d].ver + 1 \in Nat
  <2>1. mem[d] \in Content
    BY DEF TypeOK
  <2>2. mem[d].ver \in Nat
    BY <2>1 DEF Content
  <2> QED
    BY <2>2
<1>3. [ver |-> mem[d].ver + 1, text |-> x] \in Content
  BY <1>2, ContentFacts
<1>4. mem \in [Dbs -> Content] /\ failed \in [Dbs -> BOOLEAN]
  BY DEF TypeOK
<1> QED
  BY <1>1, <1>3, <1>4

LEMMA CurText == ASSUME TypeOK PROVE mem[cur].text \in {"empty", "keys"}
  BY ContentFacts DEF TypeOK

LEMMA TypeStep == TypeOK /\ [Next]_vars => TypeOK'
<1> SUFFICES ASSUME TypeOK, [Next]_vars PROVE TypeOK'
  OBVIOUS
<1> USE DEF TypeOK, procVars, dataVars, timerVars, mainVars, flushVars
<1>1. CASE Start
  <2>1. mem' \in [Dbs -> Content]
    <3>1. \A d \in Dbs : [ver |-> disk[d].ver, text |-> "empty"] \in Content
      BY ContentFacts
    <3> QED
      BY <1>1, <3>1 DEF Start
  <2>2. snap' \in [Threads -> Content]
    BY <1>1, ContentFacts DEF Start, FreshProcess
  <2>3. /\ flushTimer' \in [Dbs -> TimerStates] /\ since' \in [Dbs -> SUBSET TimerStates]
        /\ visible' \in SUBSET TimerStates
    BY <1>1 DEF Start, FreshProcess, TimerStates
  <2>4. events' \in Seq(Event)
    BY <1>1, NoEvents DEF Start, FreshProcess
  <2> QED
    BY <1>1, <2>1, <2>2, <2>3, <2>4 DEF Start, FreshProcess, Stages
<1>2. CASE Crash \/ BeginExit \/ Stop
  BY <1>2 DEF Crash, BeginExit, Stop
<1>3. CASE ForceNext
  BY <1>3 DEF ForceNext, Event
<1>4. ASSUME NEW t \in Threads, BeginRead(t) PROVE TypeOK'
  BY <1>4 DEF BeginRead, Stages
<1>5. ASSUME NEW t \in Threads, EndRead(t) PROVE TypeOK'
  <2>1. since' \in [Dbs -> SUBSET TimerStates]
    BY <1>5 DEF EndRead
  <2>2. CASE Skips(target[t])
    BY <1>5, <2>1, <2>2, ReturnType DEF EndRead
  <2>3. CASE ~Skips(target[t])
    <3>1. mem[target[t]] \in Content
      OBVIOUS
    <3>2. stage' \in [Threads -> Stages] /\ snap' \in [Threads -> Content]
      BY <1>5, <2>3, <3>1 DEF EndRead, Stages
    <3> QED
      BY <1>5, <2>1, <2>3, <3>2 DEF EndRead
  <2> QED
    BY <2>2, <2>3
<1>6. ASSUME NEW t \in Threads, Abort(t) PROVE TypeOK'
  BY <1>6 DEF Abort
<1>7. ASSUME NEW t \in Threads, Save(t) PROVE TypeOK'
  BY <1>7, ReturnType DEF Save
<1>8. ASSUME NEW t \in Threads, SaveFails(t) PROVE TypeOK'
  BY <1>8, ReturnType DEF SaveFails
<1>9. ASSUME NEW d \in Dbs, FireTimer(d) PROVE TypeOK'
  BY <1>9, SetTimerType, EnterFlushType, TimerStateFacts DEF FireTimer
<1>10. ASSUME NEW d \in Dbs, StartFlushTimer(d) PROVE TypeOK'
  BY <1>10, SetTimerType, TimerStateFacts DEF StartFlushTimer, Dispatch
<1>11. ASSUME NEW d \in Dbs, DispatchFlush(d) PROVE TypeOK'
  <2>1. /\ flushTimer' \in [Dbs -> TimerStates] /\ since' \in [Dbs -> SUBSET TimerStates]
        /\ visible' \in SUBSET TimerStates
    BY <1>11, StopTimerType DEF DispatchFlush
  <2>2. events' \in Seq(Event)
    BY <1>11 DEF DispatchFlush, Dispatch
  <2> QED
    BY <1>11, <2>1, <2>2, EnterFlushType DEF DispatchFlush
<1>12. ASSUME NEW d \in Dbs, ForcePendingFlush(d) PROVE TypeOK'
  <2>1. events' \in Seq(Event)
    BY <1>12 DEF ForcePendingFlush, Dispatch
  <2>2. CASE flushTimer[d] = "active"
    <3>1. /\ flushTimer' \in [Dbs -> TimerStates] /\ since' \in [Dbs -> SUBSET TimerStates]
          /\ visible' \in SUBSET TimerStates
      BY <1>12, <2>2, StopTimerType DEF ForcePendingFlush
    <3> QED
      BY <1>12, <2>1, <2>2, <3>1, EnterFlushType DEF ForcePendingFlush
  <2>3. CASE flushTimer[d] # "active"
    BY <1>12, <2>1, <2>3 DEF ForcePendingFlush
  <2> QED
    BY <2>2, <2>3
<1>13. ASSUME NEW d \in Dbs, CreateChildDb(d) PROVE TypeOK'
  BY <1>13 DEF CreateChildDb
<1>14. ASSUME NEW d \in Dbs, SetOrMerge(d) \/ RmKey(d) \/ RmDb(d) PROVE TypeOK'
  BY <1>14 DEF SetOrMerge, RmKey, RmDb, Begin
<1>15. CASE AcquireDb \/ AcquireParentDb
  BY <1>15 DEF AcquireDb, AcquireParentDb, AcquireWriteLock, ParentDb
<1>16. CASE Insert
  BY <1>16, NewContentType, CurText DEF Insert, Tear, ReleaseWriteLock
<1>17. CASE Clear
  BY <1>17, NewContentType, CurText DEF Clear, Tear, ReleaseWriteLock
<1>18. CASE RemoveKey
  BY <1>18, NewContentType, CurText DEF RemoveKey, Tear, ReleaseWriteLock
<1>19. CASE UnlinkDb
  BY <1>19 DEF UnlinkDb, ReleaseWriteLock
<1>20. CASE PostFlush
  BY <1>20 DEF PostFlush, Event
<1>21. CASE RemoveFromHash
  BY <1>21 DEF RemoveFromHash
<1>22. CASE FlushInline
  BY <1>22, StopTimerType, EnterFlushType DEF FlushInline
<1>23. CASE SignalFlushTimer
  BY <1>23 DEF SignalFlushTimer, Event
<1>24. CASE NoSignal
  BY <1>24 DEF NoSignal
<1>25. CASE UNCHANGED vars
  BY <1>25 DEF vars
<1> QED
  BY <1>1, <1>2, <1>3, <1>4, <1>5, <1>6, <1>7, <1>8, <1>9, <1>10, <1>11, <1>12,
     <1>13, <1>14, <1>15, <1>16, <1>17, <1>18, <1>19, <1>20, <1>21, <1>22, <1>23,
     <1>24, <1>25
     DEF Next, Request, MainStep, FlushStep, DispatchStep

-----------------------------------------------------------------------------
(* The shape of the main thread                                            *)

LEMMA MainShapeStep == IInv /\ [Next]_vars => MainShape'
<1> SUFFICES ASSUME TypeOK, MainShape, JobShape, Removed, Up', [Next]_vars PROVE MainShape'
  BY DEF IInv, MainShape, Up
<1> USE DEF MainShape, Up, procVars, dataVars, timerVars, mainVars, flushVars
<1>1. CASE Start
  BY <1>1 DEF Start, FreshProcess
<1>2. CASE Crash \/ Stop \/ \E t \in Threads : Abort(t)
  BY <1>2 DEF Crash, Stop, Abort
<1>3. CASE BeginExit \/ ForceNext
  BY <1>3 DEF BeginExit, ForceNext
<1>4. ASSUME NEW t \in Threads, BeginRead(t) PROVE MainShape'
  BY <1>4 DEF BeginRead
<1>5. ASSUME NEW t \in Threads, EndRead(t) \/ Save(t) \/ SaveFails(t) PROVE MainShape'
  BY <1>5 DEF EndRead, Save, SaveFails, Return, JobShape, Busy, TypeOK
<1>6. ASSUME NEW d \in Dbs, FireTimer(d) \/ StartFlushTimer(d) \/ DispatchFlush(d) PROVE MainShape'
  <2>1. UNCHANGED <<phase, dbs, toForce, pc, op, cur>>
    BY <1>6 DEF FireTimer, StartFlushTimer, DispatchFlush
  <2> QED
    BY <2>1
<1>7. ASSUME NEW d \in Dbs, ForcePendingFlush(d) PROVE MainShape'
  BY <1>7 DEF ForcePendingFlush, Dispatch
<1>8. ASSUME NEW d \in Dbs, CreateChildDb(d) PROVE MainShape'
  BY <1>8 DEF CreateChildDb
<1>9. ASSUME NEW d \in Dbs, SetOrMerge(d) \/ RmKey(d) \/ RmDb(d) PROVE MainShape'
  BY <1>9 DEF SetOrMerge, RmKey, RmDb, Begin
<1>10. CASE AcquireDb \/ AcquireParentDb
  BY <1>10 DEF AcquireDb, AcquireParentDb, AcquireWriteLock
<1>11. CASE Insert \/ Clear \/ RemoveKey
  BY <1>11 DEF Insert, Clear, RemoveKey
<1>12. CASE UnlinkDb \/ PostFlush \/ RemoveFromHash
  BY <1>12 DEF UnlinkDb, PostFlush, RemoveFromHash
<1>13. CASE FlushInline
  BY <1>13 DEF FlushInline
<1>15. CASE SignalFlushTimer \/ NoSignal
  BY <1>15 DEF SignalFlushTimer, NoSignal
<1>14. CASE UNCHANGED vars
  BY <1>14 DEF vars
<1> QED
  BY <1>1, <1>2, <1>3, <1>4, <1>5, <1>6, <1>7, <1>8, <1>9, <1>10, <1>11, <1>12, <1>13, <1>14,
     <1>15
     DEF Next, Request, MainStep, FlushStep, DispatchStep

-----------------------------------------------------------------------------
(* The events of the flush thread                                          *)

LEMMA EventsFacts ==
  ASSUME TypeOK, events # <<>>
  PROVE  /\ Len(events) \in Nat \ {0}
         /\ Head(events) = events[1]
         /\ Tail(events) \in Seq(Event)
         /\ Len(Tail(events)) = Len(events) - 1
         /\ \A i \in 1..Len(Tail(events)) : Tail(events)[i] = events[i + 1]
         /\ Len(events) = 1 => Tail(events) = <<>>
<1>1. events \in Seq(Event)
  BY DEF TypeOK
<1>2. Len(events) \in Nat \ {0} /\ Head(events) = events[1]
  BY <1>1, EmptySeq
<1>3. /\ Tail(events) \in Seq(Event) /\ Len(Tail(events)) = Len(events) - 1
      /\ \A i \in 1..Len(Tail(events)) : Tail(events)[i] = events[i + 1]
  BY <1>1, HeadTailProperties
<1>4. Len(Tail(events)) = 0 => Tail(events) = <<>>
  BY <1>3, EmptySeq
<1> QED
  BY <1>2, <1>3, <1>4

LEMMA AppendFacts ==
  ASSUME TypeOK, NEW e \in Event
  PROVE  /\ Append(events, e) \in Seq(Event)
         /\ Append(events, e) # <<>>
         /\ Len(Append(events, e)) = Len(events) + 1
         /\ \A i \in 1..Len(events) : Append(events, e)[i] = events[i]
         /\ Append(events, e)[Len(events) + 1] = e
         /\ Len(events) \in Nat
  BY AppendProperties DEF TypeOK

\* A blocking event at the head is the only event.
LEMMA BlockingHead ==
  ASSUME TypeOK, EventShape, Up, NEW d \in Dbs, NEW k \in {"flush", "force"}, Dispatch(k, d)
  PROVE  /\ pc = "blocked" /\ d = cur /\ k = Blocking /\ ~wakes
         /\ events' = <<>>
<1>1. events # <<>> /\ events[1] = [kind |-> k, db |-> d] /\ events' = Tail(events)
  BY EventsFacts DEF Dispatch
<1>2. Len(events) \in Nat \ {0}
  BY <1>1, EventsFacts
<1>3. 1 \in 1..Len(events) /\ events[1].kind # "start"
  BY <1>1, <1>2
<1>4. pc = "blocked" /\ Len(events) = 1
  BY <1>3 DEF EventShape
<1>5. events[1] = [kind |-> Blocking, db |-> cur] /\ ~wakes
  BY <1>1, <1>4 DEF EventShape
<1>6. k = Blocking /\ d = cur
  BY <1>1, <1>5
<1> QED
  BY <1>1, <1>4, <1>5, <1>6, EventsFacts

LEMMA StartHead ==
  ASSUME TypeOK, NEW d \in Dbs, Dispatch("start", d)
  PROVE  /\ events # <<>> /\ events[1] = [kind |-> "start", db |-> d]
         /\ events' = Tail(events)
  BY EventsFacts DEF Dispatch

-----------------------------------------------------------------------------
(* Who is inside flush(), and which events are posted                      *)

LEMMA JobShapeStep == IInv /\ [Next]_vars => JobShape'
<1> SUFFICES ASSUME TypeOK, MainShape, JobShape, EventShape, NoTimers, Up', [Next]_vars
             PROVE  JobShape'
  BY DEF IInv, JobShape, Up
<1> USE DEF JobShape, Busy, Up, procVars, dataVars, timerVars, mainVars, flushVars
<1>1. CASE Start
  BY <1>1 DEF Start, FreshProcess
<1>2. CASE Crash \/ Stop \/ \E t \in Threads : Abort(t)
  BY <1>2 DEF Crash, Stop, Abort
<1>3. CASE BeginExit \/ ForceNext
  BY <1>3 DEF BeginExit, ForceNext
<1>4. ASSUME NEW t \in Threads, BeginRead(t) PROVE JobShape'
  BY <1>4 DEF BeginRead, TypeOK
<1>5. ASSUME NEW t \in Threads, Return(t), Up, UNCHANGED cur, stage[t] # "idle" PROVE JobShape'
  BY <1>5 DEF Return, TypeOK
<1>6. ASSUME NEW t \in Threads, EndRead(t) PROVE JobShape'
  <2>1. CASE Skips(target[t])
    BY <1>5, <1>6, <2>1 DEF EndRead
  <2>2. CASE ~Skips(target[t])
    BY <1>6, <2>2 DEF EndRead, TypeOK
  <2> QED
    BY <2>1, <2>2
<1>7. ASSUME NEW t \in Threads, Save(t) \/ SaveFails(t) PROVE JobShape'
  BY <1>5, <1>7 DEF Save, SaveFails
<1>8. ASSUME NEW d \in Dbs, FireTimer(d) PROVE JobShape'
  <2>1. pc # "inline" /\ stage["flush"] = "idle"
    BY <1>8, NoTimers DEF FireTimer, FlushIdle, NoTimers, MainShape
  <2> QED
    BY <1>8, <2>1 DEF FireTimer, EnterFlush, TypeOK
<1>9. ASSUME NEW d \in Dbs, StartFlushTimer(d) PROVE JobShape'
  BY <1>9 DEF StartFlushTimer
<1>10. ASSUME NEW d \in Dbs, DispatchFlush(d) PROVE JobShape'
  <2>1. pc = "blocked" /\ d = cur
    BY <1>10, BlockingHead DEF DispatchFlush, Dispatch, FlushIdle
  <2> QED
    BY <1>10, <2>1 DEF DispatchFlush, EnterFlush, TypeOK
<1>11. ASSUME NEW d \in Dbs, ForcePendingFlush(d) PROVE JobShape'
  <2>1. pc = "blocked" /\ d = cur /\ ~wakes
    BY <1>11, BlockingHead DEF ForcePendingFlush, Dispatch, FlushIdle
  <2>2. CASE flushTimer[d] = "active"
    BY <1>11, <2>1, <2>2 DEF ForcePendingFlush, EnterFlush, TypeOK
  <2>3. CASE flushTimer[d] # "active"
    BY <1>11, <2>1, <2>3 DEF ForcePendingFlush
  <2> QED
    BY <2>2, <2>3
<1>12. ASSUME NEW d \in Dbs, CreateChildDb(d) \/ SetOrMerge(d) \/ RmKey(d) \/ RmDb(d)
       PROVE  JobShape'
  BY <1>12 DEF CreateChildDb, SetOrMerge, RmKey, RmDb, Begin
<1>13. CASE AcquireDb \/ AcquireParentDb
  BY <1>13 DEF AcquireDb, AcquireParentDb, AcquireWriteLock
<1>14. CASE Insert \/ Clear \/ RemoveKey
  BY <1>14 DEF Insert, Clear, RemoveKey, Tear
<1>15. CASE UnlinkDb \/ PostFlush \/ RemoveFromHash
  BY <1>15 DEF UnlinkDb, PostFlush, RemoveFromHash
<1>16. CASE FlushInline
  <2>1. ~Busy("flush")
    BY <1>16 DEF FlushInline, NoTimers
  <2> QED
    BY <1>16, <2>1 DEF FlushInline, EnterFlush, TypeOK
<1>17. CASE SignalFlushTimer \/ NoSignal
  BY <1>17 DEF SignalFlushTimer, NoSignal
<1>18. CASE UNCHANGED vars
  BY <1>18 DEF vars
<1> QED
  BY <1>1, <1>2, <1>3, <1>4, <1>6, <1>7, <1>8, <1>9, <1>10, <1>11, <1>12, <1>13, <1>14,
     <1>15, <1>16, <1>17, <1>18
     DEF Next, Request, MainStep, FlushStep, DispatchStep

LEMMA EventShapeStep == IInv /\ [Next]_vars => EventShape'
<1> SUFFICES ASSUME TypeOK, MainShape, JobShape, EventShape, Up', [Next]_vars
             PROVE  EventShape'
  BY DEF IInv, EventShape, Up
<1> USE DEF EventShape, Blocking, Up, procVars, dataVars, timerVars, mainVars, flushVars
<1>1. CASE Start
  BY <1>1 DEF Start, FreshProcess
<1>2. CASE Crash \/ Stop \/ \E t \in Threads : Abort(t)
  BY <1>2 DEF Crash, Stop, Abort
<1>3. CASE BeginExit
  BY <1>3 DEF BeginExit
<1>4. ASSUME NEW e \in Event, events' = Append(events, e), e.kind # "start" => pc' = "blocked",
             Up, pc # "blocked",
             pc' = "blocked" => e = [kind |-> Blocking', db |-> cur'] /\ ~wakes'
      PROVE  EventShape'
  <2>1. Len(events') = Len(events) + 1 /\ events' # <<>> /\ Len(events) \in Nat
    BY <1>4, AppendFacts
  <2>2. ASSUME NEW i \in 1..Len(events'), events'[i].kind # "start"
        PROVE  i = Len(events') /\ pc' = "blocked"
    <3>1. CASE i \in 1..Len(events)
      <4>1. events'[i] = events[i]
        BY <1>4, <3>1, AppendFacts
      <4>2. events[i].kind # "start" /\ pc # "blocked" /\ Up
        BY <1>4, <2>2, <4>1
      <4> QED
        BY <3>1, <4>2
    <3>2. CASE i = Len(events) + 1
      BY <1>4, <2>1, <2>2, <3>2, AppendFacts
    <3> QED
      BY <2>1, <3>1, <3>2
  <2>3. events'[Len(events')] = e
    BY <1>4, <2>1, AppendFacts
  <2> QED
    BY <1>4, <2>1, <2>2, <2>3
<1>5. CASE ForceNext
  <2>1. PICK d \in Dbs : cur' = d /\ events' = Append(events, [kind |-> "force", db |-> d])
    BY <1>5 DEF ForceNext, TypeOK
  <2>2. [kind |-> "force", db |-> d] \in Event
    BY DEF Event
  <2>3. Up /\ op' = "force" /\ pc # "blocked" /\ pc' = "blocked" /\ ~wakes'
    BY <1>5 DEF ForceNext, MainShape, JobShape
  <2> QED
    BY <1>4, <2>1, <2>2, <2>3
<1>6. CASE PostFlush
  <2>1. [kind |-> "flush", db |-> cur] \in Event
    BY DEF Event, TypeOK
  <2>2. op' = "drop" /\ pc # "blocked" /\ pc' = "blocked" /\ ~wakes' /\ cur' = cur
    BY <1>6 DEF PostFlush, MainShape, JobShape
  <2> QED
    BY <1>4, <1>6, <2>1, <2>2 DEF PostFlush
<1>7. CASE SignalFlushTimer
  <2>1. [kind |-> "start", db |-> cur] \in Event
    BY DEF Event, TypeOK
  <2> QED
    BY <1>4, <1>7, <2>1 DEF SignalFlushTimer
<1>8. ASSUME NEW t \in Threads, BeginRead(t) PROVE EventShape'
  BY <1>8 DEF BeginRead
<1>9. ASSUME NEW t \in Threads, Return(t), stage[t] # "idle", Up,
             UNCHANGED <<events, op, cur, flushTimer>>
      PROVE  EventShape'
  <2>1. CASE t = "main"
    <3>1. pc = "inline"
      BY <1>9, <2>1 DEF JobShape, Busy
    <3> QED
      BY <1>9, <2>1, <3>1 DEF Return
  <2>2. CASE t = "flush" /\ ~wakes
    BY <1>9, <2>2 DEF Return
  <2>3. CASE t = "flush" /\ wakes
    <3>1. pc = "blocked" /\ events = <<>>
      BY <1>9, <2>3 DEF JobShape
    <3> QED
      BY <1>9, <2>3, <3>1 DEF Return
  <2> QED
    BY <2>1, <2>2, <2>3
<1>10. ASSUME NEW t \in Threads, EndRead(t) PROVE EventShape'
  <2>1. CASE Skips(target[t])
    BY <1>9, <1>10, <2>1 DEF EndRead
  <2>2. CASE ~Skips(target[t])
    BY <1>10, <2>2 DEF EndRead
  <2> QED
    BY <2>1, <2>2
<1>11. ASSUME NEW t \in Threads, Save(t) \/ SaveFails(t) PROVE EventShape'
  BY <1>9, <1>11 DEF Save, SaveFails
<1>12. ASSUME NEW d \in Dbs, FireTimer(d) PROVE EventShape'
  <2>1. ~wakes /\ ~wakes' /\ UNCHANGED <<events, pc, op, cur>>
    BY <1>12 DEF FireTimer, FlushIdle, EnterFlush, JobShape, Busy
  <2> QED
    BY <1>12, <2>1 DEF FireTimer, FlushIdle
<1>13. ASSUME NEW d \in Dbs, StartFlushTimer(d) PROVE EventShape'
  <2>1. /\ events # <<>> /\ events[1].kind = "start" /\ events' = Tail(events) /\ ~wakes
        /\ UNCHANGED <<pc, op, cur, wakes>> /\ Up
    BY <1>13, StartHead DEF StartFlushTimer, Dispatch, FlushIdle, JobShape, Busy
  <2>2. /\ Len(events) \in Nat \ {0} /\ Len(events') = Len(events) - 1
        /\ \A i \in 1..Len(events') : events'[i] = events[i + 1]
    BY <2>1, EventsFacts
  <2>3. ASSUME NEW i \in 1..Len(events'), events'[i].kind # "start"
        PROVE  i = Len(events') /\ pc' = "blocked"
    <3>1. i + 1 \in 1..Len(events) /\ events[i + 1].kind # "start"
      BY <2>2, <2>3
    <3>2. i + 1 = Len(events) /\ pc = "blocked"
      BY <2>1, <3>1
    <3>3. i = Len(events')
      <4>1. Len(events') = Len(events) - 1 /\ Len(events) \in Nat /\ i \in Int
        BY <2>2
      <4> QED
        BY <3>2, <4>1
    <3> QED
      BY <2>1, <3>2, <3>3
  <2>4. ASSUME pc = "blocked" PROVE events' # <<>> /\ events'[Len(events')] = events[Len(events)]
    <3>1. Len(events) # 1
      BY <2>1, <2>4
    <3>2. Len(events') \in 1..Len(events') /\ Len(events') + 1 = Len(events)
      BY <2>2, <3>1
    <3>3. events'[Len(events')] = events[Len(events') + 1]
      BY <2>2, <3>2
    <3>4. events' # <<>>
      BY <3>2
    <3> QED
      BY <3>2, <3>3, <3>4
  <2> QED
    BY <2>1, <2>3, <2>4
<1>14. ASSUME NEW d \in Dbs, DispatchFlush(d) PROVE EventShape'
  <2>1. pc = "blocked" /\ d = cur /\ events' = <<>> /\ UNCHANGED <<pc, cur>> /\ wakes'
    BY <1>14, BlockingHead DEF DispatchFlush, Dispatch, FlushIdle, EnterFlush
  <2>2. Skips(cur)' \/ flushTimer'[cur] = "inactive"
    BY <1>14, <2>1 DEF DispatchFlush, StopTimerUnlessSkipped, SetTimer, TypeOK, Skips
  <2> QED
    BY <2>1, <2>2
<1>15. ASSUME NEW d \in Dbs, ForcePendingFlush(d) PROVE EventShape'
  <2>1. pc = "blocked" /\ d = cur /\ events' = <<>> /\ UNCHANGED cur
    BY <1>15, BlockingHead DEF ForcePendingFlush, Dispatch, FlushIdle
  <2>2. CASE flushTimer[d] = "active"
    <3>1. wakes' /\ UNCHANGED pc
      BY <1>15, <2>2 DEF ForcePendingFlush, EnterFlush
    <3>2. StopTimerUnlessSkipped(cur)
      BY <1>15, <2>1, <2>2 DEF ForcePendingFlush
    <3>3. Skips(cur)' \/ flushTimer'[cur] = "inactive"
      BY <2>1, <3>2 DEF StopTimerUnlessSkipped, SetTimer, TypeOK, Skips
    <3> QED
      BY <2>1, <3>1, <3>3
  <2>3. CASE flushTimer[d] # "active"
    BY <1>15, <2>1, <2>3 DEF ForcePendingFlush
  <2> QED
    BY <2>2, <2>3
<1>16. ASSUME UNCHANGED events, pc # "blocked", pc' # "blocked", Up PROVE EventShape'
  BY <1>16
<1>17. ASSUME NEW d \in Dbs, CreateChildDb(d) \/ SetOrMerge(d) \/ RmKey(d) \/ RmDb(d)
       PROVE  EventShape'
  BY <1>16, <1>17 DEF CreateChildDb, SetOrMerge, RmKey, RmDb, Begin
<1>18. CASE AcquireDb \/ AcquireParentDb \/ Insert \/ Clear \/ RemoveKey
  BY <1>16, <1>18 DEF AcquireDb, AcquireParentDb, AcquireWriteLock, Insert, Clear, RemoveKey
<1>19. CASE UnlinkDb \/ RemoveFromHash \/ FlushInline \/ NoSignal
  BY <1>16, <1>19 DEF UnlinkDb, RemoveFromHash, FlushInline, NoSignal
<1>20. CASE UNCHANGED vars
  BY <1>20 DEF vars
<1> QED
  BY <1>1, <1>2, <1>3, <1>5, <1>6, <1>7, <1>8, <1>10, <1>11, <1>12, <1>13, <1>14, <1>15,
     <1>17, <1>18, <1>19, <1>20
     DEF Next, Request, MainStep, FlushStep, DispatchStep

LEMMA NoTimersStep == IInv /\ [Next]_vars => NoTimers'
<1> SUFFICES ASSUME TypeOK, JobShape, EventShape, NoTimers, Up', MaxFlushDelay =< 0, [Next]_vars
             PROVE  NoTimers'
  BY DEF IInv, NoTimers
<1> USE DEF NoTimers, Busy, Up, procVars, dataVars, timerVars, mainVars, flushVars
<1>1. CASE Start
  BY <1>1 DEF Start, FreshProcess
<1>2. CASE Crash \/ Stop \/ BeginExit \/ \E t \in Threads : Abort(t)
  BY <1>2 DEF Crash, Stop, BeginExit, Abort
<1>3. ASSUME NEW e \in Event, events' = Append(events, e), e.kind # "start", Up,
             UNCHANGED <<flushTimer, stage, wakes>>
      PROVE  NoTimers'
  <2>1. Len(events') = Len(events) + 1 /\ Len(events) \in Nat
    BY <1>3, AppendFacts
  <2>2. ASSUME NEW i \in 1..Len(events') PROVE events'[i].kind # "start"
    <3>1. CASE i \in 1..Len(events)
      BY <1>3, <3>1, AppendFacts
    <3>2. CASE i = Len(events) + 1
      BY <1>3, <3>2, AppendFacts
    <3> QED
      BY <2>1, <3>1, <3>2
  <2> QED
    BY <1>3, <2>2
<1>4. CASE ForceNext
  <2>1. PICK d \in Dbs : events' = Append(events, [kind |-> "force", db |-> d])
    BY <1>4 DEF ForceNext, TypeOK
  <2>2. [kind |-> "force", db |-> d] \in Event
    BY DEF Event
  <2> QED
    BY <1>3, <1>4, <2>1, <2>2 DEF ForceNext
<1>5. CASE PostFlush
  <2>1. [kind |-> "flush", db |-> cur] \in Event
    BY DEF Event, TypeOK
  <2> QED
    BY <1>3, <1>5, <2>1 DEF PostFlush
<1>6. ASSUME NEW t \in Threads, BeginRead(t) PROVE NoTimers'
  BY <1>6 DEF BeginRead, TypeOK
<1>7. ASSUME NEW t \in Threads, Return(t), stage[t] # "idle", Up, UNCHANGED <<events, flushTimer>>
      PROVE  NoTimers'
  BY <1>7 DEF Return, JobShape, TypeOK
<1>8. ASSUME NEW t \in Threads, EndRead(t) PROVE NoTimers'
  <2>1. CASE Skips(target[t])
    BY <1>7, <1>8, <2>1 DEF EndRead
  <2>2. CASE ~Skips(target[t])
    BY <1>8, <2>2 DEF EndRead, TypeOK
  <2> QED
    BY <2>1, <2>2
<1>9. ASSUME NEW t \in Threads, Save(t) \/ SaveFails(t) PROVE NoTimers'
  BY <1>7, <1>9 DEF Save, SaveFails
<1>10. ASSUME NEW d \in Dbs, FireTimer(d) PROVE FALSE
  BY <1>10 DEF FireTimer, FlushIdle
<1>11. ASSUME NEW d \in Dbs, StartFlushTimer(d) PROVE FALSE
  <2>1. events # <<>> /\ events[1].kind = "start" /\ Up
    BY <1>11, StartHead DEF StartFlushTimer, Dispatch, FlushIdle
  <2>2. 1 \in 1..Len(events)
    BY <2>1, EventsFacts
  <2> QED
    BY <2>1, <2>2
<1>12. ASSUME NEW d \in Dbs, StopTimerUnlessSkipped(d), Up
       PROVE  \A x \in Dbs : flushTimer'[x] = "inactive"
  BY <1>12 DEF StopTimerUnlessSkipped, SetTimer, TypeOK
<1>13. ASSUME NEW d \in Dbs, DispatchFlush(d) PROVE NoTimers'
  <2>1. events' = <<>> /\ wakes' /\ Up
    BY <1>13, BlockingHead DEF DispatchFlush, Dispatch, FlushIdle, EnterFlush
  <2>2. \A x \in Dbs : flushTimer'[x] = "inactive"
    BY <1>12, <1>13, <2>1 DEF DispatchFlush
  <2> QED
    BY <2>1, <2>2
<1>14. ASSUME NEW d \in Dbs, ForcePendingFlush(d) PROVE NoTimers'
  <2>1. events' = <<>> /\ Up
    BY <1>14, BlockingHead DEF ForcePendingFlush, Dispatch, FlushIdle
  <2>2. UNCHANGED <<flushTimer, stage, wakes>>
    BY <1>14, <2>1 DEF ForcePendingFlush
  <2> QED
    BY <2>1, <2>2
<1>15. ASSUME NEW d \in Dbs, CreateChildDb(d) \/ SetOrMerge(d) \/ RmKey(d) \/ RmDb(d)
       PROVE  NoTimers'
  BY <1>15 DEF CreateChildDb, SetOrMerge, RmKey, RmDb, Begin
<1>16. CASE AcquireDb \/ AcquireParentDb \/ Insert \/ Clear \/ RemoveKey
  BY <1>16 DEF AcquireDb, AcquireParentDb, AcquireWriteLock, Insert, Clear, RemoveKey, Tear
<1>17. CASE UnlinkDb \/ RemoveFromHash \/ NoSignal
  BY <1>17 DEF UnlinkDb, RemoveFromHash, NoSignal
<1>18. CASE FlushInline
  <2>1. ~Busy("flush") /\ UNCHANGED events /\ Up /\ cur \in Dbs
    BY <1>18 DEF FlushInline, JobShape, TypeOK
  <2>2. ~Busy("flush")'
    BY <1>18, <2>1 DEF FlushInline, EnterFlush, TypeOK
  <2>3. \A x \in Dbs : flushTimer'[x] = "inactive"
    BY <1>12, <1>18, <2>1 DEF FlushInline
  <2> QED
    BY <2>1, <2>2, <2>3
<1>19. CASE SignalFlushTimer
  BY <1>19 DEF SignalFlushTimer
<1>20. CASE UNCHANGED vars
  BY <1>20 DEF vars
<1> QED
  BY <1>1, <1>2, <1>4, <1>5, <1>6, <1>8, <1>9, <1>10, <1>11, <1>13, <1>14, <1>15, <1>16,
     <1>17, <1>18, <1>19, <1>20
     DEF Next, Request, MainStep, FlushStep, DispatchStep

-----------------------------------------------------------------------------
(* The locks                                                               *)

LEMMA OneHolderStep == IInv /\ [Next]_vars => OneHolder'
<1> SUFFICES ASSUME TypeOK, MainShape, JobShape, EventShape, OneHolder, Up', [Next]_vars
             PROVE  OneHolder'
  BY DEF IInv, OneHolder
<1> USE DEF OneHolder, ParentDb, Up, procVars, dataVars, timerVars, mainVars, flushVars
<1>1. CASE Start
  BY <1>1 DEF Start, FreshProcess
<1>2. CASE Crash \/ Stop \/ \E t \in Threads : Abort(t)
  BY <1>2 DEF Crash, Stop, Abort
<1>3. CASE BeginExit \/ ForceNext
  BY <1>3 DEF BeginExit, ForceNext
<1>4. ASSUME NEW t \in Threads, BeginRead(t) PROVE OneHolder'
  <2>1. CASE t = "flush"
    BY <1>4, <2>1 DEF BeginRead, TypeOK
  <2>2. CASE t = "main"
    <3>1. pc = "inline"
      BY <1>4, <2>2 DEF BeginRead, JobShape, Busy
    <3> QED
      BY <1>4, <2>2, <3>1 DEF BeginRead, TypeOK
  <2> QED
    BY <2>1, <2>2
<1>5. ASSUME NEW t \in Threads, Up, stage[t] = "reading", stage'[t] # "reading",
             writeLock' = [writeLock EXCEPT ![target[t]] = "free"],
             \A u \in Threads : u # t => stage'[u] = stage[u] /\ target'[u] = target[u],
             UNCHANGED <<op, cur>>, pc' = pc \/ pc \notin {"hold", "hold2"},
             pc' = pc \/ pc' \notin {"hold", "hold2"}
      PROVE  OneHolder'
  <2>1. CASE t = "flush"
    BY <1>5, <2>1 DEF TypeOK
  <2>2. CASE t = "main"
    <3>1. pc = "inline"
      BY <1>5, <2>2 DEF JobShape, Busy
    <3> QED
      BY <1>5, <2>2, <3>1 DEF TypeOK
  <2> QED
    BY <2>1, <2>2
<1>6. ASSUME NEW t \in Threads, EndRead(t) PROVE OneHolder'
  <2>1. CASE Skips(target[t])
    <3>1. wakes => pc = "blocked"
      BY <1>6 DEF EndRead, JobShape
    <3>2. t = "main" => pc = "inline"
      BY <1>6 DEF EndRead, JobShape, Busy
    <3> QED
      BY <1>5, <1>6, <2>1, <3>1, <3>2 DEF EndRead, Return, TypeOK
  <2>2. CASE ~Skips(target[t])
    BY <1>5, <1>6, <2>2 DEF EndRead, TypeOK
  <2> QED
    BY <2>1, <2>2
<1>7. ASSUME NEW t \in Threads, Save(t) \/ SaveFails(t) PROVE OneHolder'
  <2>1. /\ stage[t] = "saving" /\ Return(t) /\ Up /\ UNCHANGED <<writeLock, op, cur>>
        /\ wakes => pc = "blocked"
        /\ t = "main" => pc = "inline"
    BY <1>7 DEF Save, SaveFails, JobShape, Busy
  <2> QED
    BY <2>1 DEF Return, TypeOK
<1>8. ASSUME NEW t \in Threads, NEW d \in Dbs, NEW b \in BOOLEAN, EnterFlush(t, d, b), Up,
             stage[t] = "idle", UNCHANGED <<writeLock, op, cur>>,
             pc' = pc \/ {pc, pc'} \cap {"hold", "hold2"} = {}
      PROVE  OneHolder'
  BY <1>8 DEF EnterFlush, TypeOK
<1>9. ASSUME NEW d \in Dbs, FireTimer(d) \/ DispatchFlush(d) PROVE OneHolder'
  BY <1>8, <1>9 DEF FireTimer, DispatchFlush, Dispatch, FlushIdle
<1>10. ASSUME NEW d \in Dbs, StartFlushTimer(d) PROVE OneHolder'
  BY <1>10 DEF StartFlushTimer
<1>11. ASSUME NEW d \in Dbs, ForcePendingFlush(d) PROVE OneHolder'
  <2>1. pc = "blocked" /\ Up /\ stage["flush"] = "idle"
    BY <1>11, BlockingHead DEF ForcePendingFlush, Dispatch, FlushIdle
  <2>2. CASE flushTimer[d] = "active"
    BY <1>8, <1>11, <2>1, <2>2 DEF ForcePendingFlush
  <2>3. CASE flushTimer[d] # "active"
    BY <1>11, <2>1, <2>3 DEF ForcePendingFlush
  <2> QED
    BY <2>2, <2>3
<1>12. ASSUME NEW d \in Dbs, CreateChildDb(d) \/ SetOrMerge(d) \/ RmKey(d) \/ RmDb(d)
       PROVE  OneHolder'
  BY <1>12 DEF CreateChildDb, SetOrMerge, RmKey, RmDb, Begin
<1>13. CASE AcquireDb \/ AcquireParentDb
  <2>1. pc \in {"want", "want2"} /\ stage["main"] = "idle" /\ Up
    BY <1>13 DEF AcquireDb, AcquireParentDb, AcquireWriteLock, JobShape, Busy
  <2>2. CASE AcquireDb
    BY <2>1, <2>2 DEF AcquireDb, AcquireWriteLock, TypeOK
  <2>3. CASE AcquireParentDb
    <3>1. PICK d \in Dbs : d = ParentDb /\ writeLock[d] = "free"
                           /\ writeLock' = [writeLock EXCEPT ![d] = "main"]
      BY <2>3 DEF AcquireParentDb, AcquireWriteLock, TypeOK
    <3>2. pc' = "hold2" /\ UNCHANGED <<stage, target, op, cur>>
      BY <2>3 DEF AcquireParentDb, AcquireWriteLock
    <3> QED
      BY <2>1, <3>1, <3>2 DEF TypeOK
  <2> QED
    BY <1>13, <2>2, <2>3
<1>14. ASSUME NEW d \in Dbs, ReleaseWriteLock(d), Up, UNCHANGED <<stage, target, op, cur>>,
              (pc = "hold" /\ d = cur) \/ (pc = "hold2" /\ d = ParentDb),
              pc' \notin {"hold", "hold2"}
       PROVE  OneHolder'
  <2>1. stage["main"] = "idle"
    BY <1>14 DEF JobShape, Busy
  <2>2. writeLock[d] = "main" /\ \A x \in Dbs : writeLock[x] = "main" => x = d
    BY <1>14, <2>1
  <2>3. writeLock' = [writeLock EXCEPT ![d] = "free"] /\ writeLock \in [Dbs -> Threads \cup {"free"}]
    BY <1>14 DEF ReleaseWriteLock, TypeOK
  <2> QED
    BY <1>14, <2>1, <2>2, <2>3
<1>15. CASE Insert \/ Clear \/ RemoveKey
  <2>1. /\ cur \in Dbs /\ ReleaseWriteLock(cur) /\ Up
        /\ UNCHANGED <<stage, target, op, cur>> /\ pc' \notin {"hold", "hold2"}
        /\ pc = "hold" \/ (pc = "hold2" /\ op = "rm")
    <3>1. CASE Insert
      BY <3>1 DEF Insert, Tear, TypeOK
    <3>2. CASE Clear
      BY <3>2 DEF Clear, Tear, TypeOK
    <3>3. CASE RemoveKey
      BY <3>3 DEF RemoveKey, Tear, TypeOK
    <3> QED
      BY <1>15, <3>1, <3>2, <3>3
  <2>2. (pc = "hold" /\ cur = cur) \/ (pc = "hold2" /\ cur = ParentDb)
    BY <2>1
  <2> HIDE DEF OneHolder
  <2> QED
    BY <1>14, <2>1, <2>2
<1>16. CASE UnlinkDb
  <2>1. /\ ReleaseWriteLock(MainDb) /\ Up /\ UNCHANGED <<stage, target, op, cur>>
        /\ pc' \notin {"hold", "hold2"} /\ pc = "hold2" /\ op = "drop"
    BY <1>16 DEF UnlinkDb
  <2> QED
    BY <1>14, <2>1
<1>17. CASE PostFlush \/ RemoveFromHash \/ SignalFlushTimer \/ NoSignal
  BY <1>17 DEF PostFlush, RemoveFromHash, SignalFlushTimer, NoSignal
<1>18. CASE FlushInline
  <2>1. stage["main"] = "idle"
    BY <1>18 DEF FlushInline, JobShape, Busy
  <2> QED
    BY <1>8, <1>18, <2>1 DEF FlushInline, TypeOK
<1>19. CASE UNCHANGED vars
  BY <1>19 DEF vars
<1> QED
  BY <1>1, <1>2, <1>3, <1>4, <1>6, <1>7, <1>9, <1>10, <1>11, <1>12, <1>13, <1>15, <1>16,
     <1>17, <1>18, <1>19
     DEF Next, Request, MainStep, FlushStep, DispatchStep

-----------------------------------------------------------------------------
(* File, text and memory                                                   *)

LEMMA OlderFacts ==
  /\ \A x \in Content : Older(x, x)
  /\ \A x, y, z \in Content : Older(x, y) /\ z.ver = y.ver + 1 => Older(x, z)
  BY DEF Older, Content

LEMMA OrderedStep == IInv /\ [Next]_vars => Ordered'
<1> SUFFICES ASSUME TypeOK, TypeOK', JobShape, Ordered, Up', [Next]_vars PROVE Ordered'
  BY TypeStep DEF IInv, Ordered
<1> USE DEF Up, procVars, dataVars, timerVars, mainVars, flushVars
<1>1. CASE Start
  <2>1. \A d \in Dbs : Older(disk[d], mem'[d])
    <3>1. CASE InMemory
      <4>1. \A d \in Dbs : mem'[d].ver = disk[d].ver
        BY <1>1, <3>1 DEF Start
      <4>2. \A d \in Dbs : disk[d].ver \in Nat
        BY ContentFacts DEF TypeOK
      <4> QED
        BY <3>1, <4>1, <4>2 DEF Older
    <3>2. CASE ~InMemory
      BY <1>1, <3>2, OlderFacts DEF Start, TypeOK
    <3> QED
      BY <3>1, <3>2
  <2>2. disk' = disk /\ \A t \in Threads : stage'[t] = "idle"
    BY <1>1 DEF Start, FreshProcess
  <2> QED
    BY <2>1, <2>2 DEF Ordered
<1>2. ASSUME Up, UNCHANGED <<mem, disk, snap>>,
             \A t \in Threads : stage'[t] = "saving" => stage[t] = "saving" /\ target'[t] = target[t]
      PROVE  Ordered'
  BY <1>2 DEF Ordered
<1>3. CASE Crash \/ Stop \/ BeginExit \/ ForceNext \/ \E t \in Threads : Abort(t)
  BY <1>2, <1>3 DEF Crash, Stop, BeginExit, ForceNext, Abort
<1>4. ASSUME NEW t \in Threads, BeginRead(t) PROVE Ordered'
  BY <1>2, <1>4 DEF BeginRead, TypeOK
<1>5. ASSUME NEW t \in Threads, Return(t), Up, UNCHANGED <<mem, disk>> PROVE Ordered'
  BY <1>5 DEF Ordered, Return, TypeOK
<1>6. ASSUME NEW t \in Threads, EndRead(t) PROVE Ordered'
  <2>1. CASE Skips(target[t])
    BY <1>5, <1>6, <2>1 DEF EndRead
  <2>2. CASE ~Skips(target[t])
    <3>1. /\ stage' = [stage EXCEPT ![t] = "saving"] /\ UNCHANGED <<target, mem, disk>>
          /\ snap' = [snap EXCEPT ![t] = mem[target[t]]] /\ Up
      BY <1>6, <2>2 DEF EndRead
    <3>2. Older(mem[target[t]], mem[target[t]]) /\ Older(disk[target[t]], mem[target[t]])
      BY <3>1, OlderFacts DEF TypeOK, Ordered
    <3> QED
      BY <3>1, <3>2 DEF Ordered, TypeOK
  <2> QED
    BY <2>1, <2>2
<1>7. ASSUME NEW t \in Threads, Save(t) PROVE Ordered'
  <2>1. /\ disk' = [disk EXCEPT ![target[t]] = snap[t]] /\ mem' = mem /\ Up
        /\ Older(snap[t], mem[target[t]])
    BY <1>7 DEF Save, Ordered, TypeOK
  <2>2. \A u \in Threads : stage'[u] = "idle"
    BY <1>7 DEF Save, Return, JobShape, Busy, TypeOK
  <2> QED
    BY <2>1, <2>2 DEF Ordered, TypeOK
<1>8. ASSUME NEW t \in Threads, SaveFails(t) PROVE Ordered'
  BY <1>5, <1>8 DEF SaveFails
<1>9. ASSUME NEW t \in Threads, NEW d \in Dbs, NEW b \in BOOLEAN, EnterFlush(t, d, b), Up,
             UNCHANGED <<mem, disk>>
      PROVE  Ordered'
  BY <1>2, <1>9 DEF EnterFlush, TypeOK
<1>10. ASSUME NEW d \in Dbs, FireTimer(d) \/ DispatchFlush(d) PROVE Ordered'
  BY <1>9, <1>10 DEF FireTimer, DispatchFlush, Dispatch, FlushIdle
<1>11. ASSUME NEW d \in Dbs, StartFlushTimer(d) PROVE Ordered'
  BY <1>2, <1>11 DEF StartFlushTimer, Dispatch, FlushIdle
<1>12. ASSUME NEW d \in Dbs, ForcePendingFlush(d) PROVE Ordered'
  <2>1. CASE flushTimer[d] = "active"
    BY <1>9, <1>12, <2>1 DEF ForcePendingFlush, Dispatch, FlushIdle
  <2>2. CASE flushTimer[d] # "active"
    BY <1>2, <1>12, <2>2 DEF ForcePendingFlush, Dispatch, FlushIdle
  <2> QED
    BY <2>1, <2>2
<1>13. ASSUME NEW d \in Dbs, CreateChildDb(d) \/ SetOrMerge(d) \/ RmKey(d) \/ RmDb(d)
       PROVE  Ordered'
  BY <1>2, <1>13 DEF CreateChildDb, SetOrMerge, RmKey, RmDb, Begin
<1>14. CASE AcquireDb \/ AcquireParentDb
  BY <1>2, <1>14 DEF AcquireDb, AcquireParentDb, AcquireWriteLock
<1>15. ASSUME NEW texts, NewContent(cur, texts), Up, UNCHANGED <<disk, stage, target, snap>>
       PROVE  Ordered'
  <2>1. cur \in Dbs /\ mem'[cur].ver = mem[cur].ver + 1 /\ \A d \in Dbs : d # cur => mem'[d] = mem[d]
    BY <1>15 DEF NewContent, TypeOK
  <2>2. ASSUME NEW x \in Content, Older(x, mem[cur]) PROVE Older(x, mem'[cur])
    BY <2>1, <2>2, OlderFacts DEF TypeOK
  <2>3. Older(disk'[cur], mem'[cur])
    BY <1>15, <2>1, <2>2 DEF TypeOK, Ordered
  <2>4. \A t \in Threads : stage'[t] = "saving" /\ target'[t] = cur =>
           Older(disk'[cur], snap'[t]) /\ Older(snap'[t], mem'[cur])
    BY <1>15, <2>1, <2>2 DEF TypeOK, Ordered
  <2> QED
    BY <1>15, <2>1, <2>3, <2>4 DEF Ordered
<1>16. CASE Insert \/ Clear \/ RemoveKey
  BY <1>15, <1>16 DEF Insert, Clear, RemoveKey, Tear
<1>17. CASE UnlinkDb \/ PostFlush \/ RemoveFromHash \/ SignalFlushTimer \/ NoSignal
  BY <1>2, <1>17 DEF UnlinkDb, PostFlush, RemoveFromHash, SignalFlushTimer, NoSignal
<1>18. CASE FlushInline
  BY <1>9, <1>18 DEF FlushInline, TypeOK
<1>19. CASE UNCHANGED vars
  BY <1>2, <1>19 DEF vars
<1> QED
  BY <1>1, <1>3, <1>4, <1>6, <1>7, <1>8, <1>10, <1>11, <1>12, <1>13, <1>14, <1>16,
     <1>17, <1>18, <1>19
     DEF Next, Request, MainStep, FlushStep, DispatchStep

-----------------------------------------------------------------------------
(* The unsynchronised reading of the timer                                 *)

LEMMA StaleTimerStep == IInv /\ [Next]_vars => StaleTimer'
<1> SUFFICES ASSUME TypeOK, MainShape, JobShape, EventShape, NoTimers, OneHolder, StaleTimer,
                    Up', [Next]_vars
             PROVE  StaleTimer'
  BY DEF IInv, StaleTimer
<1> USE DEF Up, procVars, dataVars, timerVars, mainVars, flushVars
<1>1. CASE Start
  BY <1>1 DEF Start, FreshProcess, StaleTimer
<1>2. ASSUME Up, UNCHANGED <<since, visible>>,
             \A d \in Dbs : BeforeRelease(d) => BeforeRelease(d)',
             pc' \in {"hold", "hold2"} => UNCHANGED mainVars
      PROVE  StaleTimer'
  BY <1>2 DEF StaleTimer, TypeOK, Skips
<1>3. CASE Crash \/ Stop \/ BeginExit \/ ForceNext \/ \E t \in Threads : Abort(t)
  BY <1>2, <1>3 DEF Crash, Stop, BeginExit, ForceNext, Abort, BeforeRelease
<1>4. ASSUME NEW t \in Threads, BeginRead(t) PROVE StaleTimer'
  <2>1. \A d \in Dbs : BeforeRelease(d) => BeforeRelease(d)'
    BY <1>4 DEF BeginRead, BeforeRelease, TypeOK
  <2> QED
    BY <1>2, <1>4, <2>1 DEF BeginRead
<1>5. ASSUME NEW t \in Threads, EndRead(t) PROVE StaleTimer'
  <2>1. pc' \in {"hold", "hold2"} => UNCHANGED mainVars
    BY <1>5 DEF EndRead, Return
  <2>2. CASE t = "main"
    <3>1. \A d \in Dbs : BeforeRelease(d) => BeforeRelease(d)'
      BY <1>5, <2>2 DEF EndRead, Return, BeforeRelease, TypeOK
    <3> QED
      BY <1>2, <1>5, <2>1, <2>2, <3>1 DEF EndRead
  <2>3. CASE t = "flush"
    <3>1. /\ target["flush"] \in Dbs /\ stage["flush"] = "reading" /\ Up
          /\ since' = [since EXCEPT ![target["flush"]] = {flushTimer[target["flush"]]}]
          /\ UNCHANGED <<flushTimer, visible>>
      BY <1>5, <2>3 DEF EndRead, TypeOK
    <3>2. ASSUME NEW d \in Dbs, ~Skips(d), "active" \in since'[d] PROVE flushTimer[d] = "active"
      BY <3>1, <3>2 DEF StaleTimer, BeforeRelease, TypeOK
    <3>3. ASSUME pc' = "hold" \/ (pc' = "hold2" /\ op' = "rm"), ~Skips(cur'), "active" \in visible'
          PROVE  flushTimer[cur'] = "active"
      <4>1. UNCHANGED mainVars /\ cur \in Dbs
        BY <2>1, <3>3 DEF TypeOK
      <4>2. cur # target["flush"]
        BY <3>1, <3>3, <4>1 DEF OneHolder, ParentDb
      <4> QED
        BY <3>1, <3>3, <4>1, <4>2 DEF StaleTimer, BeforeRelease
    <3> QED
      BY <3>1, <3>2, <3>3 DEF StaleTimer, BeforeRelease, Skips
  <2> QED
    BY <2>2, <2>3
<1>6. ASSUME NEW t \in Threads, Save(t) \/ SaveFails(t) PROVE StaleTimer'
  <2>1. pc' \in {"hold", "hold2"} => UNCHANGED mainVars
    BY <1>6 DEF Save, SaveFails, Return
  <2>2. \A d \in Dbs : BeforeRelease(d) => BeforeRelease(d)'
    BY <1>6 DEF Save, SaveFails, Return, BeforeRelease, TypeOK
  <2> QED
    BY <1>2, <1>6, <2>1, <2>2 DEF Save, SaveFails
<1>7. ASSUME NEW d \in Dbs, SetTimer(d, "inactive"), EnterFlush("flush", d, TRUE) \/ EnterFlush("flush", d, FALSE),
             FlushIdle, UNCHANGED mainVars
      PROVE  StaleTimer'
  <2>1. /\ flushTimer' = [flushTimer EXCEPT ![d] = "inactive"]
        /\ \A x \in Dbs : "active" \in since'[x] => "active" \in since[x]
        /\ "active" \in visible' => "active" \in visible
    BY <1>7 DEF SetTimer, TypeOK
  <2>2. \A x \in Dbs : BeforeRelease(x) => BeforeRelease(x)'
    BY <1>7, <2>1 DEF EnterFlush, BeforeRelease, TypeOK, FlushIdle
  <2> QED
    BY <1>7, <2>1, <2>2 DEF StaleTimer, TypeOK, FlushIdle, Skips
<1>8. ASSUME NEW d \in Dbs, FireTimer(d) PROVE StaleTimer'
  BY <1>7, <1>8 DEF FireTimer
<1>9. ASSUME NEW d \in Dbs, StartFlushTimer(d) PROVE StaleTimer'
  <2>1. /\ SetTimer(d, "active") /\ UNCHANGED mainVars /\ UNCHANGED flushVars /\ FlushIdle
    BY <1>9 DEF StartFlushTimer, Dispatch
  <2>2. BeforeRelease(d)' /\ \A x \in Dbs : BeforeRelease(x) => BeforeRelease(x)'
    BY <2>1 DEF SetTimer, BeforeRelease, TypeOK
  <2>3. \A x \in Dbs : x # d => since'[x] = since[x]
    BY <2>1 DEF SetTimer, TypeOK
  <2>4. cur # d => visible' = visible
    BY <2>1 DEF SetTimer
  <2> QED
    BY <2>1, <2>2, <2>3, <2>4 DEF StaleTimer, TypeOK, FlushIdle, Skips
<1>10. ASSUME NEW d \in Dbs, StopTimerUnlessSkipped(d), EnterFlush("flush", d, TRUE),
              FlushIdle, UNCHANGED mainVars
       PROVE  StaleTimer'
  <2>1. CASE Skips(d)
    <3>1. \A x \in Dbs : BeforeRelease(x) => BeforeRelease(x)'
      BY <1>10, <2>1 DEF StopTimerUnlessSkipped, EnterFlush, BeforeRelease, TypeOK, FlushIdle
    <3> QED
      BY <1>2, <1>10, <2>1, <3>1 DEF StopTimerUnlessSkipped, FlushIdle
  <2>2. CASE ~Skips(d)
    BY <1>7, <1>10, <2>2 DEF StopTimerUnlessSkipped
  <2> QED
    BY <2>1, <2>2
<1>11. ASSUME NEW d \in Dbs, DispatchFlush(d) PROVE StaleTimer'
  BY <1>10, <1>11 DEF DispatchFlush, Dispatch
<1>12. ASSUME NEW d \in Dbs, ForcePendingFlush(d) PROVE StaleTimer'
  <2>1. CASE flushTimer[d] = "active"
    BY <1>10, <1>12, <2>1 DEF ForcePendingFlush, Dispatch
  <2>2. CASE flushTimer[d] # "active"
    BY <1>2, <1>12, <2>2 DEF ForcePendingFlush, Dispatch, FlushIdle, BeforeRelease
  <2> QED
    BY <2>1, <2>2
<1>13. ASSUME NEW d \in Dbs, CreateChildDb(d) \/ SetOrMerge(d) \/ RmKey(d) \/ RmDb(d)
       PROVE  StaleTimer'
  BY <1>2, <1>13 DEF CreateChildDb, SetOrMerge, RmKey, RmDb, Begin, BeforeRelease
<1>14. CASE AcquireDb
  BY <1>14 DEF AcquireDb, AcquireWriteLock, StaleTimer, BeforeRelease, TypeOK, Skips
<1>15. CASE AcquireParentDb
  BY <1>15 DEF AcquireParentDb, AcquireWriteLock, ParentDb, StaleTimer, BeforeRelease, TypeOK, Skips
<1>16. CASE Insert \/ Clear \/ RemoveKey
  BY <1>2, <1>16 DEF Insert, Clear, RemoveKey, Tear, BeforeRelease
<1>17. CASE UnlinkDb \/ PostFlush \/ RemoveFromHash \/ SignalFlushTimer \/ NoSignal
  BY <1>2, <1>17 DEF UnlinkDb, PostFlush, RemoveFromHash, SignalFlushTimer, NoSignal, BeforeRelease
<1>18. CASE FlushInline
  <2>1. \A x \in Dbs : flushTimer[x] = "inactive"
    BY <1>18 DEF FlushInline, NoTimers
  <2>2. \A x \in Dbs : flushTimer'[x] = "inactive" /\ ("active" \in since'[x] => "active" \in since[x])
    BY <1>18, <2>1 DEF FlushInline, StopTimerUnlessSkipped, SetTimer, TypeOK
  <2>3. stage'["flush"] = stage["flush"] /\ target'["flush"] = target["flush"] /\ pc' = "inline" /\ Up
    BY <1>18 DEF FlushInline, EnterFlush, TypeOK
  <2> QED
    BY <2>1, <2>2, <2>3 DEF StaleTimer, BeforeRelease, Skips
<1>19. CASE UNCHANGED vars
  BY <1>2, <1>19 DEF vars, BeforeRelease
<1> QED
  BY <1>1, <1>3, <1>4, <1>5, <1>6, <1>8, <1>9, <1>11, <1>12, <1>13, <1>14, <1>15, <1>16,
     <1>17, <1>18, <1>19
     DEF Next, Request, MainStep, FlushStep, DispatchStep

-----------------------------------------------------------------------------
(* No update is lost                                                       *)

LEMMA QueuedAppend ==
  ASSUME TypeOK, NEW e \in Event, events' = Append(events, e)
  PROVE  /\ \A k, x : Queued(k, x) => Queued(k, x)'
         /\ \A k, x : e = [kind |-> k, db |-> x] => Queued(k, x)'
<1>1. events \in Seq(Event)
  BY DEF TypeOK
<1>2. /\ Len(events') = Len(events) + 1 /\ Len(events) \in Nat
      /\ \A i \in 1..Len(events) : events'[i] = events[i]
      /\ events'[Len(events) + 1] = e
  BY <1>1
<1>3. \A i \in 1..Len(events) : i \in 1..Len(events')
  BY <1>2
<1>4. Len(events) + 1 \in 1..Len(events')
  BY <1>2
<1> QED
  BY <1>2, <1>3, <1>4 DEF Queued

LEMMA QueuedTail ==
  ASSUME TypeOK, events # <<>>, events' = Tail(events), NEW k, NEW x, Queued(k, x),
         Head(events) # [kind |-> k, db |-> x]
  PROVE  Queued(k, x)'
<1>1. events \in Seq(Event)
  BY DEF TypeOK
<1>2. PICK i \in 1..Len(events) : events[i] = [kind |-> k, db |-> x]
  BY DEF Queued
<1>3. /\ Head(events) = events[1] /\ Len(events) \in Nat \ {0}
      /\ Len(events') = Len(events) - 1
      /\ \A j \in 1..Len(events') : events'[j] = events[j + 1]
  BY <1>1
<1>4. i # 1
  BY <1>2, <1>3
<1>5. i - 1 \in 1..Len(events') /\ (i - 1) + 1 = i
  BY <1>2, <1>3, <1>4
<1>6. events'[i - 1] = [kind |-> k, db |-> x]
  BY <1>2, <1>3, <1>5
<1> QED
  BY <1>5, <1>6 DEF Queued

\* A step that leaves what is under way for d alone.
LEMMA SafeFrame ==
  ASSUME NEW d \in Dbs, Safe(d),
         mem'[d] = mem[d], disk'[d] = disk[d], failed[d] => failed'[d],
         flushTimer[d] = "active" => flushTimer'[d] = "active",
         Queued("start", d) => Queued("start", d)',
         Queued("flush", d) => Queued("flush", d)',
         \A t \in Threads : target[t] = d /\ stage[t] \in {"want", "reading"} =>
            target'[t] = d /\ stage'[t] \in {"want", "reading"},
         \A t \in Threads : target[t] = d /\ stage[t] = "saving" =>
            target'[t] = d /\ stage'[t] = "saving" /\ snap'[t] = snap[t]
  PROVE  Safe(d)'
<1>1. Skips(d)' = Skips(d)
  BY DEF Skips
<1>2. WillSerialise(d) => WillSerialise(d)'
  BY <1>1 DEF WillSerialise
<1>3. InFlight(d) => InFlight(d)'
  BY DEF InFlight
<1> QED
  BY <1>2, <1>3 DEF Safe

\* A step that does not change the content of d does not forget it either.
LEMMA SafeStep ==
  ASSUME TypeOK, JobShape, Ordered, Up, Up', Persistent, [Next]_vars,
         NEW d \in Dbs, Safe(d), mem'[d] = mem[d]
  PROVE  Safe(d)'
<1> USE DEF procVars, dataVars, timerVars, mainVars, flushVars
<1>p. ~Skips(d) /\ ~Skips(d)' /\ ~InMemory
  BY DEF Persistent, Skips
<1>1. CASE Start
  BY <1>1 DEF Start
<1>2. CASE Crash \/ Stop \/ BeginExit \/ \E t \in Threads : Abort(t)
  BY <1>2, SafeFrame DEF Crash, Stop, BeginExit, Abort, Queued
<1>3. ASSUME NEW e \in Event, events' = Append(events, e),
             UNCHANGED <<mem, disk, failed, flushTimer, stage, target, snap>>
      PROVE  Safe(d)'
  BY <1>3, QueuedAppend, SafeFrame
<1>4. CASE ForceNext
  <2>1. PICK x \in toForce : events' = Append(events, [kind |-> "force", db |-> x])
    BY <1>4 DEF ForceNext
  <2>2. [kind |-> "force", db |-> x] \in Event
    BY DEF Event, TypeOK
  <2> QED
    BY <1>3, <1>4, <2>1, <2>2 DEF ForceNext
<1>5. CASE PostFlush \/ SignalFlushTimer
  <2>1. [kind |-> "flush", db |-> cur] \in Event /\ [kind |-> "start", db |-> cur] \in Event
    BY DEF Event, TypeOK
  <2> QED
    BY <1>3, <1>5, <2>1 DEF PostFlush, SignalFlushTimer
<1>6. ASSUME NEW t \in Threads, BeginRead(t) PROVE Safe(d)'
  BY <1>6, SafeFrame DEF BeginRead, Queued, TypeOK
<1>7. ASSUME NEW t \in Threads, stage[t] = "reading" \/ stage[t] = "saving", Return(t),
             target[t] # d, UNCHANGED <<mem, disk, flushTimer, events>>, failed[d] => failed'[d]
      PROVE  Safe(d)'
  BY <1>7, SafeFrame DEF Return, Queued, TypeOK
<1>8. ASSUME NEW t \in Threads, EndRead(t) PROVE Safe(d)'
  <2>1. CASE target[t] = d
    <3>1. /\ stage'[t] = "saving" /\ snap'[t] = mem[d] /\ target' = target
      BY <1>p, <1>8, <2>1 DEF EndRead, TypeOK
    <3> QED
      BY <1>8, <2>1, <3>1 DEF Safe, InFlight
  <2>2. CASE target[t] # d /\ Skips(target[t])
    BY <1>7, <1>8, <2>2 DEF EndRead
  <2>3. CASE target[t] # d /\ ~Skips(target[t])
    BY <1>8, <2>3, SafeFrame DEF EndRead, Queued, TypeOK
  <2> QED
    BY <2>1, <2>2, <2>3
<1>9. ASSUME NEW t \in Threads, stage[t] = "saving" PROVE \A u \in Threads : stage[u] # "idle" => u = t
  BY <1>9 DEF JobShape, Busy
<1>10. ASSUME NEW t \in Threads, Save(t) PROVE Safe(d)'
  <2>1. CASE target[t] = d
    <3>1. disk'[d] = snap[t] /\ UNCHANGED <<mem, failed, flushTimer, events>>
      BY <1>10, <2>1 DEF Save, TypeOK
    <3>2. Older(disk[d], snap[t]) /\ Older(snap[t], mem[d])
      BY <1>10, <2>1 DEF Save, Ordered
    <3>3. CASE mem[d] = disk[d]
      <4>1. snap[t].ver \in Nat /\ disk[d].ver \in Nat
        BY ContentFacts DEF TypeOK
      <4>2. snap[t] = mem[d]
        BY <1>p, <3>2, <3>3, <4>1 DEF Older
      <4> QED
        BY <3>1, <4>2 DEF Safe
    <3>4. CASE failed[d]
      BY <3>1, <3>4 DEF Safe
    <3>5. CASE WillSerialise(d)
      <4>1. flushTimer[d] = "active" \/ Queued("start", d) \/ Queued("flush", d)
        BY <1>9, <1>10, <3>5 DEF WillSerialise, Save
      <4>2. flushTimer'[d] = "active" \/ Queued("start", d)' \/ Queued("flush", d)'
        BY <3>1, <4>1 DEF Queued
      <4> QED
        BY <4>2 DEF Safe, WillSerialise
    <3>6. CASE InFlight(d)
      <4>1. snap[t] = mem[d]
        BY <1>9, <1>10, <3>6 DEF InFlight, Save
      <4> QED
        BY <3>1, <4>1 DEF Safe
    <3> QED
      BY <3>3, <3>4, <3>5, <3>6 DEF Safe
  <2>2. CASE target[t] # d
    <3>1. disk'[d] = disk[d]
      BY <1>10, <2>2 DEF Save, TypeOK
    <3> QED
      BY <1>10, <2>2, <3>1, SafeFrame DEF Save, Return, Queued, TypeOK
  <2> QED
    BY <2>1, <2>2
<1>11. ASSUME NEW t \in Threads, SaveFails(t) PROVE Safe(d)'
  <2>1. /\ failed[d] => failed'[d]
        /\ target[t] = d /\ snap[t] = mem[d] => failed'[d]
    BY <1>11 DEF SaveFails, TypeOK
  <2>2. CASE target[t] # d
    BY <1>7, <1>11, <2>1, <2>2 DEF SaveFails
  <2>3. CASE target[t] = d
    <3>1. CASE InFlight(d)
      BY <1>9, <1>11, <2>1, <2>3, <3>1 DEF InFlight, Safe, SaveFails
    <3>2. CASE WillSerialise(d)
      <4>1. flushTimer[d] = "active" \/ Queued("start", d) \/ Queued("flush", d)
        BY <1>9, <1>11, <3>2 DEF WillSerialise, SaveFails
      <4>2. flushTimer'[d] = "active" \/ Queued("start", d)' \/ Queued("flush", d)'
        BY <1>11, <4>1 DEF Queued, SaveFails
      <4> QED
        BY <4>2 DEF Safe, WillSerialise
    <3>3. CASE mem[d] = disk[d] \/ failed[d]
      BY <1>11, <2>1, <3>3 DEF Safe, SaveFails
    <3> QED
      BY <3>1, <3>2, <3>3 DEF Safe
  <2> QED
    BY <2>2, <2>3
<1>12. ASSUME NEW t \in Threads, NEW b \in BOOLEAN, EnterFlush(t, d, b) PROVE Safe(d)'
  BY <1>p, <1>12 DEF EnterFlush, TypeOK, Safe, WillSerialise
<1>13. ASSUME NEW t \in Threads, NEW x \in Dbs, x # d, NEW b \in BOOLEAN, EnterFlush(t, x, b),
              stage[t] = "idle", UNCHANGED <<mem, disk, failed>>,
              SetTimer(x, "inactive") \/ StopTimerUnlessSkipped(x),
              Queued("start", d) => Queued("start", d)',
              Queued("flush", d) => Queued("flush", d)'
       PROVE  Safe(d)'
  <2>1. flushTimer'[d] = flushTimer[d]
    BY <1>13 DEF SetTimer, StopTimerUnlessSkipped, TypeOK
  <2>2. \A u \in Threads : stage[u] # "idle" =>
           stage'[u] = stage[u] /\ target'[u] = target[u] /\ snap'[u] = snap[u]
    BY <1>13 DEF EnterFlush, TypeOK
  <2> QED
    BY <1>13, <2>1, <2>2, SafeFrame
<1>14. ASSUME NEW x \in Dbs, FireTimer(x) PROVE Safe(d)'
  <2>1. CASE x = d
    BY <1>12, <1>14, <2>1 DEF FireTimer
  <2>2. CASE x # d
    BY <1>13, <1>14, <2>2 DEF FireTimer, FlushIdle, Queued
  <2> QED
    BY <2>1, <2>2
<1>15. ASSUME NEW kind \in {"start", "flush", "force"}, NEW x \in Dbs, Dispatch(kind, x), x # d \/ kind = "force"
       PROVE  /\ Queued("start", d) => Queued("start", d)'
              /\ Queued("flush", d) => Queued("flush", d)'
  <2>1. Head(events) # [kind |-> "start", db |-> d] /\ Head(events) # [kind |-> "flush", db |-> d]
    BY <1>15 DEF Dispatch
  <2> QED
    BY <1>15, <2>1, QueuedTail DEF Dispatch
<1>16. ASSUME NEW x \in Dbs, StartFlushTimer(x) PROVE Safe(d)'
  <2>1. CASE x = d
    <3>1. flushTimer'[d] = "active"
      BY <1>16, <2>1 DEF StartFlushTimer, SetTimer, TypeOK
    <3> QED
      BY <3>1 DEF Safe, WillSerialise
  <2>2. CASE x # d
    <3>1. flushTimer'[d] = flushTimer[d]
      BY <1>16, <2>2 DEF StartFlushTimer, SetTimer, TypeOK
    <3> QED
      BY <1>15, <1>16, <2>2, <3>1, SafeFrame DEF StartFlushTimer
  <2> QED
    BY <2>1, <2>2
<1>17. ASSUME NEW x \in Dbs, DispatchFlush(x) PROVE Safe(d)'
  <2>1. CASE x = d
    BY <1>12, <1>17, <2>1 DEF DispatchFlush
  <2>2. CASE x # d
    BY <1>13, <1>15, <1>17, <2>2 DEF DispatchFlush, Dispatch, FlushIdle
  <2> QED
    BY <2>1, <2>2
<1>18. ASSUME NEW x \in Dbs, ForcePendingFlush(x) PROVE Safe(d)'
  <2>1. CASE flushTimer[x] = "active" /\ x = d
    BY <1>12, <1>18, <2>1 DEF ForcePendingFlush
  <2>2. CASE flushTimer[x] = "active" /\ x # d
    BY <1>13, <1>15, <1>18, <2>2 DEF ForcePendingFlush, Dispatch, FlushIdle
  <2>3. CASE flushTimer[x] # "active"
    BY <1>15, <1>18, <2>3, SafeFrame DEF ForcePendingFlush
  <2> QED
    BY <2>1, <2>2, <2>3
<1>19. ASSUME NEW x \in Dbs, CreateChildDb(x) \/ SetOrMerge(x) \/ RmKey(x) \/ RmDb(x)
       PROVE  Safe(d)'
  BY <1>19, SafeFrame DEF CreateChildDb, SetOrMerge, RmKey, RmDb, Begin, Queued
<1>20. CASE AcquireDb \/ AcquireParentDb
  BY <1>20, SafeFrame DEF AcquireDb, AcquireParentDb, AcquireWriteLock, Queued
<1>21. ASSUME NEW texts, NewContent(cur, texts), UNCHANGED <<disk, flushTimer, events, stage, target, snap>>
       PROVE  Safe(d)'
  <2>1. mem[d].ver \in Nat /\ cur \in Dbs
    BY ContentFacts DEF TypeOK
  <2>2. mem'[cur].ver = mem[cur].ver + 1
    BY <1>21, <2>1 DEF NewContent, TypeOK
  <2>3. d # cur
    BY <2>1, <2>2
  <2>4. failed'[d] = failed[d]
    BY <1>21, <2>1, <2>3 DEF NewContent, TypeOK
  <2> QED
    BY <1>21, <2>4, SafeFrame DEF Queued
<1>22. CASE Insert \/ Clear \/ RemoveKey
  BY <1>21, <1>22 DEF Insert, Clear, RemoveKey, Tear
<1>23. CASE UnlinkDb \/ RemoveFromHash \/ NoSignal
  BY <1>23, SafeFrame DEF UnlinkDb, RemoveFromHash, NoSignal, Queued
<1>24. CASE FlushInline
  <2>1. stage["main"] = "idle" /\ cur \in Dbs
    BY <1>24 DEF FlushInline, JobShape, Busy, TypeOK
  <2>2. CASE cur = d
    BY <1>12, <1>24, <2>2 DEF FlushInline
  <2>3. CASE cur # d
    BY <1>13, <1>24, <2>1, <2>3 DEF FlushInline, Queued
  <2> QED
    BY <2>2, <2>3
<1>25. CASE UNCHANGED vars
  BY <1>25, SafeFrame DEF vars, Queued
<1> QED
  BY <1>1, <1>2, <1>4, <1>5, <1>6, <1>8, <1>10, <1>11, <1>14, <1>16, <1>17, <1>18, <1>19,
     <1>20, <1>22, <1>23, <1>24, <1>25
     DEF Next, Request, MainStep, FlushStep, DispatchStep

\* Only a change made under the lock changes the memory.
LEMMA ChangeOnlyUnderLock ==
  ASSUME TypeOK, Up, Up', [Next]_vars, NEW d \in Dbs, mem'[d] # mem[d]
  PROVE  /\ cur = d /\ cur' = d /\ op' = op /\ visible' = visible /\ pc' \in {"queue", "want2"}
         /\ flushTimer' = flushTimer /\ UNCHANGED <<stage, target, since>>
         /\ (Insert \/ Clear \/ RemoveKey)
<1> USE DEF procVars, dataVars, timerVars, mainVars, flushVars
<1>1. Insert \/ Clear \/ RemoveKey
  BY DEF Next, Request, MainStep, FlushStep, DispatchStep, Start, Crash, Stop, BeginExit, Abort,
         ForceNext, PostFlush, SignalFlushTimer, BeginRead, EndRead, Save, SaveFails, FireTimer,
         StartFlushTimer, DispatchFlush, ForcePendingFlush, Dispatch, CreateChildDb, SetOrMerge,
         RmKey, RmDb, Begin, AcquireDb, AcquireParentDb, AcquireWriteLock, UnlinkDb,
         RemoveFromHash, NoSignal, FlushInline, vars
<1>2. ASSUME NEW texts, NewContent(cur, texts) PROVE cur = d
  BY <1>2 DEF NewContent, TypeOK
<1> QED
  BY <1>1, <1>2 DEF Insert, Clear, RemoveKey, Tear

LEMMA StaleTimerAtQueueStep == IInv /\ [Next]_vars => StaleTimerAtQueue'
<1> SUFFICES ASSUME TypeOK, JobShape, EventShape, Ordered, StaleTimer, StaleTimerAtQueue, [Next]_vars,
                    Up', Persistent', pc' = "queue", "active" \in visible'
             PROVE  Safe(cur)'
  BY DEF IInv, StaleTimerAtQueue
<1> USE DEF procVars, dataVars, timerVars, mainVars, flushVars
<1>p. Persistent /\ \A d \in Dbs : ~Skips(d) /\ ~Skips(d)'
  BY DEF Persistent, Skips
<1>u. Up
  BY DEF Up, Start, FreshProcess, Next, Request, MainStep, FlushStep, DispatchStep, Crash, Stop,
         BeginExit, Abort,
         ForceNext, PostFlush, SignalFlushTimer, BeginRead, EndRead, Save, SaveFails, FireTimer,
         StartFlushTimer, DispatchFlush, ForcePendingFlush, Dispatch, CreateChildDb, SetOrMerge,
         RmKey, RmDb, Begin, AcquireDb, AcquireParentDb, AcquireWriteLock, UnlinkDb,
         RemoveFromHash, NoSignal, FlushInline, vars, Insert, Clear, RemoveKey, FlushIdle
<1>c. cur \in Dbs
  BY DEF TypeOK
<1>1. CASE Insert \/ RemoveKey
  <2>1. /\ pc = "hold" \/ (pc = "hold2" /\ op = "rm") 
        /\ cur' = cur /\ UNCHANGED <<visible, flushTimer, stage, target>>
    BY <1>1 DEF Insert, RemoveKey, Tear
  <2>2. BeforeRelease(cur)
    BY <1>p, <1>u, <1>c, <2>1 DEF StaleTimer
  <2>3. WillSerialise(cur)'
    BY <1>p, <1>c, <2>1, <2>2 DEF BeforeRelease, WillSerialise
  <2> QED
    BY <2>3 DEF Safe
<1>2. CASE ~(Insert \/ RemoveKey)
  <2>1. pc = "queue" /\ cur' = cur
    BY <1>2 DEF Start, FreshProcess, Next, Request, MainStep, FlushStep, DispatchStep, Crash, Stop, BeginExit, Abort,
         ForceNext, PostFlush, SignalFlushTimer, BeginRead, EndRead, Save, SaveFails, FireTimer, Return,
         StartFlushTimer, DispatchFlush, ForcePendingFlush, Dispatch, CreateChildDb, SetOrMerge,
         RmKey, RmDb, Begin, AcquireDb, AcquireParentDb, AcquireWriteLock, UnlinkDb,
         RemoveFromHash, NoSignal, FlushInline, vars, Clear, FlushIdle
  <2>2. mem'[cur] = mem[cur]
    BY <1>u, <1>c, <1>2, <2>1, ChangeOnlyUnderLock DEF Clear
  <2>3. CASE "active" \in visible
    <3>1. Safe(cur)
      BY <1>p, <1>u, <2>1, <2>3 DEF StaleTimerAtQueue
    <3>2. ASSUME NEW d \in Dbs, d = cur PROVE Safe(d)'
      BY <1>p, <1>u, <2>2, <3>1, <3>2, SafeStep
    <3>3. PICK d \in Dbs : d = cur
      BY <1>c
    <3>4. Safe(d)'
      BY <3>2, <3>3
    <3> QED
      BY <2>1, <3>3, <3>4
  <2>4. CASE "active" \notin visible
    <3>1. PICK d \in Dbs : StartFlushTimer(d) /\ d = cur
      BY <1>u, <2>1, <2>4 DEF Up, Start, FreshProcess, Next, Request, MainStep, FlushStep, DispatchStep, Crash, Stop, BeginExit, Abort,
         ForceNext, PostFlush, SignalFlushTimer, BeginRead, EndRead, Save, SaveFails, FireTimer, Return,
         StartFlushTimer, DispatchFlush, ForcePendingFlush, Dispatch, CreateChildDb, SetOrMerge,
         RmKey, RmDb, Begin, AcquireDb, AcquireParentDb, AcquireWriteLock, UnlinkDb,
         RemoveFromHash, NoSignal, FlushInline, vars, Clear, Insert, RemoveKey, FlushIdle, SetTimer, StopTimerUnlessSkipped
    <3>2. flushTimer'[d] = "active"
      BY <3>1 DEF StartFlushTimer, SetTimer, TypeOK
    <3>3. Safe(d)'
      BY <3>2 DEF Safe, WillSerialise
    <3> QED
      BY <2>1, <3>1, <3>3
  <2> QED
    BY <2>3, <2>4
<1> QED
  BY <1>1, <1>2

LEMMA NoLostUpdateStep == IInv /\ [Next]_vars => NoLostUpdate'
<1> SUFFICES ASSUME TypeOK, JobShape, EventShape, Ordered, NoLostUpdate, StaleTimerAtQueue,
                    [Next]_vars, Up', Persistent', NEW d \in Dbs
             PROVE  Safe(d)' \/ Owed(d)'
  BY DEF IInv, NoLostUpdate, Safe
<1> USE DEF procVars, dataVars, timerVars, mainVars, flushVars
<1>p. Persistent /\ \A x \in Dbs : ~Skips(x) /\ ~Skips(x)'
  BY DEF Persistent, Skips
<1>1. CASE Start
  BY <1>p, <1>1 DEF Start, Safe, Persistent
<1>2. CASE ~Start
  <2>u. Up
    BY <1>2 DEF Up, Next, Request, MainStep, FlushStep, DispatchStep, Crash, Stop,
         BeginExit, Abort,
         ForceNext, PostFlush, SignalFlushTimer, BeginRead, EndRead, Save, SaveFails, FireTimer,
         StartFlushTimer, DispatchFlush, ForcePendingFlush, Dispatch, CreateChildDb, SetOrMerge,
         RmKey, RmDb, Begin, AcquireDb, AcquireParentDb, AcquireWriteLock, UnlinkDb,
         RemoveFromHash, NoSignal, FlushInline, vars, Insert, Clear, RemoveKey, FlushIdle
  <2>1. CASE mem'[d] # mem[d]
    BY <2>u, <2>1, ChangeOnlyUnderLock DEF Owed
  <2>2. CASE mem'[d] = mem[d] /\ Safe(d)
    BY <1>p, <2>u, <2>2, SafeStep
  <2>3. CASE mem'[d] = mem[d] /\ Owed(d)
    <3>1. cur = d /\ cur \in Dbs /\ pc \in {"want2", "hold2", "queue", "post"}
      BY <2>3 DEF Owed, TypeOK
    <3>2. CASE UNCHANGED <<pc, cur>>
      BY <2>3, <3>2 DEF Owed
    <3>3. CASE AcquireParentDb \/ UnlinkDb \/ RemoveKey
      BY <3>1, <3>3 DEF AcquireParentDb, AcquireWriteLock, UnlinkDb, RemoveKey, Owed
    <3>4. CASE PostFlush \/ SignalFlushTimer
      <4>1. [kind |-> "flush", db |-> cur] \in Event /\ [kind |-> "start", db |-> cur] \in Event
        BY <3>1 DEF Event
      <4>2. Queued("flush", d)' \/ Queued("start", d)'
        BY <3>1, <3>4, <4>1, QueuedAppend DEF PostFlush, SignalFlushTimer
      <4> QED
        BY <4>2 DEF Safe, WillSerialise
    <3>5. CASE FlushInline
      BY <1>p, <3>1, <3>5 DEF FlushInline, EnterFlush, Safe, WillSerialise, TypeOK
    <3>6. CASE NoSignal
      <4>1. Safe(cur)
        BY <1>p, <2>u, <3>6 DEF NoSignal, StaleTimerAtQueue, Persistent
      <4> QED
        BY <1>p, <2>u, <2>3, <3>1, <4>1, SafeStep
    <3>7. ASSUME NEW x \in Dbs, ForcePendingFlush(x) PROVE FALSE
      <4>1. /\ events \in Seq(Event) /\ events # <<>> /\ Head(events).kind = "force"
        BY <3>7 DEF ForcePendingFlush, Dispatch, TypeOK
      <4>2. Head(events) = events[1] /\ 1 \in 1..Len(events)
        BY <4>1
      <4> QED
        BY <2>u, <3>1, <4>1, <4>2 DEF EventShape
    <3>8. ASSUME NEW t \in Threads, Return(t), stage[t] # "idle" PROVE pc' = pc
      BY <2>u, <3>1, <3>8 DEF Return, JobShape, Busy
    <3>9. ASSUME NEW t \in Threads, FlushStep(t) PROVE UNCHANGED <<pc, cur>>
      BY <3>8, <3>9 DEF FlushStep, BeginRead, EndRead, Abort, Save, SaveFails
    <3>10. ASSUME NEW x \in Dbs, FireTimer(x) \/ StartFlushTimer(x) \/ DispatchFlush(x)
           PROVE  UNCHANGED <<pc, cur>>
      BY <3>10 DEF FireTimer, StartFlushTimer, DispatchFlush
    <3>11. CASE Crash \/ BeginExit \/ Stop \/ ForceNext \/ AcquireDb \/ Insert \/ Clear \/ RemoveFromHash
      BY <3>1, <3>11, <2>3, <2>u DEF Crash, BeginExit, Stop, ForceNext, AcquireDb, AcquireWriteLock, Insert, Clear,
         RemoveFromHash, Up
    <3>12. ASSUME NEW x \in Dbs, CreateChildDb(x) \/ SetOrMerge(x) \/ RmKey(x) \/ RmDb(x) PROVE FALSE
      BY <3>1, <3>12 DEF CreateChildDb, SetOrMerge, RmKey, RmDb, Begin
    <3>13. CASE UNCHANGED vars
      BY <3>13, <3>2 DEF vars
    <3> QED
      BY <1>2, <3>2, <3>3, <3>4, <3>5, <3>6, <3>7, <3>9, <3>10, <3>11, <3>12, <3>13
         DEF Next, Request, MainStep, DispatchStep
  <2> QED
    BY <2>u, <1>p, <2>1, <2>2, <2>3 DEF NoLostUpdate, Safe
<1> QED
  BY <1>1, <1>2

-----------------------------------------------------------------------------
(* Removed databases, and the exit                                         *)

\* Nothing comes under way for a database the main thread asks nothing for.
LEMMA QuietStep ==
  ASSUME TypeOK, MainShape, JobShape, Up, Up', [Next]_vars, NEW d \in Dbs, Quiet(d),
         cur = d => pc \notin {"queue", "post"},
         phase = "exiting" => d \notin toForce
  PROVE  Quiet(d)'
<1> USE DEF procVars, dataVars, timerVars, mainVars, flushVars
<1>1. ASSUME flushTimer'[d] = "inactive",
             \/ events' = events
             \/ events # <<>> /\ events' = Tail(events)
             \/ \E e \in Event : e.db # d /\ events' = Append(events, e),
             \A t \in Threads : stage'[t] # "idle" => target'[t] # d
      PROVE  Quiet(d)'
  <2>1. events \in Seq(Event) /\ \A i \in 1..Len(events) : events[i].db # d
    BY DEF TypeOK, Quiet
  <2>2. CASE events' = events
    BY <1>1, <2>1, <2>2 DEF Quiet
  <2>3. CASE events # <<>> /\ events' = Tail(events)
    <3>1. /\ Len(events) \in Nat \ {0} /\ Len(events') = Len(events) - 1
          /\ \A i \in 1..Len(events') : events'[i] = events[i + 1]
      BY <2>1, <2>3
    <3>2. \A i \in 1..Len(events') : i + 1 \in 1..Len(events)
      BY <3>1
    <3> QED
      BY <1>1, <2>1, <3>1, <3>2 DEF Quiet
  <2>4. ASSUME NEW e \in Event, e.db # d, events' = Append(events, e) PROVE Quiet(d)'
    <3>1. /\ Len(events) \in Nat /\ Len(events') = Len(events) + 1
          /\ events'[Len(events) + 1] = e
          /\ \A i \in 1..Len(events) : events'[i] = events[i]
      BY <2>1, <2>4
    <3>2. \A i \in 1..Len(events') : i \in 1..Len(events) \/ i = Len(events) + 1
      BY <3>1
    <3>3. \A i \in 1..Len(events') : events'[i].db # d
      BY <2>1, <2>4, <3>1, <3>2
    <3> QED
      BY <1>1, <3>3 DEF Quiet
  <2> QED
    BY <1>1, <2>2, <2>3, <2>4
<1>2. /\ flushTimer[d] = "inactive" /\ \A t \in Threads : stage[t] # "idle" => target[t] # d
  BY DEF Quiet
<1>3. ASSUME UNCHANGED <<events, flushTimer, stage, target>> PROVE Quiet(d)'
  BY <1>3 DEF Quiet
<1>4. CASE Crash \/ Stop \/ BeginExit \/ AcquireDb \/ AcquireParentDb \/ Insert \/ Clear \/ RemoveKey
           \/ UnlinkDb \/ RemoveFromHash \/ NoSignal \/ (\E t \in Threads : Abort(t)) \/ UNCHANGED vars
  BY <1>3, <1>4 DEF Crash, Stop, BeginExit, AcquireDb, AcquireParentDb, AcquireWriteLock, Insert,
     Clear, RemoveKey, UnlinkDb, RemoveFromHash, NoSignal, Abort, Tear, vars
<1>5. ASSUME NEW x \in Dbs, CreateChildDb(x) \/ SetOrMerge(x) \/ RmKey(x) \/ RmDb(x) PROVE Quiet(d)'
  BY <1>3, <1>5 DEF CreateChildDb, SetOrMerge, RmKey, RmDb, Begin
<1>6. CASE Start
  BY <1>6 DEF Start
<1>7. CASE ForceNext
  <2>1. PICK x \in toForce : events' = Append(events, [kind |-> "force", db |-> x])
    BY <1>7 DEF ForceNext
  <2>2. [kind |-> "force", db |-> x] \in Event /\ [kind |-> "force", db |-> x].db # d
    BY <1>7, <2>1 DEF Event, TypeOK, ForceNext
  <2>3. UNCHANGED <<flushTimer, stage, target>>
    BY <1>7 DEF ForceNext
  <2> QED
    BY <1>1, <1>2, <2>1, <2>2, <2>3
<1>8. CASE PostFlush \/ SignalFlushTimer
  <2>1. cur # d /\ cur \in Dbs /\ UNCHANGED <<flushTimer, stage, target>>
    BY <1>8 DEF PostFlush, SignalFlushTimer, TypeOK
  <2>2. \A k \in {"flush", "start"} : [kind |-> k, db |-> cur] \in Event /\ [kind |-> k, db |-> cur].db # d
    BY <2>1 DEF Event
  <2>3. \E k \in {"flush", "start"} : events' = Append(events, [kind |-> k, db |-> cur])
    BY <1>8 DEF PostFlush, SignalFlushTimer
  <2> QED
    BY <1>1, <1>2, <2>1, <2>2, <2>3
<1>9. ASSUME NEW t \in Threads, BeginRead(t) \/ EndRead(t) \/ Save(t) \/ SaveFails(t) PROVE Quiet(d)'
  <2>1. UNCHANGED <<events, flushTimer>> /\ stage[t] # "idle"
    BY <1>9 DEF BeginRead, EndRead, Save, SaveFails
  <2>2. \A u \in Threads : stage'[u] # "idle" => stage[u] # "idle" /\ target'[u] = target[u]
    BY <1>9 DEF BeginRead, EndRead, Save, SaveFails, Return, TypeOK
  <2> QED
    BY <1>1, <1>2, <2>1, <2>2
<1>10. ASSUME NEW kind, NEW x \in Dbs, Dispatch(kind, x) PROVE x # d /\ events # <<>> /\ events' = Tail(events)
  <2>1. events \in Seq(Event) /\ events # <<>>
    BY <1>10 DEF Dispatch, TypeOK
  <2>2. Head(events) = events[1] /\ 1 \in 1..Len(events)
    BY <2>1
  <2>3. events[1].db = x
    BY <1>10, <2>2 DEF Dispatch
  <2> QED
    BY <1>10, <2>2, <2>3 DEF Dispatch, Quiet
<1>11. ASSUME NEW x \in Dbs, x # d, SetTimer(x, "inactive") \/ SetTimer(x, "active") \/ StopTimerUnlessSkipped(x)
       PROVE  flushTimer'[d] = "inactive"
  BY <1>2, <1>11 DEF SetTimer, StopTimerUnlessSkipped, TypeOK
<1>12. ASSUME NEW x \in Dbs, x # d, NEW t \in Threads, NEW b \in BOOLEAN, EnterFlush(t, x, b)
       PROVE  \A u \in Threads : stage'[u] # "idle" => target'[u] # d
  BY <1>2, <1>12 DEF EnterFlush, TypeOK
<1>13. ASSUME NEW x \in Dbs, FireTimer(x) PROVE Quiet(d)'
  <2>1. x # d
    BY <1>2, <1>13 DEF FireTimer
  <2> QED
    BY <1>1, <1>11, <1>12, <1>13, <2>1 DEF FireTimer
<1>14. ASSUME NEW x \in Dbs, StartFlushTimer(x) PROVE Quiet(d)'
  BY <1>1, <1>2, <1>10, <1>11, <1>14 DEF StartFlushTimer
<1>15. ASSUME NEW x \in Dbs, DispatchFlush(x) PROVE Quiet(d)'
  BY <1>1, <1>10, <1>11, <1>12, <1>15 DEF DispatchFlush
<1>16. ASSUME NEW x \in Dbs, ForcePendingFlush(x) PROVE Quiet(d)'
  BY <1>1, <1>2, <1>10, <1>11, <1>12, <1>16 DEF ForcePendingFlush
<1>17. CASE FlushInline
  <2>1. cur # d /\ cur \in Dbs
    BY <1>17 DEF FlushInline, TypeOK
  <2> QED
    BY <1>1, <1>11, <1>12, <1>17, <2>1 DEF FlushInline
<1> QED
  BY <1>4, <1>5, <1>6, <1>7, <1>8, <1>9, <1>13, <1>14, <1>15, <1>16, <1>17
     DEF Next, Request, MainStep, FlushStep, DispatchStep

\* Outside an acknowledged change a database keeps its content.
LEMMA EmptyStays ==
  ASSUME TypeOK, Up, Up', [Next]_vars, NEW d \in Dbs, IsEmpty(mem[d]),
         cur = d => pc # "hold" /\ ~(pc = "hold2" /\ op = "rm")
  PROVE  IsEmpty(mem'[d])
<1>1. CASE mem'[d] = mem[d]
  BY <1>1
<1>2. CASE mem'[d] # mem[d]
  BY <1>2, ChangeOnlyUnderLock DEF Insert, Clear, RemoveKey
<1> QED
  BY <1>1, <1>2

\* How the main thread moves on.
LEMMA MainMoves ==
  ASSUME TypeOK, MainShape, JobShape, Up, Up', [Next]_vars
  PROVE  \/ UNCHANGED mainVars
         \/ \E d \in dbs : pc = "idle" /\ cur' = d /\ pc' \in {"want", "blocked"}
                           /\ (op' = "drop" => pc' = "want")
         \/ BeginExit
         \/ UNCHANGED <<op, cur>> /\ (pc' = "idle" \/ pc # "idle")
            /\ (op = "drop" /\ pc' = "want2" => Clear)
            /\ (op = "drop" /\ pc' \in {"hold2", "post", "blocked"} => pc \in {"want2", "hold2", "post"})
            /\ (pc' = "unhash" => wakes /\ pc = "blocked" /\ \E t \in Threads : t = "flush" /\ Return(t) /\ UNCHANGED <<flushTimer, events>>)
<1> USE DEF procVars, dataVars, timerVars, mainVars, flushVars
<1>1. CASE BeginExit \/ UNCHANGED vars
  BY <1>1 DEF vars
<1>2. CASE Start \/ Crash \/ Stop \/ \E t \in Threads : Abort(t)
  BY <1>2 DEF Start, Crash, Stop, Abort, Up
<1>3. CASE ForceNext
  BY <1>3 DEF ForceNext, MainShape
<1>4. ASSUME NEW d \in Dbs, SetOrMerge(d) \/ RmKey(d) \/ RmDb(d) PROVE d \in dbs /\ pc = "idle" /\ cur' = d /\ pc' = "want"
  BY <1>4 DEF SetOrMerge, RmKey, RmDb, Begin
<1>5. ASSUME NEW d \in Dbs, CreateChildDb(d) \/ FireTimer(d) \/ StartFlushTimer(d) \/ DispatchFlush(d)
      PROVE  UNCHANGED mainVars
  BY <1>5 DEF CreateChildDb, FireTimer, StartFlushTimer, DispatchFlush
<1>6. ASSUME NEW d \in Dbs, ForcePendingFlush(d) PROVE UNCHANGED mainVars \/ (UNCHANGED <<op, cur>> /\ pc' = "idle")
  BY <1>6 DEF ForcePendingFlush
<1>7. ASSUME NEW t \in Threads, BeginRead(t) PROVE UNCHANGED mainVars
  BY <1>7 DEF BeginRead
<1>8. ASSUME NEW t \in Threads, Return(t), UNCHANGED <<op, cur, flushTimer, events>>, stage[t] # "idle"
      PROVE  \/ UNCHANGED mainVars
             \/ UNCHANGED <<op, cur>> /\ (pc' = "idle" \/ pc # "idle")
                /\ ~(op = "drop" /\ pc' = "want2")
                /\ ~(op = "drop" /\ pc' \in {"hold2", "post", "blocked"})
                /\ (pc' = "unhash" => wakes /\ pc = "blocked" /\ t = "flush")
  BY <1>8 DEF Return, JobShape
<1>9. ASSUME NEW t \in Threads, Save(t) \/ SaveFails(t)
      PROVE  Return(t) /\ UNCHANGED <<op, cur, flushTimer, events>> /\ stage[t] # "idle"
  BY <1>9 DEF Save, SaveFails
<1>10. ASSUME NEW t \in Threads, EndRead(t)
       PROVE  \/ Return(t) /\ UNCHANGED <<op, cur, flushTimer, events>> /\ stage[t] # "idle"
              \/ UNCHANGED mainVars
  BY <1>10 DEF EndRead
<1>11. CASE AcquireDb \/ AcquireParentDb
  BY <1>11 DEF AcquireDb, AcquireParentDb, AcquireWriteLock
<1>12. CASE Insert \/ Clear \/ RemoveKey \/ UnlinkDb \/ PostFlush \/ RemoveFromHash \/ FlushInline
            \/ SignalFlushTimer \/ NoSignal
  BY <1>12, MainShape DEF Insert, Clear, RemoveKey, UnlinkDb, PostFlush, RemoveFromHash, FlushInline,
     SignalFlushTimer, NoSignal
<1> QED
  BY <1>1, <1>2, <1>3, <1>4, <1>5, <1>6, <1>7, <1>8, <1>9, <1>10, <1>11, <1>12
     DEF Next, Request, MainStep, FlushStep, DispatchStep

LEMMA RemovedStep == IInv /\ [Next]_vars => Removed'
<1> SUFFICES ASSUME TypeOK, MainShape, JobShape, EventShape, NoTimers, Removed, Up', [Next]_vars
             PROVE  Removed'
  BY DEF IInv, Removed
<1>1. CASE Start
  <2>1. /\ pc' = "idle" /\ cur' = MainDb /\ MainDb \in dbs' /\ events' = <<>>
        /\ flushTimer' = [d \in Dbs |-> "inactive"] /\ stage' = [t \in Threads |-> "idle"]
    BY <1>1 DEF Start, FreshProcess
  <2>2. \A d \in Dbs : Quiet(d)'
    BY <2>1 DEF Quiet
  <2>3. \A d \in Dbs \ dbs' : IsEmpty(mem'[d])
    BY <1>1 DEF Start, IsEmpty
  <2> QED
    BY <2>1, <2>2, <2>3 DEF Removed
<1>2. CASE ~Start
  <2>u. Up
    BY <1>2 DEF Up, Next, Request, MainStep, FlushStep, DispatchStep, Crash, Stop,
         BeginExit, Abort,
         ForceNext, PostFlush, SignalFlushTimer, BeginRead, EndRead, Save, SaveFails, FireTimer,
         StartFlushTimer, DispatchFlush, ForcePendingFlush, Dispatch, CreateChildDb, SetOrMerge,
         RmKey, RmDb, Begin, AcquireDb, AcquireParentDb, AcquireWriteLock, UnlinkDb,
         RemoveFromHash, NoSignal, FlushInline, vars, Insert, Clear, RemoveKey, FlushIdle, procVars
  <2>m. /\ cur \in Dbs /\ dbs \subseteq Dbs
        /\ \A d \in Dbs \ dbs : Quiet(d) /\ IsEmpty(mem[d]) /\ (cur = d => pc = "idle")
        /\ (op = "drop" /\ pc \in {"want2", "hold2", "post", "blocked", "unhash"}) => IsEmpty(mem[cur])
        /\ pc = "unhash" => Quiet(cur)
    BY <2>u DEF Removed, TypeOK
  <2>d. \A d \in Dbs \ dbs' : d \notin dbs \/ (RemoveFromHash /\ d = cur)
    BY <1>2, <2>m DEF Next, Request, MainStep, FlushStep, DispatchStep, Crash, Stop,
         BeginExit, Abort,
         ForceNext, PostFlush, SignalFlushTimer, BeginRead, EndRead, Save, SaveFails, FireTimer,
         StartFlushTimer, DispatchFlush, ForcePendingFlush, CreateChildDb, SetOrMerge,
         RmKey, RmDb, Begin, AcquireDb, AcquireParentDb, AcquireWriteLock, UnlinkDb,
         RemoveFromHash, NoSignal, FlushInline, vars, Insert, Clear, RemoveKey, procVars
  <2>1. ASSUME NEW d \in Dbs, d \notin dbs PROVE Quiet(d)' /\ IsEmpty(mem'[d]) /\ (cur' = d => pc' = "idle")
    <3>1. Quiet(d)'
      BY <2>u, <2>m, <2>1, QuietStep DEF MainShape
    <3>2. IsEmpty(mem'[d])
      BY <2>u, <2>m, <2>1, EmptyStays
    <3>3. cur' = d => pc' = "idle"
      BY <2>u, <2>m, <2>1, MainMoves DEF mainVars, BeginExit
    <3> QED
      BY <3>1, <3>2, <3>3
  <2>2. ASSUME RemoveFromHash PROVE Quiet(cur)' /\ IsEmpty(mem'[cur]) /\ pc' = "idle"
    <3>1. pc = "unhash" /\ op = "drop" /\ UNCHANGED cur /\ pc' = "idle" /\ phase # "exiting"
      BY <2>u, <2>2 DEF RemoveFromHash, MainShape
    <3>2. ASSUME NEW d \in Dbs, d = cur PROVE Quiet(d)'
      BY <2>u, <2>m, <3>1, <3>2, QuietStep
    <3>3. ASSUME NEW d \in Dbs, d = cur PROVE IsEmpty(mem'[d])
      BY <2>u, <2>m, <3>1, <3>3, EmptyStays
    <3>4. PICK d \in Dbs : d = cur
      BY <2>m
    <3>5. Quiet(d)' /\ IsEmpty(mem'[d])
      BY <3>2, <3>3, <3>4
    <3>6. d = cur'
      BY <3>1, <3>4
    <3> QED
      BY <3>1, <3>4, <3>5, <3>6
  <2>3. ASSUME op' = "drop", pc' \in {"want2", "hold2", "post", "blocked", "unhash"}
        PROVE  IsEmpty(mem'[cur'])
    <3>1. CASE Clear
      BY <2>m, <2>3, <3>1 DEF Clear, NewContent, IsEmpty, TypeOK
    <3>2. CASE ~Clear
      <4>1. op = "drop" /\ cur' = cur /\ pc \in {"want2", "hold2", "post", "blocked", "unhash"}
        BY <2>u, <2>3, <3>2, MainMoves DEF mainVars, BeginExit
      <4>2. ASSUME NEW d \in Dbs, d = cur PROVE IsEmpty(mem'[d])
        BY <2>u, <2>m, <4>1, <4>2, EmptyStays
      <4> QED
        BY <2>m, <4>1, <4>2
    <3> QED
      BY <3>1, <3>2
  <2>4. ASSUME pc' = "unhash", NEW d \in Dbs, cur' = d PROVE Quiet(d)'
    <3>1. CASE pc = "unhash" /\ cur = d
      <4>1. phase # "exiting" /\ Quiet(d)
        BY <2>u, <2>m, <3>1 DEF MainShape
      <4> QED
        BY <2>u, <3>1, <4>1, QuietStep
    <3>2. CASE pc # "unhash" \/ cur # d
      <4>1. /\ wakes /\ pc = "blocked" /\ cur = d /\ op = op'
            /\ Return("flush") /\ UNCHANGED <<flushTimer, events>>
        BY <2>u, <2>4, <3>2, MainMoves DEF mainVars, BeginExit
      <4>2. events = <<>> /\ (Skips(cur) \/ flushTimer[cur] = "inactive")
        BY <2>u, <4>1 DEF EventShape
      <4>3. op = "drop" /\ cur # MainDb
        BY <2>u, <2>4, <4>1 DEF Return, MainShape
      <4>4. flushTimer[d] = "inactive"
        BY <2>u, <4>1, <4>2, <4>3 DEF Skips, NoTimers
      <4>5. stage'["flush"] = "idle" /\ stage'["main"] = "idle"
        BY <2>u, <4>1 DEF Return, JobShape, Busy, TypeOK
      <4> QED
        BY <4>1, <4>2, <4>4, <4>5 DEF Quiet
    <3> QED
      BY <3>1, <3>2
  <2>5. cur' \in Dbs
    BY TypeStep DEF TypeOK
  <2>6. pc' = "unhash" => Quiet(cur)'
    BY <2>4, <2>5 DEF Quiet
  <2>7. ASSUME NEW d \in Dbs, d \notin dbs'
        PROVE  Quiet(d)' /\ IsEmpty(mem'[d]) /\ (cur' = d => pc' = "idle")
    <3>1. CASE d \notin dbs
      BY <2>1, <3>1
    <3>2. CASE RemoveFromHash /\ d = cur
      <4>1. cur' = cur
        BY <3>2 DEF RemoveFromHash
      <4> QED
        BY <2>2, <3>2, <4>1 DEF Quiet
    <3> QED
      BY <2>d, <2>7, <3>1, <3>2
  <2> QED
    BY <2>3, <2>6, <2>7 DEF Removed
<1> QED
  BY <1>1, <1>2

\* A blocking call returns when its event finds no timer, or its save is over.
LEMMA BlockedUntil ==
  ASSUME TypeOK, JobShape, EventShape, Up, Up', [Next]_vars, pc = "blocked",
         pc' # "blocked" \/ cur' # cur
  PROVE  /\ UNCHANGED <<flushTimer, cur>> /\ events' = <<>>
         /\ \A t \in Threads : stage'[t] = "idle"
         /\ Skips(cur) \/ flushTimer[cur] = "inactive"
<1> USE DEF procVars, dataVars, timerVars, mainVars, flushVars
<1>1. \/ \E t \in Threads : EndRead(t) \/ Save(t) \/ SaveFails(t)
      \/ \E d \in Dbs : ForcePendingFlush(d)
  BY DEF Next, Request, MainStep, FlushStep, DispatchStep, Start, Crash, Stop, BeginExit, Abort,
         ForceNext, PostFlush, SignalFlushTimer, BeginRead, FireTimer, StartFlushTimer,
         DispatchFlush, CreateChildDb, SetOrMerge, RmKey, RmDb, Begin, AcquireDb,
         AcquireParentDb, AcquireWriteLock, UnlinkDb, RemoveFromHash, NoSignal, FlushInline, vars,
         Insert, Clear, RemoveKey
<1>m. stage["main"] = "idle"
  BY DEF JobShape, Busy
<1>2. ASSUME NEW t \in Threads, EndRead(t) \/ Save(t) \/ SaveFails(t)
      PROVE  /\ t = "flush" /\ Return(t) /\ UNCHANGED <<flushTimer, cur, events>> /\ wakes
  BY <1>2, <1>m DEF EndRead, Save, SaveFails, Return
<1>3. ASSUME Return("flush"), UNCHANGED <<flushTimer, cur, events>>, wakes
      PROVE  /\ events' = <<>> /\ \A t \in Threads : stage'[t] = "idle"
             /\ Skips(cur) \/ flushTimer[cur] = "inactive"
  BY <1>3, <1>m DEF Return, EventShape, TypeOK
<1>4. ASSUME NEW d \in Dbs, ForcePendingFlush(d)
      PROVE  /\ UNCHANGED <<flushTimer, cur>> /\ events' = <<>>
             /\ \A t \in Threads : stage'[t] = "idle"
             /\ flushTimer[cur] = "inactive"
  <2>1. d = cur /\ events' = <<>> /\ stage["flush"] = "idle"
    BY <1>4, BlockingHead DEF ForcePendingFlush, Dispatch, FlushIdle
  <2>2. flushTimer[d] # "active" /\ UNCHANGED <<flushTimer, cur, stage>>
    BY <1>4 DEF ForcePendingFlush
  <2> QED
    BY <1>m, <2>1, <2>2 DEF TypeOK, TimerStates
<1> QED
  BY <1>1, <1>2, <1>3, <1>4

LEMMA ForcedStep == IInv /\ [Next]_vars => Forced'
<1> SUFFICES ASSUME TypeOK, MainShape, JobShape, EventShape, Removed, Forced, [Next]_vars,
                    phase' = "exiting", Persistent', NEW d \in dbs' \ toForce',
                    ~(pc' = "blocked" /\ cur' = d)
             PROVE  Quiet(d)'
  BY DEF IInv, Forced
<1>p. Persistent /\ \A x \in Dbs : ~Skips(x)
  BY DEF Persistent, Skips
<1>1. CASE BeginExit
  BY <1>1 DEF BeginExit
<1>2. CASE ~BeginExit
  <2>u. phase = "exiting"
    <3>1. phase' = phase \/ Start \/ Crash \/ Stop \/ \E t \in Threads : Abort(t)
      BY <1>2 DEF Next, Request, MainStep, FlushStep, DispatchStep,
         ForceNext, PostFlush, SignalFlushTimer, BeginRead, EndRead, Save, SaveFails, FireTimer,
         StartFlushTimer, DispatchFlush, ForcePendingFlush, CreateChildDb, SetOrMerge,
         RmKey, RmDb, Begin, AcquireDb, AcquireParentDb, AcquireWriteLock, UnlinkDb,
         RemoveFromHash, NoSignal, FlushInline, vars, Insert, Clear, RemoveKey, procVars
    <3> QED
      BY <3>1 DEF Start, Crash, Stop, Abort
  <2>1. pc \in {"idle", "blocked"} /\ Up /\ Up'
    BY <2>u DEF Up, MainShape
  <2>f. ForceNext => dbs' = dbs
    BY DEF ForceNext
  <2>2. dbs' = dbs /\ (toForce' = toForce \/ ForceNext)
    BY <1>2, <2>f, <2>u, <2>1 DEF Start, Next, Request, MainStep, FlushStep, DispatchStep, Crash, Stop, Abort,
         PostFlush, SignalFlushTimer, BeginRead, EndRead, Save, SaveFails, FireTimer,
         StartFlushTimer, DispatchFlush, ForcePendingFlush, Dispatch, CreateChildDb, SetOrMerge,
         RmKey, RmDb, Begin, AcquireDb, AcquireParentDb, AcquireWriteLock, UnlinkDb,
         RemoveFromHash, NoSignal, FlushInline, vars, Insert, Clear, RemoveKey, procVars, Up
  <2>3. d \notin toForce /\ d \in Dbs
    BY <2>2 DEF ForceNext, TypeOK
  <2>4. CASE ~(pc = "blocked" /\ cur = d)
    <3>1. Quiet(d)
      BY <1>p, <2>u, <2>2, <2>3, <2>4 DEF Forced
    <3> QED
      BY <2>1, <2>3, <3>1, QuietStep
  <2>5. CASE pc = "blocked" /\ cur = d
    <3>1. /\ UNCHANGED <<flushTimer, cur>> /\ events' = <<>>
          /\ \A t \in Threads : stage'[t] = "idle"
          /\ flushTimer[d] = "inactive"
      BY <1>p, <2>1, <2>3, <2>5, BlockedUntil
    <3> QED
      BY <3>1 DEF Quiet
  <2> QED
    BY <2>4, <2>5
<1> QED
  BY <1>1, <1>2

LEMMA QuietIsIdle ==
  ASSUME NEW d \in Dbs, Quiet(d) PROVE ~WillSerialise(d) /\ ~InFlight(d)
  BY DEF Quiet, WillSerialise, InFlight, Queued

LEMMA CleanExitStep == IInv /\ [Next]_vars => CleanExit'
<1> SUFFICES ASSUME IInv, [Next]_vars, phase' = "stopped", Persistent' PROVE
             \A d \in Dbs : (mem'[d] = disk'[d] \/ failed'[d]) /\ Quiet(d)'
  BY DEF CleanExit
<1>p. Persistent
  BY DEF Persistent
<1>1. UNCHANGED <<mem, disk, failed, flushTimer, events, stage, target>> /\ (Stop \/ phase = "stopped")
  BY DEF Start, Next, Request, MainStep, FlushStep, DispatchStep, Crash, Stop, BeginExit, Abort,
         ForceNext, PostFlush, SignalFlushTimer, BeginRead, EndRead, Save, SaveFails, FireTimer,
         StartFlushTimer, DispatchFlush, ForcePendingFlush, Dispatch, CreateChildDb, SetOrMerge,
         RmKey, RmDb, Begin, AcquireDb, AcquireParentDb, AcquireWriteLock, UnlinkDb, FlushIdle,
         RemoveFromHash, NoSignal, FlushInline, vars, Insert, Clear, RemoveKey, procVars, Up,
         dataVars, timerVars, flushVars
<1>2. ASSUME NEW d \in Dbs PROVE (mem[d] = disk[d] \/ failed[d]) /\ Quiet(d)
  <2>1. CASE phase = "stopped"
    BY <1>p, <2>1 DEF IInv, CleanExit
  <2>2. CASE Stop
    <3>1. phase = "exiting" /\ pc = "idle" /\ toForce = {} /\ Up
      BY <2>2 DEF Stop, Up
    <3>2. Quiet(d)
      BY <1>p, <3>1 DEF IInv, Forced, Removed
    <3> QED
      BY <1>p, <3>1, <3>2, QuietIsIdle DEF IInv, NoLostUpdate, Owed
  <2> QED
    BY <1>1, <2>1, <2>2
<1> QED
  BY <1>1, <1>2 DEF Quiet

-----------------------------------------------------------------------------
(* The theorems                                                            *)

LEMMA InvInit == Init => IInv
<1> SUFFICES ASSUME Init PROVE IInv
  OBVIOUS
<1>1. TypeOK
  BY TypeInit
<1>2. ~Up /\ phase = "stopped"
  BY DEF Init, Up
<1>3. MainShape /\ JobShape /\ EventShape /\ NoTimers /\ OneHolder /\ Ordered /\ StaleTimer
      /\ StaleTimerAtQueue /\ NoLostUpdate /\ Removed /\ Forced
  BY <1>2 DEF MainShape, JobShape, EventShape, NoTimers, OneHolder, Ordered, StaleTimer,
              StaleTimerAtQueue, NoLostUpdate, Removed, Forced
<1>4. CleanExit
  <2>1. /\ events = <<>> /\ flushTimer = [d \in Dbs |-> "inactive"]
        /\ stage = [t \in Threads |-> "idle"]
    BY DEF Init
  <2>4. \A i \in 1..Len(events) : FALSE
    BY <2>1
  <2>5. \A d \in Dbs : flushTimer[d] = "inactive"
    BY <2>1
  <2>6. \A t \in Threads : stage[t] = "idle"
    BY <2>1
  <2>2. \A d \in Dbs : Quiet(d)
    BY <2>4, <2>5, <2>6 DEF Quiet
  <2>3. mem = disk
    BY DEF Init
  <2> QED
    BY <2>2, <2>3 DEF CleanExit
<1> QED
  BY <1>1, <1>3, <1>4 DEF IInv

LEMMA InvStep == IInv /\ [Next]_vars => IInv'
  BY TypeStep, MainShapeStep, JobShapeStep, EventShapeStep, NoTimersStep, OneHolderStep,
     OrderedStep, StaleTimerStep, StaleTimerAtQueueStep, NoLostUpdateStep, RemovedStep,
     ForcedStep, CleanExitStep
     DEF IInv

(***************************************************************************)
(* The protocol of simplejsondb.cpp and dbtree.cpp keeps its inductive     *)
(* invariant, for any databases, delay and path.                           *)
(***************************************************************************)
THEOREM Invariance == Spec => []IInv
  BY InvInit, InvStep, PTL DEF Spec

\* The variables of the model keep their types.
THEOREM TypeCorrect == Spec => []TypeOK
<1>1. IInv => TypeOK
  BY DEF IInv
<1> QED
  BY <1>1, Invariance, PTL

(***************************************************************************)
(* queueFlush's unsynchronised test of the timer and the saves of flush()  *)
(* never leave a change behind that nothing will write.                    *)
(***************************************************************************)
THEOREM NoUpdateIsLost == Spec => []NoLostUpdate
<1>1. IInv => NoLostUpdate
  BY DEF IInv
<1> QED
  BY <1>1, Invariance, PTL

(***************************************************************************)
(* jsonString and the changes of DBTree exclude each other on a database's *)
(* writeLock, and flush() holds no lock but that of its database.          *)
(***************************************************************************)
THEOREM MutualExclusion == Spec => []OneHolder
<1>1. IInv => OneHolder
  BY DEF IInv
<1> QED
  BY <1>1, Invariance, PTL

(***************************************************************************)
(* rmValue destroys a database only when the flush thread is done with it  *)
(* and its file is gone or could not be removed.                           *)
(***************************************************************************)
THEOREM RemovalIsQuiet == Spec => []RemovedDbIsQuiet
<1>1. IInv => RemovedDbIsQuiet
  <2> SUFFICES ASSUME IInv, Up, NEW d \in Dbs \ dbs
               PROVE  Quiet(d) /\ (Persistent => IsEmpty(disk[d]) \/ failed[d])
    BY DEF RemovedDbIsQuiet
  <2>1. Quiet(d) /\ IsEmpty(mem[d]) /\ (cur = d => pc = "idle")
    BY DEF IInv, Removed
  <2>2. Persistent => mem[d] = disk[d] \/ failed[d]
    BY <2>1, QuietIsIdle DEF IInv, NoLostUpdate, Owed
  <2>3. mem[d] = disk[d] => IsEmpty(disk[d])
    BY <2>1
  <2> QED
    BY <2>1, <2>2, <2>3
<1> QED
  BY <1>1, Invariance, PTL

\* When exitCleanup is over, every change is in its file or its save has failed.
THEOREM ExitIsClean == Spec => []CleanExit
<1>1. IInv => CleanExit
  BY DEF IInv
<1> QED
  BY <1>1, Invariance, PTL

\* The steps of both threads that do not save leave the files alone.
LEMMA OnlySaveWrites == [Next]_vars /\ disk' # disk => \E t \in Threads : Save(t)
  BY DEF Next, Request, MainStep, FlushStep, DispatchStep, Start, Crash, Stop, BeginExit, Abort,
         ForceNext, PostFlush, SignalFlushTimer, BeginRead, EndRead, SaveFails, FireTimer,
         StartFlushTimer, DispatchFlush, ForcePendingFlush, Dispatch, CreateChildDb, SetOrMerge,
         RmKey, RmDb, Begin, AcquireDb, AcquireParentDb, AcquireWriteLock, UnlinkDb,
         RemoveFromHash, NoSignal, FlushInline, vars, Insert, Clear, RemoveKey, dataVars

(***************************************************************************)
(* Whichever of the timer, rmValue, exitCleanup and queueFlush makes       *)
(* flush() run, and on whichever thread, a file is never overwritten with  *)
(* an older text.                                                          *)
(***************************************************************************)
THEOREM FilesOnlyAdvance == Spec => FilesNeverGoBack
<1>1. IInv /\ [Next]_vars => [\A d \in Dbs : disk'[d].ver >= disk[d].ver]_vars
  <2> SUFFICES ASSUME IInv, [Next]_vars, NEW d \in Dbs PROVE disk'[d].ver >= disk[d].ver
    OBVIOUS
  <2>1. TypeOK /\ Ordered
    BY DEF IInv
  <2>2. disk[d].ver \in Nat
    BY <2>1, ContentFacts DEF TypeOK
  <2>3. CASE disk' = disk
    BY <2>2, <2>3
  <2>4. ASSUME NEW t \in Threads, Save(t) PROVE disk'[d].ver >= disk[d].ver
    <3>1. disk'[d] = IF target[t] = d THEN snap[t] ELSE disk[d]
      BY <2>1, <2>4 DEF Save, TypeOK
    <3>2. target[t] = d => Older(disk[d], snap[t])
      BY <2>1, <2>4 DEF Save, Ordered
    <3>3. snap[t].ver \in Nat
      BY <2>1, ContentFacts DEF TypeOK
    <3> QED
      BY <2>2, <3>1, <3>2, <3>3 DEF Older
  <2> QED
    BY <2>3, <2>4, OnlySaveWrites
<1> QED
  BY <1>1, Invariance, PTL DEF Spec, FilesNeverGoBack

-----------------------------------------------------------------------------
(* Refinement                                                              *)

LEMMA StoreInit == Init => Store!Init
<1> SUFFICES ASSUME Init PROVE Store!Init
  OBVIOUS
<1>1. phase = "stopped" /\ mem = disk /\ failed = [d \in Dbs |-> FALSE] /\ ~Up
  BY DEF Init, Up
<1>2. PICK absent \in SUBSET Dbs :
         disk = [d \in Dbs |-> [ver |-> 0, text |-> IF d \in absent THEN "empty" ELSE "keys"]]
  BY DEF Init
<1>3. ASSUME NEW d \in Dbs PROVE disk[d].ver = 0
  <2>1. \E x : disk[d] = [ver |-> 0, text |-> x]
    BY <1>2
  <2> QED
    BY <2>1
<1> QED
  BY <1>1, <1>3 DEF Store!Init, StoreStatus, Versions

LEMMA StoreStep == IInv /\ IInv' /\ Persistent /\ [Next]_vars => [Store!Next]_(Store!vars)
<1> SUFFICES ASSUME IInv, IInv', Persistent, [Next]_vars PROVE [Store!Next]_(Store!vars)
  OBVIOUS
<1> USE DEF procVars, dataVars, timerVars, mainVars, flushVars
<1>t. TypeOK /\ TypeOK' /\ Ordered /\ Persistent'
  BY DEF IInv, Persistent
<1>1. ASSUME UNCHANGED <<mem, disk, failed>>, phase' = phase \/ (Up /\ Up') PROVE UNCHANGED Store!vars
  BY <1>1 DEF Store!vars, StoreStatus, Versions, Up
<1>2. CASE Start
  <2>1. /\ ~Up /\ Up' /\ mem' = disk /\ disk' = disk /\ failed' = [d \in Dbs |-> FALSE]
    BY <1>2 DEF Start, FreshProcess, Up, Persistent
  <2>2. Store!Open
    BY <2>1 DEF Store!Open, StoreStatus, Versions
  <2> QED
    BY <2>2 DEF Store!Next
<1>3. CASE Crash \/ \E t \in Threads : Abort(t)
  <2>1. Up /\ ~Up' /\ phase' # "stopped" /\ UNCHANGED <<mem, disk, failed>>
    BY <1>3 DEF Crash, Abort, Up
  <2>2. Store!Die
    BY <2>1 DEF Store!Die, StoreStatus, Versions
  <2> QED
    BY <2>2 DEF Store!Next
<1>4. CASE Stop
  <2>1. Up /\ ~Up' /\ phase' = "stopped" /\ UNCHANGED <<mem, disk, failed>>
    BY <1>4 DEF Stop, Up
  <2>2. \A d \in Dbs : mem[d] = disk[d] \/ failed[d]
    BY <1>t, <2>1 DEF IInv, CleanExit
  <2>3. Store!Close
    BY <2>1, <2>2 DEF Store!Close, StoreStatus, Versions
  <2> QED
    BY <2>3 DEF Store!Next
<1>5. ASSUME NEW t \in Threads, Save(t) PROVE [Store!Next]_(Store!vars)
  <2> DEFINE d == target[t]
  <2>1. /\ disk' = [disk EXCEPT ![d] = snap[t]] /\ UNCHANGED <<mem, failed, phase>> /\ Up /\ Up'
        /\ Older(disk[d], snap[t]) /\ Older(snap[t], mem[d]) /\ d \in Dbs
    BY <1>t, <1>5 DEF Save, Ordered, Up, TypeOK
  <2>2. disk[d].ver \in Nat /\ snap[t].ver \in Nat /\ mem[d].ver \in Nat
    BY <1>t, <2>1, ContentFacts DEF TypeOK
  <2>3. CASE snap[t].ver = disk[d].ver
    <3>1. snap[t] = disk[d]
      BY <2>1, <2>3 DEF Older, Persistent
    <3>2. disk' = disk
      BY <1>t, <2>1, <3>1 DEF TypeOK
    <3> QED
      BY <1>1, <2>1, <3>2
  <2>4. CASE snap[t].ver # disk[d].ver
    <3>1. snap[t].ver \in (disk[d].ver + 1)..mem[d].ver
      BY <2>1, <2>2, <2>4 DEF Older
    <3>2. Versions(disk)' = [Versions(disk) EXCEPT ![d] = snap[t].ver]
      BY <1>t, <2>1 DEF TypeOK, Versions
    <3>3. Versions(disk)[d] = disk[d].ver /\ Versions(mem)[d] = mem[d].ver
      BY <2>1 DEF Versions
    <3>4. Versions(mem)' = Versions(mem) /\ StoreStatus = "open" /\ StoreStatus' = "open"
      BY <2>1 DEF Versions, StoreStatus
    <3>5. Store!Persist(d)
      BY <2>1, <3>1, <3>2, <3>3, <3>4 DEF Store!Persist
    <3> QED
      <4>1. d \in Dbs
        BY <2>1
      <4> HIDE DEF d
      <4> QED
        BY <3>5, <4>1, Zenon DEF Store!Next
  <2> QED
    BY <2>3, <2>4
<1>6. ASSUME NEW t \in Threads, SaveFails(t) PROVE [Store!Next]_(Store!vars)
  <2> DEFINE d == target[t]
  <2>1. /\ failed' = [failed EXCEPT ![d] = failed[d] \/ snap[t] = mem[d]]
        /\ UNCHANGED <<mem, disk, phase>> /\ Up /\ Up' /\ d \in Dbs
    BY <1>t, <1>6 DEF SaveFails, Up, TypeOK
  <2>2. CASE failed' = failed
    BY <1>1, <2>1, <2>2
  <2>3. CASE failed' # failed
    <3>1. failed' = [failed EXCEPT ![d] = TRUE]
      <4>1. CASE failed[d] \/ snap[t] = mem[d]
        BY <2>1, <4>1
      <4>2. CASE ~(failed[d] \/ snap[t] = mem[d])
        BY <1>t, <2>1, <2>3, <4>2 DEF TypeOK
      <4> QED
        BY <4>1, <4>2
    <3>2. Store!GiveUp(d)
      BY <2>1, <3>1 DEF Store!GiveUp, StoreStatus, Versions
    <3> QED
      BY <2>1, <3>2 DEF Store!Next
  <2> QED
    BY <2>2, <2>3
<1>7. ASSUME NEW texts, NewContent(cur, texts), Up, UNCHANGED <<phase, disk>> PROVE [Store!Next]_(Store!vars)
  <2>1. /\ cur \in Dbs /\ mem'[cur].ver = mem[cur].ver + 1 /\ \A d \in Dbs : d # cur => mem'[d] = mem[d]
        /\ failed' = [failed EXCEPT ![cur] = FALSE] /\ Up'
    BY <1>t, <1>7 DEF NewContent, TypeOK, Up
  <2>2. Versions(mem)' = [Versions(mem) EXCEPT ![cur] = Versions(mem)[cur] + 1]
    BY <2>1 DEF Versions
  <2>4. Versions(disk)' = Versions(disk) /\ StoreStatus = "open" /\ StoreStatus' = "open"
    BY <1>7, <2>1 DEF Versions, StoreStatus
  <2>3. Store!Change(cur)
    BY <2>1, <2>2, <2>4 DEF Store!Change
  <2>5. cur \in Dbs
    BY <2>1
  <2> QED
    BY <2>3, <2>5, Zenon DEF Store!Next
<1>8. CASE Insert \/ Clear \/ RemoveKey
  BY <1>7, <1>8 DEF Insert, Clear, RemoveKey
<1>9. CASE BeginExit \/ ForceNext \/ AcquireDb \/ AcquireParentDb \/ UnlinkDb \/ PostFlush
           \/ RemoveFromHash \/ FlushInline \/ SignalFlushTimer \/ NoSignal \/ UNCHANGED vars
  BY <1>1, <1>9 DEF BeginExit, ForceNext, AcquireDb, AcquireParentDb, AcquireWriteLock, UnlinkDb,
     PostFlush, RemoveFromHash, FlushInline, SignalFlushTimer, NoSignal, vars, Up
<1>10. ASSUME NEW t \in Threads, BeginRead(t) \/ EndRead(t) PROVE UNCHANGED Store!vars
  BY <1>1, <1>10 DEF BeginRead, EndRead
<1>11. ASSUME NEW d \in Dbs, FireTimer(d) \/ StartFlushTimer(d) \/ DispatchFlush(d) \/ ForcePendingFlush(d)
               \/ CreateChildDb(d) \/ SetOrMerge(d) \/ RmKey(d) \/ RmDb(d)
       PROVE  UNCHANGED Store!vars
  BY <1>1, <1>11 DEF FireTimer, StartFlushTimer, DispatchFlush, ForcePendingFlush, CreateChildDb,
     SetOrMerge, RmKey, RmDb, Begin
<1> QED
  BY <1>2, <1>3, <1>4, <1>5, <1>6, <1>8, <1>9, <1>10, <1>11
     DEF Next, Request, MainStep, FlushStep, DispatchStep

(***************************************************************************)
(* The timers, locks, posted events and threads of simplejsondb.cpp        *)
(* implement the store that follows every change at its own pace, provided *)
(* the databases are to be saved at all.                                   *)
(***************************************************************************)
THEOREM Implementation == Persistent => (Spec => ImplementsStore)
<1> SUFFICES ASSUME Persistent PROVE Spec => ImplementsStore
  OBVIOUS
<1>1. Init => Store!Init
  BY StoreInit
<1>2. IInv /\ IInv' /\ [Next]_vars => [Store!Next]_(Store!vars)
  BY StoreStep
<1> QED
  BY <1>1, <1>2, Invariance, PTL DEF Spec, ImplementsStore, Store!Spec
=============================================================================
