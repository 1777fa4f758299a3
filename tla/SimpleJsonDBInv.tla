--------------------------- MODULE SimpleJsonDBInv ---------------------------
(***************************************************************************)
(* The inductive invariant of SimpleJsonDB: what holds in every state and  *)
(* is strong enough to be kept by each step.  TLC checks it on the small   *)
(* instances, SimpleJsonDBProofs proves it for all.                        *)
(***************************************************************************)
EXTENDS SimpleJsonDB

Busy(t) == stage[t] # "idle"
Blocking == IF op = "drop" THEN "flush" ELSE "force"

\* Which operation the main thread can be in at which point.
MainShape ==
    Up =>
        /\ MainDb \in dbs
        /\ phase = "serving" => op # "force"
        /\ phase = "exiting" => op = "force" /\ pc \in {"idle", "blocked"} /\ toForce \subseteq dbs
        /\ pc \in {"want2", "hold2"} => op \in {"rm", "drop"}
        /\ pc \in {"post", "unhash"} => op = "drop"
        /\ pc \in {"queue", "inline"} => op \in {"set", "rm"}
        /\ pc = "blocked" => op \in {"drop", "force"}
        /\ pc = "inline" => MaxFlushDelay = 0
        /\ (pc # "idle" /\ op = "drop") => cur # MainDb
        /\ (pc # "idle" /\ op # "force") => cur \in dbs

\* Who may be inside flush().
JobShape ==
    Up =>
        /\ Busy("main") <=> pc = "inline"
        /\ Busy("main") => target["main"] = cur /\ ~Busy("flush")
        /\ \A t \in Threads : stage[t] = "saving" => ~Skips(target[t])
        /\ wakes => Busy("flush") /\ pc = "blocked" /\ target["flush"] = cur

(***************************************************************************)
(* The posted events are in order: a blocking one is the last, for the     *)
(* main thread posts nothing while it waits for it.                        *)
(***************************************************************************)
EventShape ==
    Up =>
        /\ \A i \in 1..Len(events) :
              events[i].kind # "start" => i = Len(events) /\ pc = "blocked"
        /\ pc = "blocked" =>
              \/ /\ events # <<>>
                 /\ events[Len(events)] = [kind |-> Blocking, db |-> cur]
                 /\ ~wakes
              \/ /\ events = <<>>
                 /\ wakes
                 /\ Skips(cur) \/ flushTimer[cur] = "inactive"

\* Without a positive delay no timer runs: the flush thread works on demand.
NoTimers ==
    (Up /\ MaxFlushDelay =< 0) =>
        /\ \A d \in Dbs : flushTimer[d] = "inactive"
        /\ \A i \in 1..Len(events) : events[i].kind # "start"
        /\ Busy("flush") => wakes

\* x is an earlier content of a database that now has content y, or is y.
Older(x, y) == x.ver =< y.ver /\ (x.ver = y.ver /\ ~InMemory => x = y)

\* The file, a text in flight and the memory are three stages of one history.
Ordered ==
    Up => \A d \in Dbs :
        /\ Older(disk[d], mem[d])
        /\ \A t \in Threads : (stage[t] = "saving" /\ target[t] = d) =>
              Older(disk[d], snap[t]) /\ Older(snap[t], mem[d])

\* The flush thread has yet to take the lock of d, or to release it.
BeforeRelease(d) ==
    \/ flushTimer[d] = "active"
    \/ target["flush"] = d /\ stage["flush"] \in {"want", "reading"}

(***************************************************************************)
(* Why a stale isActive() does no harm: the timer was active since the     *)
(* flush thread last released the lock, so it has still to serialise, and  *)
(* it cannot before the main thread has released the lock.                 *)
(***************************************************************************)
StaleTimer ==
    Up => /\ \A d \in Dbs : (~Skips(d) /\ "active" \in since[d]) => BeforeRelease(d)
          /\ ((pc = "hold" \/ (pc = "hold2" /\ op = "rm")) /\ ~Skips(cur) /\ "active" \in visible)
                => BeforeRelease(cur)

Safe(d) == mem[d] = disk[d] \/ failed[d] \/ WillSerialise(d) \/ InFlight(d)

StaleTimerAtQueue ==
    (Up /\ Persistent /\ pc = "queue" /\ "active" \in visible) => Safe(cur)

\* What a removed database is, from the moment its object is cleared.
Removed ==
    Up => /\ \A d \in Dbs \ dbs :
                /\ Quiet(d) /\ IsEmpty(mem[d])
                /\ cur = d => pc = "idle"
          /\ (op = "drop" /\ pc \in {"want2", "hold2", "post", "blocked", "unhash"})
                => IsEmpty(mem[cur])
          /\ pc = "unhash" => Quiet(cur)

\* exitCleanup works through the databases, and none it has left comes back.
Forced ==
    (phase = "exiting" /\ Persistent) =>
        \A d \in dbs \ toForce : ~(pc = "blocked" /\ cur = d) => Quiet(d)

IInv ==
    /\ TypeOK /\ MainShape /\ JobShape /\ EventShape /\ NoTimers /\ OneHolder
    /\ Ordered /\ StaleTimer /\ StaleTimerAtQueue /\ NoLostUpdate
    /\ Removed /\ Forced /\ CleanExit
=============================================================================
