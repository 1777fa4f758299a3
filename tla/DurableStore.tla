----------------------------- MODULE DurableStore -----------------------------
(***************************************************************************)
(* What a set of databases with delayed saves promises, whatever threads,  *)
(* timers and locks it is made of.  A database has a current version and a *)
(* durable one.  The durable one follows the current one at its own pace   *)
(* and never goes back; a crash loses at most what lies between the two; a *)
(* close loses nothing but what a failed save has given up.                *)
(***************************************************************************)
EXTENDS Integers

CONSTANT Dbs

VARIABLES
    status,   \* "open", "closed", or "dead" after a crash
    current,  \* version in use, by database
    durable,  \* version that the next Open will find
    givenUp   \* has a save of the current version failed?

vars == <<status, current, durable, givenUp>>

Init ==
    /\ status = "closed"
    /\ current = [d \in Dbs |-> 0]
    /\ durable = current
    /\ givenUp = [d \in Dbs |-> FALSE]

\* Whatever was not durable is gone.
Open ==
    /\ status # "open" /\ status' = "open"
    /\ current' = durable
    /\ givenUp' = [d \in Dbs |-> FALSE]
    /\ UNCHANGED durable

Change(d) ==
    /\ status = "open"
    /\ current' = [current EXCEPT ![d] = @ + 1]
    /\ givenUp' = [givenUp EXCEPT ![d] = FALSE]
    /\ UNCHANGED <<status, durable>>

Persist(d) ==
    /\ status = "open"
    /\ \E v \in (durable[d] + 1)..current[d] : durable' = [durable EXCEPT ![d] = v]
    /\ UNCHANGED <<status, current, givenUp>>

GiveUp(d) ==
    /\ status = "open"
    /\ givenUp' = [givenUp EXCEPT ![d] = TRUE]
    /\ UNCHANGED <<status, current, durable>>

Close ==
    /\ status = "open" /\ status' = "closed"
    /\ \A d \in Dbs : durable[d] = current[d] \/ givenUp[d]
    /\ UNCHANGED <<current, durable, givenUp>>

Die ==
    /\ status = "open" /\ status' = "dead"
    /\ UNCHANGED <<current, durable, givenUp>>

Next ==
    \/ Open \/ Close \/ Die
    \/ \E d \in Dbs : Change(d) \/ Persist(d) \/ GiveUp(d)

Spec == Init /\ [][Next]_vars
=============================================================================
