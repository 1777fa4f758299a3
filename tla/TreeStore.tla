------------------------------ MODULE TreeStore ------------------------------
(***************************************************************************)
(* What dbd promises about its tree: one map from paths to values, part of *)
(* which is saved.  Requests change what is shown and nothing else; each   *)
(* database is saved on its own, as it is at some time after, be it in the *)
(* middle of another request; and what is shown after a start is what was  *)
(* saved.  Nothing is said of hashes, objects, timers or processes, nor of *)
(* when a save is due.                                                     *)
(***************************************************************************)
EXTENDS Trees

CONSTANTS
    Values,      \* the values that are written
    WritePaths,  \* the paths that are written
    RmPaths,     \* the paths that are removed
    Injections   \* the injections: a path and a tree

VARIABLES
    up,    \* is the store open?
    shown, \* the tree
    saved  \* what is saved of each database, NoFile if nothing is

storeVars == <<up, shown, saved>>

Init ==
    /\ up = FALSE
    /\ shown = EmptyObject
    /\ saved = [d \in AllDbs |-> NoFile]

\* An empty object that was saved need not be kept.
Open ==
    /\ ~up /\ up' = TRUE
    /\ shown' = TreeOf(saved)
    /\ \E forgotten \in SUBSET {d \in AllDbs : saved[d] = EmptyObject} :
         saved' = [d \in AllDbs |-> IF d \in forgotten THEN NoFile ELSE saved[d]]

\* What is shown is lost, but for what is saved of it.
Close == up /\ up' = FALSE /\ shown' = EmptyObject /\ UNCHANGED saved

\* What was saved of a database is found malformed.
Lose(d) ==
    /\ ~up /\ saved[d] # NoFile
    /\ saved' = [saved EXCEPT ![d] = EmptyObject]
    /\ UNCHANGED <<up, shown>>

Save(d) ==
    /\ up
    /\ saved' = [saved EXCEPT ![d] = FileOf(Part(shown, d))]
    /\ UNCHANGED <<up, shown>>

\* A save may come while a request is under way, and is of what there is then.
SavedMidway(d, trees) ==
    \/ UNCHANGED saved
    \/ \E t \in trees : saved' = [saved EXCEPT ![d] = FileOf(Part(t, d))]

Write(p, v) ==
    /\ up /\ UNCHANGED up
    /\ shown' = Written(shown, p, v)
    /\ SavedMidway(DbOf(Front(p)), OnTheWay(shown, Front(p)))

Inject(p, sub) ==
    /\ up /\ UNCHANGED up
    /\ shown' = Merged(shown, p, sub)
    /\ SavedMidway(DbOf(p), OnTheWay(shown, p))

\* Of a whole database nothing stays saved.
Rm(p) ==
    /\ up /\ UNCHANGED up
    /\ shown' = Cut(shown, p)
    /\ IF p \in DbPaths
       THEN saved' = [d \in AllDbs |-> IF d = p /\ p \in DOMAIN shown THEN NoFile ELSE saved[d]]
       ELSE SavedMidway(DbOf(p), {Emptied(shown, p)})

Next ==
    \/ Open \/ Close
    \/ \E d \in Lasting : Lose(d)
    \/ \E d \in AllDbs : Save(d)
    \/ \E p \in WritePaths, v \in Values : Write(p, v)
    \/ \E i \in Injections : Inject(i.path, i.value)
    \/ \E p \in RmPaths : Rm(p)

\* (Steps that change nothing are told apart first: most of a run's are such.)
Spec == Init /\ [][storeVars' # storeVars /\ Next]_storeVars
=============================================================================
