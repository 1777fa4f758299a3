------------------------------- MODULE DBTree -------------------------------
(***************************************************************************)
(* The tree of qtdbd and the databases it is cut into (src/dbtree.cpp,     *)
(* with readFromDisk and jsonString of src/simplejsondb.cpp).              *)
(*                                                                         *)
(* The whole tree hangs from the object of the main database.  An object   *)
(* at vm/<name> or dom-store/<name> is meant to be that of a database of   *)
(* its own, found by name in a hash and saved in a file of its own: the    *)
(* hash, the tree and the files must agree, and they are updated by walks  *)
(* over the tree that treat the three on their own.                        *)
(*                                                                         *)
(* A database is named by the path of its object, the main one by <<>>.  A *)
(* request is one step here, with the save that may come in the middle of  *)
(* it, and so is a save between requests; SimpleJsonDB has the threads,    *)
(* timers and locks.                                                       *)
(***************************************************************************)
EXTENDS Trees

CONSTANTS
    Values,      \* the values that are written
    Broken,      \* the malformed contents a file may be damaged to
    WritePaths,  \* the paths that are written
    RmPaths,     \* the paths that are removed
    Injections,  \* the injections: a path and a tree
    MaxElements  \* the elements an array may have (a bound)

ASSUME ValuesAssumption == \A v \in Values : IsValue(v) /\ v # Object
ASSUME PathsAssumption ==
    /\ \A p \in WritePaths \cup RmPaths : p \in Paths /\ DbOf(p) \in AllDbs
    /\ \A i \in Injections :
         /\ i.path \in Paths /\ DbOf(i.path) \in AllDbs
         /\ IsObject(i.value)

VARIABLES
    up,        \* is the process running?
    tree,      \* dbRoot: Object or a value, by path
    dbs,       \* vmsDbs and domstoreDbs
    attached,  \* those whose object is the one in the tree
    own,       \* the tree below the object of a database
    dirty,     \* the databases a flush is queued for
    files,     \* the tree in the file of a database
    bad,       \* its .bad file
    damaged    \* history: the malformed contents a file has had

memVars == <<tree, dbs, attached, own, dirty>>
diskVars == <<files, bad, damaged>>
vars == <<up, memVars, diskVars>>

-----------------------------------------------------------------------------
\* The database that is changed when an object is inserted at q.
Holder(q) == DbOf(Front(q))

-----------------------------------------------------------------------------
(* Files                                                                   *)

\* What flush() writes: the object of a database, in the tree or not.
Text(d) == IF d = Main THEN MainPart(tree) ELSE own[d]

\* readFromDisk() takes a malformed file for an empty object.
Stored(d) == IF d \notin Lasting THEN NoFile
             ELSE IF files[d] \in Broken THEN EmptyObject
             ELSE files[d]

\* loadChildren()
Loaded == {d \in DbPaths : Stored(d) # NoFile}

\* Mutant: the malformed file stays where it is.
MovedAwayNever == {}

(***************************************************************************)
(* A malformed file is moved away, which QFile::rename refuses if there is *)
(* a .bad file already.                                                    *)
(***************************************************************************)
MovedAway == {d \in {Main} \cup Loaded : files[d] \in Broken /\ bad[d] = NoFile}

Nothing ==
    /\ dbs' = {} /\ attached' = {} /\ dirty' = {}
    /\ tree' = EmptyObject
    /\ own' = [d \in DbPaths |-> EmptyObject]

\* loadTree()
Start ==
    /\ ~up /\ up' = TRUE
    /\ tree' = TreeOf([d \in AllDbs |-> Stored(d)])
    /\ dbs' = Loaded /\ attached' = Loaded /\ dirty' = {}
    /\ own' = [d \in DbPaths |-> Content(Stored(d))]
    /\ files' = [d \in AllDbs |-> IF d \in MovedAway THEN NoFile ELSE files[d]]
    /\ bad' = [d \in AllDbs |-> IF d \in MovedAway THEN files[d] ELSE bad[d]]
    /\ UNCHANGED damaged

\* exitCleanup() has seen to every queued flush.
Stop == up /\ dirty = {} /\ up' = FALSE /\ Nothing /\ UNCHANGED diskVars

Crash == up /\ up' = FALSE /\ Nothing /\ UNCHANGED diskVars

\* A file is damaged while the process is down.
Damage(d) ==
    /\ ~up /\ files[d] # NoFile
    /\ \E b \in Broken \ damaged :
         /\ files' = [files EXCEPT ![d] = b]
         /\ damaged' = damaged \cup {b}
    /\ UNCHANGED <<up, memVars, bad>>

\* A queued flush.
Save(d) ==
    /\ up /\ d \in dirty
    /\ files' = [files EXCEPT ![d] = FileOf(Text(d))]
    /\ dirty' = dirty \ {d}
    /\ UNCHANGED <<up, tree, dbs, attached, own, bad, damaged>>

-----------------------------------------------------------------------------
(* Requests                                                                *)

\* Mutant: a database that exists is created again.
NewDbAnyhow(p) == {DbOf(p)} \ {Main}

\* lookupDb(path, true): the database of p if it has to be created.
NewDb(p) == {DbOf(p)} \ ({Main} \cup dbs)

(***************************************************************************)
(* createChildDb() with createEmpty, for what NewDb returns: the new       *)
(* object replaces whatever is at its path, unless its parent is a value.  *)
(***************************************************************************)
WithDb(new) ==
    IF new = {} THEN tree
    ELSE LET d == CHOOSE d \in new : TRUE
             top == <<d[1]>> IN
         IF Blocked(tree, top) THEN tree
         ELSE Put(WithObjects(tree, Missing(tree, top)), d, EmptyObject)

\* The object of a database changes with the tree for as long as it is in it.
SyncOwn ==
    own' = [d \in DbPaths |-> IF d \in attached' THEN At(tree', d)
                              ELSE IF d \in dbs \cap dbs' THEN own[d] ELSE EmptyObject]

\* A walk that meets a value where it needs an object gives up.
GiveUp(t, new) ==
    /\ tree' = t
    /\ attached' = attached \cup {d \in new : d \in DOMAIN t}
    /\ UNCHANGED <<dirty, files>>

(***************************************************************************)
(* Each object on the way to p is inserted, and a flush for it queued, on  *)
(* its own: the flush thread may save what there is in between.  (Of the   *)
(* databases only that of p changes on the way.)                           *)
(***************************************************************************)
SavedOnTheWay(t, p) ==
    LET d == DbOf(p) IN
    \/ UNCHANGED files
    \/ \E made \in Begun(t, p) :
         /\ d \in dirty \cup {Holder(q) : q \in made}
         /\ d \in {Main} \cup attached'
         /\ files' = [files EXCEPT ![d] = FileOf(Part(WithObjects(t, made), d))]

\* The value at p is emptied before it is taken out of its object.
SavedEmptied(p) ==
    LET d == DbOf(p) IN
    \/ UNCHANGED files
    \/ /\ d \in dirty /\ d \in {Main} \cup attached
       /\ files' = [files EXCEPT ![d] = FileOf(Part(Emptied(tree, p), d))]

SetValue(p, v) ==
    LET new == NewDb(p)
        t == WithDb(new)
        parents == Missing(t, Front(p)) IN
    /\ up
    /\ dbs' = dbs \cup new
    /\ IF Blocked(t, Front(p)) THEN GiveUp(t, new)
       ELSE /\ tree' = Put(WithObjects(t, parents), p, Leaf(v))
            /\ attached' = {d \in attached \cup new : ~IsPrefix(p, d)}
            /\ dirty' = dirty \cup {Holder(q) : q \in parents} \cup {Holder(p)}
            /\ SavedOnTheWay(t, Front(p))
    /\ SyncOwn
    /\ UNCHANGED <<up, bad, damaged>>

\* Mutant: the walk stops one short.
MergeSavesParent(t, p) == {Holder(q) : q \in Missing(t, p) \cup {p}}

\* mergeValue() queues a flush for each object it inserts and for the last it
\* has walked to.
MergeSaves(t, p) == {Holder(q) : q \in Missing(t, p)} \cup {DbOf(p)}

\* mergeValue().  (Of a value that is no object it unites nothing, as of {}, or
\* the process dies: Crash.)
MergeValue(p, sub) ==
    LET new == NewDb(p)
        t == WithDb(new) IN
    /\ up
    /\ dbs' = dbs \cup new
    /\ IF Blocked(t, p) THEN GiveUp(t, new)
       ELSE /\ tree' = Unite(WithObjects(t, Missing(t, p)), p, sub)
            /\ \A q \in DOMAIN tree' : IsArray(tree'[q]) => Len(tree'[q]) <= MaxElements + 1
            /\ attached' = {d \in attached \cup new : ~Replaced(p, sub, d)}
            /\ dirty' = dirty \cup MergeSaves(t, p)
            /\ SavedOnTheWay(t, p)
    /\ SyncOwn
    /\ UNCHANGED <<up, bad, damaged>>

\* What the object of a database holds once it is out of the tree.
Left(p) == IF p \in attached THEN EmptyObject ELSE own[p]

\* Mutant: the queued flush outlives the database.
DropStillQueued(p) ==
    /\ files' = [files EXCEPT ![p] = FileOf(Left(p))]
    /\ dbs' = dbs \ {p}
    /\ UNCHANGED dirty

\* Mutant: the database stays in the hash.
DropStillInHash(p) ==
    /\ files' = [files EXCEPT ![p] = FileOf(Left(p))]
    /\ dirty' = dirty \ {p}
    /\ UNCHANGED dbs

\* Mutant: the file is left.
DropWithoutFlush(p) == dbs' = dbs \ {p} /\ dirty' = dirty \ {p} /\ UNCHANGED files

\* A whole database is saved at once, as it then is, and leaves the hash.
DropDb(p) ==
    /\ files' = [files EXCEPT ![p] = FileOf(Left(p))]
    /\ dbs' = dbs \ {p}
    /\ dirty' = dirty \ {p}

(***************************************************************************)
(* The object at p is emptied and taken out of the tree.  A key its object *)
(* does not have is taken out of it too, to no effect, if the process      *)
(* survives the look at what value() returns for it (Crash if not).        *)
(***************************************************************************)
RmValue(p) ==
    /\ up
    /\ DbOf(p) \in {Main} \cup dbs
    /\ Front(p) \in DOMAIN tree /\ tree[Front(p)] = Object
    /\ tree' = Cut(tree, p)
    /\ attached' = {d \in attached : ~IsPrefix(p, d)}
    /\ IF p \in DbPaths
       THEN DropDb(p)
       ELSE dirty' = dirty \cup {DbOf(p)} /\ SavedEmptied(p) /\ UNCHANGED dbs
    /\ SyncOwn
    /\ UNCHANGED <<up, bad, damaged>>

-----------------------------------------------------------------------------
Init ==
    /\ up = FALSE
    /\ tree = EmptyObject
    /\ dbs = {} /\ attached = {} /\ dirty = {}
    /\ own = [d \in DbPaths |-> EmptyObject]
    /\ files = [d \in AllDbs |-> NoFile]
    /\ bad = [d \in AllDbs |-> NoFile]
    /\ damaged = {}

Next ==
    \/ Start \/ Stop \/ Crash
    \/ \E d \in AllDbs : Damage(d) \/ Save(d)
    \/ \E p \in WritePaths, v \in Values : SetValue(p, v)
    \/ \E i \in Injections : MergeValue(i.path, i.value)
    \/ \E p \in RmPaths : RmValue(p)

Spec == Init /\ [][Next]_vars

-----------------------------------------------------------------------------
(* What the tree promises.                                                 *)

\* The walks keep the tree a tree, and so are the databases and their files.
TypeOK ==
    /\ up \in BOOLEAN
    /\ IsObject(tree)
    /\ dbs \subseteq DbPaths /\ attached \subseteq dbs
    /\ dirty \subseteq {Main} \cup dbs
    /\ DOMAIN own = DbPaths /\ \A d \in DbPaths : IsObject(own[d])
    /\ DOMAIN files = AllDbs /\ DOMAIN bad = AllDbs
    /\ \A d \in AllDbs : files[d] \in Broken \cup {NoFile} \/ IsObject(files[d])
    /\ \A d \in AllDbs : bad[d] \in Broken \cup {NoFile}
    /\ damaged \subseteq Broken

(***************************************************************************)
(* Once no flush is queued for a database its file holds what dump() shows *)
(* of it, so that a restart changes nothing, and a database that is not in *)
(* the tree has no file (testdbd.cpp:625, "QCOMPARE(filestr, dumpstr)").   *)
(***************************************************************************)
SavedIsShown ==
    up => \A d \in Lasting \ dirty : Content(Stored(d)) = Part(tree, d)

(***************************************************************************)
(* The hashes and the tree agree: lookupDb finds a database exactly where  *)
(* the tree has an object at its path, and it is the same object.          *)
(***************************************************************************)
HashIsTree ==
    up => /\ attached = dbs
          /\ \A d \in DbPaths : d \in dbs <=> d \in DOMAIN tree

(***************************************************************************)
(* A database that is removed is gone for good, even if the process dies   *)
(* at once: rmValue saves it before it returns (testdbd.cpp:826,           *)
(* "QCOMPARE(QFile::exists(dbFilePath), false)").                          *)
(***************************************************************************)
RemovedIsGone ==
    up => \A d \in DbPaths \cap Lasting : d \notin DOMAIN tree => files[d] = NoFile

KeepsToPath(p) ==
    \A q \in DOMAIN tree : IsPrefix(p, q) \/ (q \in DOMAIN tree' /\ tree'[q] = tree[q])

(***************************************************************************)
(* A request changes nothing but what is at its path, whatever it has to   *)
(* create on the way there.                                                *)
(***************************************************************************)
RequestsKeepToPath ==
    [][/\ \A p \in WritePaths, v \in Values : SetValue(p, v) => KeepsToPath(p)
       /\ \A i \in Injections : MergeValue(i.path, i.value) => KeepsToPath(i.path)
       /\ \A p \in RmPaths : RmValue(p) => KeepsToPath(p)]_vars

(***************************************************************************)
(* A malformed file is kept "for later review" (simplejsondb.cpp:140).     *)
(***************************************************************************)
BadFilesAreKept ==
    \A b \in damaged : \E d \in AllDbs : files[d] = b \/ bad[d] = b

Store == INSTANCE TreeStore WITH
             shown <- tree,
             saved <- [d \in AllDbs |-> Stored(d)]

(***************************************************************************)
(* Hashes, objects, walks and files make one map from paths to values, of  *)
(* which each database is saved on its own: a request does to the map what *)
(* it says, a save is of what the map then shows, and a start shows what   *)
(* was saved.                                                              *)
(***************************************************************************)
ImplementsTreeStore == Store!Spec
=============================================================================
