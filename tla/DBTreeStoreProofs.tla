--------------------------- MODULE DBTreeStoreProofs ---------------------------
(***************************************************************************)
(* That DBTree implements TreeStore: for any keys, names, usual requests   *)
(* and malformed contents, hashes, objects, walks and files make one map   *)
(* from paths to values, of which each database is saved on its own.       *)
(*                                                                         *)
(* A step of DBTree is the step of TreeStore of the same name (SetValue is *)
(* Write, MergeValue Inject, RmValue Rm, Start Open, Stop and Crash Close, *)
(* Damage Lose), or leaves what is shown and saved as it is: a save of a   *)
(* database that is never loaded.                                          *)
(***************************************************************************)
EXTENDS DBTreeProofs

Stutters == UNCHANGED Store!storeVars
StoreStep == Store!Next \/ Stutters

-----------------------------------------------------------------------------
(* TreeStore takes the same databases as DBTree, so that what Trees        *)
(* defines is the same in both.                                            *)

LEMMA SameNames ==
  /\ Store!Object = Object /\ Store!EmptyObject = EmptyObject
  /\ Store!Main = Main /\ Store!DbPaths = DbPaths
  BY DEF Store!Object, Object, Store!EmptyObject, EmptyObject, Store!Main, Main,
         Store!DbPaths, DbPaths

LEMMA SameDbs == Store!AllDbs = AllDbs
  BY SameNames DEF Store!AllDbs, AllDbs

LEMMA SameLasting == Store!Lasting = Lasting
  BY SameNames, SameDbs DEF Store!Lasting, Lasting

LEMMA SameContent ==
  ASSUME NEW f
  PROVE  Store!FileOf(f) = FileOf(f) /\ Store!Content(f) = Content(f)
  BY SameNames DEF Store!FileOf, FileOf, Store!Content, Content

LEMMA SamePaths ==
  ASSUME NEW p, NEW q
  PROVE  (Store!IsPrefix(p, q) <=> IsPrefix(p, q)) /\ Store!Front(p) = Front(p)
  BY DEF Store!IsPrefix, IsPrefix, Store!Front, Front

LEMMA SameBelow ==
  ASSUME NEW t, NEW p
  PROVE  Store!Rest(t, p) = Rest(t, p) /\ Store!Below(t, p) = Below(t, p)
  BY DEF Store!Rest, Rest, Store!Below, Below, Store!IsPrefix, IsPrefix

LEMMA SameAt ==
  ASSUME NEW t, NEW p
  PROVE  Store!At(t, p) = At(t, p) /\ Store!Cut(t, p) = Cut(t, p)
  BY SameBelow DEF Store!At, At, Store!Cut, Cut

LEMMA SameMainPart ==
  ASSUME NEW t
  PROVE  Store!MainPart(t) = MainPart(t)
  BY DEF Store!MainPart, MainPart

LEMMA SamePart ==
  ASSUME NEW t, NEW d
  PROVE  Store!Part(t, d) = Part(t, d)
  BY SameNames, SameAt, SameMainPart DEF Store!Part, Part

LEMMA SameDbOf ==
  ASSUME NEW p
  PROVE  Store!DbOf(p) = DbOf(p)
  BY SameNames DEF Store!DbOf, DbOf

LEMMA SameTreeOf ==
  ASSUME NEW f
  PROVE  Store!TreeOf(f) = TreeOf(f)
<1> DEFINE loaded == {d \in DbPaths \cap Lasting : f[d] # NoFile}
           main == Content(f[Main])
           tops == {<<d[1]>> : d \in loaded}
           children == UNION {{d \o q : q \in DOMAIN f[d]} : d \in loaded}
<1>1. TreeOf(f) = [q \in DOMAIN main \cup tops \cup children |->
        IF q \in children THEN f[DbOf(q)][Rest(DbOf(q), q)]
        ELSE IF q \in tops THEN Object
        ELSE main[q]]
  BY DEF TreeOf
<1>2. Store!TreeOf(f) = [q \in DOMAIN main \cup tops \cup children |->
        IF q \in children THEN f[Store!DbOf(q)][Store!Rest(Store!DbOf(q), q)]
        ELSE IF q \in tops THEN Object
        ELSE main[q]]
  <2>1. Store!DbPaths = DbPaths /\ Store!Lasting = Lasting /\ Store!Main = Main
        /\ Store!Object = Object /\ Store!Content(f[Main]) = main
    BY SameNames, SameLasting, SameContent
  <2> HIDE DEF main
  <2> QED
    BY <2>1 DEF Store!TreeOf
<1>3. \A q : f[Store!DbOf(q)][Store!Rest(Store!DbOf(q), q)] = f[DbOf(q)][Rest(DbOf(q), q)]
  BY SameDbOf, SameBelow
<1> HIDE DEF loaded, main, tops, children
<1> QED
  BY <1>1, <1>2, <1>3

LEMMA SameJoined ==
  ASSUME NEW a, NEW b
  PROVE  Store!Joined(a, b) = Joined(a, b)
  BY DEF Store!Joined, Joined, Store!IsArray, IsArray, Store!Kind, Kind

LEMMA SameReplaced ==
  ASSUME NEW p, NEW s, NEW q
  PROVE  Store!Replaced(p, s, q) <=> Replaced(p, s, q)
  BY SameNames, SamePaths DEF Store!Replaced, Replaced

LEMMA SamePut ==
  ASSUME NEW t, NEW p, NEW s
  PROVE  Store!Put(t, p, s) = Put(t, p, s)
  BY SameBelow, SamePaths DEF Store!Put, Put

LEMMA SameUnite ==
  ASSUME NEW t, NEW p, NEW s
  PROVE  Store!Unite(t, p, s) = Unite(t, p, s)
  BY SameBelow, SameJoined, SameReplaced DEF Store!Unite, Unite

LEMMA SameWalk ==
  ASSUME NEW t, NEW p
  PROVE  /\ Store!Missing(t, p) = Missing(t, p) /\ Store!Blocked(t, p) = Blocked(t, p)
         /\ Store!WithObjects(t, p) = WithObjects(t, p)
  BY SameNames DEF Store!Missing, Missing, Store!PathsTo, PathsTo, Store!Blocked, Blocked,
                   Store!WithObjects, WithObjects

LEMMA SameLeaf ==
  ASSUME NEW v
  PROVE  Store!Leaf(v) = Leaf(v)
  BY DEF Store!Leaf, Leaf

LEMMA SameWritten ==
  ASSUME NEW t, NEW p, NEW s
  PROVE  Store!Written(t, p, s) = Written(t, p, s)
  BY SamePut, SameWalk, SameLeaf, SamePaths DEF Store!Written, Written

LEMMA SameMerged ==
  ASSUME NEW t, NEW p, NEW s
  PROVE  Store!Merged(t, p, s) = Merged(t, p, s)
  BY SameUnite, SameWalk DEF Store!Merged, Merged

LEMMA SameOnTheWay ==
  ASSUME NEW t, NEW p
  PROVE  Store!OnTheWay(t, p) = OnTheWay(t, p)
<1>1. Store!Begun(t, p) = Begun(t, p)
  BY SameWalk DEF Store!Begun, Begun
<1> QED
  BY <1>1, SameWalk DEF Store!OnTheWay, OnTheWay

LEMMA SameEmptied ==
  ASSUME NEW t, NEW p
  PROVE  Store!Emptied(t, p) = Emptied(t, p)
  BY SamePaths DEF Store!Emptied, Emptied

-----------------------------------------------------------------------------
(* What is saved, when files change                                        *)

Saved == [d \in AllDbs |-> Stored(d)]

LEMMA SavedSame ==
  ASSUME UNCHANGED files
  PROVE  Saved' = Saved
  BY DEF Saved, Stored

\* A file that is written is what is saved of a database that is loaded.
LEMMA SavedWith ==
  ASSUME ContentsTold, FilesInv, NEW e \in AllDbs, NEW x, IsObject(x),
         files' = [files EXCEPT ![e] = FileOf(x)]
  PROVE  \/ Saved' = [Saved EXCEPT ![e] = FileOf(x)]
         \/ Saved' = Saved /\ e \notin Lasting
<1>1. files'[e] = FileOf(x) /\ \A d \in AllDbs : d # e => files'[d] = files[d]
  BY DEF FilesInv
<1>2. \A d \in AllDbs : d # e => Stored(d)' = Stored(d)
  BY <1>1, StoredSame
<1>3. /\ e \in Lasting => Stored(e)' = FileOf(x)
      /\ e \notin Lasting => Stored(e)' = NoFile
  BY <1>1, SavedReads
<1>4. e \notin Lasting => Stored(e) = NoFile
  BY DEF Stored
<1>5. Saved' = [d \in AllDbs |-> Stored(d)']
  BY DEF Saved
<1>6. CASE e \in Lasting
  BY <1>2, <1>3, <1>5, <1>6 DEF Saved
<1>7. CASE e \notin Lasting
  BY <1>2, <1>3, <1>4, <1>5, <1>7 DEF Saved
<1> QED
  BY <1>6, <1>7

LEMMA SavesMidway ==
  ASSUME ContentsTold, FilesInv, NEW e \in AllDbs, NEW trees,
         \A t \in trees : IsObject(Part(t, e)), SavedOnce(e, trees)
  PROVE  Store!SavedMidway(e, trees)
<1>1. CASE UNCHANGED files
  BY <1>1, SavedSame DEF Store!SavedMidway, Saved
<1>2. ASSUME NEW t \in trees, files' = [files EXCEPT ![e] = FileOf(Part(t, e))]
      PROVE  Store!SavedMidway(e, trees)
  <2>1. Saved' = [Saved EXCEPT ![e] = FileOf(Part(t, e))] \/ Saved' = Saved
    BY <1>2, SavedWith
  <2>2. FileOf(Part(t, e)) = Store!FileOf(Store!Part(t, e))
    BY SamePart, SameContent
  <2> QED
    BY <2>1, <2>2 DEF Store!SavedMidway, Saved
<1> QED
  BY <1>1, <1>2 DEF SavedOnce

\* What is saved on the way is a tree.
LEMMA OnTheWayIs ==
  ASSUME TreeInv, HashInv, NEW f \in Paths, NEW e \in AllDbs, NEW t \in OnTheWay(tree, f)
  PROVE  IsObject(Part(t, e))
<1>1. ~Blocked(tree, f)
  BY DEF OnTheWay
<1>2. PICK made \in Begun(tree, f) : t = WithObjects(tree, made)
  BY <1>1 DEF OnTheWay
<1>3. IsObject(tree) /\ IsTree(tree)
  BY DEF TreeInv, IsObject
<1>4. Fits(tree, made) /\ made \cap DOMAIN tree = {}
  BY <1>1, <1>3, MissingFits
<1>5. /\ IsTree(t) /\ t[<<>>] = tree[<<>>]
      /\ \A q : q \in DOMAIN t <=> q \in DOMAIN tree \/ q \in made
      /\ \A q \in DOMAIN tree : t[q] = tree[q]
      /\ \A q \in made : t[q] = Object
  BY <1>2, <1>3, <1>4, WithObjectsIs
<1>6. IsObject(t)
  BY <1>3, <1>5 DEF IsObject
<1>7. e # Main /\ e \in DOMAIN t => t[e] = Object
  BY <1>5, DbsAre DEF HashInv, TreeInv
<1> QED
  BY <1>6, <1>7, PartIs

LEMMA EmptiedPart ==
  ASSUME TreeInv, HashInv, NEW p \in Paths, NEW e \in AllDbs
  PROVE  IsObject(Part(Emptied(tree, p), e))
<1> DEFINE t == Emptied(tree, p)
<1>1. /\ IsTree(t) /\ t[<<>>] = tree[<<>>]
      /\ \A q : q \in DOMAIN t => q \in DOMAIN tree
      /\ \A q \in DOMAIN t : t[q] = tree[q]
  BY EmptiedIs DEF TreeInv, IsObject
<1> HIDE DEF t
<1>2. IsObject(t) /\ (e # Main /\ e \in DOMAIN t => t[e] = Object)
  BY <1>1, DbsAre DEF IsObject, HashInv, TreeInv
<1>3. IsObject(Part(t, e))
  BY <1>2, PartIs
<1> QED
  BY <1>3 DEF t

-----------------------------------------------------------------------------
(* Each step is one of the store or leaves it as it is.                    *)

LEMMA Quiet ==
  ASSUME UNCHANGED <<up, tree>>, Saved' = Saved
  PROVE  Stutters
  BY DEF Stutters, Store!storeVars, Saved

LEMMA StartOpens ==
  ASSUME ContentsTold, FilesInv, Start
  PROVE  Store!Open
<1> DEFINE forgotten == MovedAway
<1>1. tree' = Store!TreeOf(Saved) /\ ~up /\ up'
  BY SameTreeOf DEF Start, Saved
<1>2. ASSUME NEW d \in MovedAway
      PROVE  d \in AllDbs /\ Stored(d) = EmptyObject /\ Stored(d)' = NoFile
  <2>1. d \in AllDbs /\ files[d] \in Broken
    BY DbsAre DEF MovedAway, Loaded
  <2>2. d \in Lasting
    BY DbsAre DEF MovedAway, Loaded, Stored, Lasting
  <2>3. files'[d] = NoFile
    BY <2>1 DEF Start
  <2> QED
    BY <2>1, <2>2, <2>3 DEF Stored, ContentsTold
<1>3. ASSUME NEW d \in AllDbs, d \notin MovedAway PROVE Stored(d)' = Stored(d)
  <2>1. files'[d] = files[d]
    BY <1>3 DEF Start
  <2> QED
    BY <2>1, StoredSame
<1>4. Saved' = [d \in Store!AllDbs |-> IF d \in MovedAway THEN NoFile ELSE Saved[d]]
  <2>1. Saved' = [d \in AllDbs |-> Stored(d)']
    BY DEF Saved
  <2>2. \A d \in AllDbs : Stored(d)' = IF d \in MovedAway THEN NoFile ELSE Saved[d]
    BY <1>2, <1>3 DEF Saved
  <2> QED
    BY <2>1, <2>2, SameDbs
<1>5. MovedAway \in SUBSET {d \in Store!AllDbs : Saved[d] = Store!EmptyObject}
  BY <1>2, SameDbs, SameNames DEF Saved
<1> QED
  BY <1>1, <1>4, <1>5 DEF Store!Open, Saved

LEMMA EndCloses ==
  ASSUME Stop \/ Crash
  PROVE  Store!Close
<1>1. up /\ ~up' /\ tree' = Store!EmptyObject /\ files' = files
  BY SameNames DEF Stop, Crash, Nothing, diskVars
<1>2. Saved' = Saved
  BY <1>1, SavedSame
<1> QED
  BY <1>1, <1>2 DEF Store!Close, Saved, Stop, Crash

LEMMA DamageLoses ==
  ASSUME ContentsTold, FilesInv, NEW d \in AllDbs, Damage(d)
  PROVE  (d \in Lasting /\ Store!Lose(d)) \/ Stutters
<1>1. PICK b \in Broken : files' = [files EXCEPT ![d] = b]
  BY DEF Damage
<1>2. ~up /\ up' = up /\ tree' = tree /\ files[d] # NoFile
  BY DEF Damage, memVars
<1>3. files'[d] \in Broken /\ \A e \in AllDbs : e # d => files'[e] = files[e]
  BY <1>1 DEF FilesInv
<1>4. \A e \in AllDbs : e # d => Stored(e)' = Stored(e)
  BY <1>3, StoredSame
<1>5. Saved' = [e \in AllDbs |-> Stored(e)']
  BY DEF Saved
<1>6. CASE d \in Lasting
  <2>1. Stored(d)' = EmptyObject
    BY <1>3, <1>6 DEF Stored
  <2>2. Saved[d] # NoFile
    BY <1>2, <1>6, EmptyTree DEF Saved, Stored, ContentsTold, IsObject
  <2>3. Saved' = [Saved EXCEPT ![d] = Store!EmptyObject]
    BY <1>4, <1>5, <2>1, SameNames DEF Saved
  <2> QED
    BY <1>2, <1>6, <2>2, <2>3 DEF Store!Lose, Saved
<1>7. CASE d \notin Lasting
  <2>1. Stored(d)' = Stored(d)
    BY <1>7 DEF Stored
  <2>2. Saved' = Saved
    BY <1>4, <1>5, <2>1 DEF Saved
  <2> QED
    BY <1>2, <2>2, Quiet
<1> QED
  BY <1>6, <1>7

LEMMA SaveSaves ==
  ASSUME ContentsTold, TreeInv, FilesInv, HashInv, NEW d \in AllDbs, Save(d)
  PROVE  Store!Save(d) \/ Stutters
<1> DEFINE x == Part(tree, d)
<1>1. up /\ up' = up /\ tree' = tree /\ d \in {Main} \cup dbs
  BY DEF Save, TreeInv
<1>2. Text(d) = x /\ IsObject(x)
  BY <1>1, TextIs
<1>3. files' = [files EXCEPT ![d] = FileOf(x)]
  BY <1>2 DEF Save
<1> HIDE DEF x
<1>4. Saved' = [Saved EXCEPT ![d] = FileOf(x)] \/ Saved' = Saved
  BY <1>2, <1>3, SavedWith
<1>5. CASE Saved' = [Saved EXCEPT ![d] = FileOf(x)]
  <2>1. FileOf(x) = Store!FileOf(Store!Part(tree, d))
    BY SamePart, SameContent DEF x
  <2> QED
    BY <1>1, <1>5, <2>1 DEF Store!Save, Saved
<1>6. CASE Saved' = Saved
  BY <1>1, <1>6, Quiet
<1> QED
  BY <1>4, <1>5, <1>6

LEMMA SetValueWrites ==
  ASSUME ContentsTold, TreeInv, FilesInv, HashInv,
         NEW p \in Paths, p # <<>>, p \notin TopPaths \cup DbPaths, DbOf(p) \in AllDbs,
         NEW v, IsValue(v), SetValue(p, v)
  PROVE  Store!Write(p, v) \/ Stutters
<1> DEFINE f == Front(p)
           e == DbOf(p)
<1>2. f \in Paths /\ DbOf(f) = e
  BY FrontOf, DbOfFront
<1>3. up /\ up' = up
  BY DEF SetValue
<1>4. /\ tree' = Written(tree, p, v)
      /\ Blocked(tree, f) => UNCHANGED <<tree, files>>
      /\ ~Blocked(tree, f) => SavedOnce(e, OnTheWay(tree, f))
  BY UsualSetValue DEF Usual
<1>5. CASE Blocked(tree, f)
  BY <1>3, <1>4, <1>5, SavedSame, Quiet
<1>6. CASE ~Blocked(tree, f)
  <2>1. \A t \in OnTheWay(tree, f) : IsObject(Part(t, e))
    BY <1>2, OnTheWayIs
  <2>2. Store!SavedMidway(e, OnTheWay(tree, f))
    BY <1>4, <1>6, <2>1, SavesMidway
  <2>3. /\ Store!DbOf(Store!Front(p)) = e
        /\ Store!OnTheWay(tree, Store!Front(p)) = OnTheWay(tree, f)
        /\ Store!Written(tree, p, v) = Written(tree, p, v)
    BY <1>2, SamePaths, SameDbOf, SameOnTheWay, SameWritten
  <2> QED
    BY <1>3, <1>4, <2>2, <2>3 DEF Store!Write
<1> QED
  BY <1>5, <1>6

LEMMA MergeValueInjects ==
  ASSUME ContentsTold, TreeInv, FilesInv, HashInv,
         NEW p \in Paths, p \notin TopPaths, DbOf(p) \in AllDbs,
         NEW sub, IsObject(sub), p = <<>> => NoTops(sub), MergeValue(p, sub)
  PROVE  Store!Inject(p, sub) \/ Stutters
<1> DEFINE e == DbOf(p)
<1>2. up /\ up' = up
  BY DEF MergeValue
<1>3. /\ tree' = Merged(tree, p, sub)
      /\ Blocked(tree, p) => UNCHANGED <<tree, files>>
      /\ ~Blocked(tree, p) => SavedOnce(e, OnTheWay(tree, p))
  BY UsualMergeValue DEF Usual
<1>4. CASE Blocked(tree, p)
  BY <1>2, <1>3, <1>4, SavedSame, Quiet
<1>5. CASE ~Blocked(tree, p)
  <2>1. \A t \in OnTheWay(tree, p) : IsObject(Part(t, e))
    BY OnTheWayIs
  <2>2. Store!SavedMidway(e, OnTheWay(tree, p))
    BY <1>3, <1>5, <2>1, SavesMidway
  <2>3. /\ Store!DbOf(p) = e /\ Store!OnTheWay(tree, p) = OnTheWay(tree, p)
        /\ Store!Merged(tree, p, sub) = Merged(tree, p, sub)
    BY SameDbOf, SameOnTheWay, SameMerged
  <2> QED
    BY <1>2, <1>3, <2>2, <2>3 DEF Store!Inject
<1> QED
  BY <1>4, <1>5

LEMMA RmValueRms ==
  ASSUME ContentsTold, TreeInv, FilesInv, HashInv,
         NEW p \in Paths, p # <<>>, p \notin TopPaths, RmValue(p)
  PROVE  Store!Rm(p)
<1>2. up /\ up' = up /\ tree' = Store!Cut(tree, p)
  BY SameAt DEF RmValue
<1>3. ASSUME p \in DbPaths
      PROVE  Saved' = [d \in Store!AllDbs |->
                         IF d = p /\ p \in DOMAIN tree THEN NoFile ELSE Saved[d]]
  <2>1. p \in DOMAIN tree /\ files' = [files EXCEPT ![p] = NoFile] /\ p \in AllDbs
    BY <1>3, UsualRmDb, DbPathIs
  <2>2. files'[p] = NoFile /\ \A d \in AllDbs : d # p => files'[d] = files[d]
    BY <2>1 DEF FilesInv
  <2>3. Stored(p)' = NoFile /\ \A d \in AllDbs : d # p => Stored(d)' = Stored(d)
    BY <2>2, StoredSame DEF Stored, ContentsTold
  <2>4. Saved' = [d \in AllDbs |-> Stored(d)']
    BY DEF Saved
  <2> QED
    BY <2>1, <2>3, <2>4, SameDbs DEF Saved
<1>4. ASSUME p \notin DbPaths
      PROVE  Store!SavedMidway(Store!DbOf(p), {Store!Emptied(tree, p)})
  <2>1. DbOf(p) \in AllDbs /\ SavedOnce(DbOf(p), {Emptied(tree, p)})
    BY <1>4, UsualRmKey DEF Usual
  <2>2. \A t \in {Emptied(tree, p)} : IsObject(Part(t, DbOf(p)))
    BY <2>1, EmptiedPart
  <2>3. Store!SavedMidway(DbOf(p), {Emptied(tree, p)})
    BY <2>1, <2>2, SavesMidway
  <2> QED
    BY <2>3, SameDbOf, SameEmptied
<1> QED
  BY <1>2, <1>3, <1>4, SameNames DEF Store!Rm, Saved

LEMMA StoreInit == ContentsTold /\ Init => Store!Init
<1> SUFFICES ASSUME ContentsTold, Init PROVE Store!Init
  OBVIOUS
<1>1. \A d \in AllDbs : Stored(d) = NoFile
  BY DEF Init, Stored, ContentsTold
<1>2. tree = Store!EmptyObject /\ up = FALSE
  BY SameNames DEF Init
<1> QED
  BY <1>1, <1>2, SameDbs DEF Store!Init

LEMMA StoreNext ==
  ASSUME UsualRequests, ContentsTold, TypeInv, HashInv, [Next]_vars
  PROVE  StoreStep
<1>1. TreeInv /\ FilesInv
  BY DEF TypeInv, DiskInv
<1>2. CASE Start
  BY <1>1, <1>2, StartOpens DEF StoreStep, Store!Next
<1>3. CASE Stop \/ Crash
  BY <1>3, EndCloses DEF StoreStep, Store!Next
<1>4. ASSUME NEW d \in AllDbs, Damage(d) PROVE StoreStep
  BY <1>1, <1>4, DamageLoses, SameLasting DEF StoreStep, Store!Next
<1>5. ASSUME NEW d \in AllDbs, Save(d) PROVE StoreStep
  BY <1>1, <1>5, SaveSaves, SameDbs DEF StoreStep, Store!Next
<1>6. ASSUME NEW p \in WritePaths, NEW v \in Values, SetValue(p, v) PROVE StoreStep
  <2>1. Store!Write(p, v) \/ Stutters
    BY <1>1, <1>6, Requested, SetValueWrites
  <2> QED
    BY <2>1 DEF StoreStep, Store!Next
<1>7. ASSUME NEW i \in Injections, MergeValue(i.path, i.value) PROVE StoreStep
  <2>1. /\ i.path \in Paths /\ i.path \notin TopPaths /\ DbOf(i.path) \in AllDbs
        /\ IsObject(i.value) /\ (i.path = <<>> => NoTops(i.value))
    BY Requested
  <2>2. Store!Inject(i.path, i.value) \/ Stutters
    BY <1>1, <1>7, <2>1, MergeValueInjects
  <2> QED
    BY <2>2 DEF StoreStep, Store!Next
<1>8. ASSUME NEW p \in RmPaths, RmValue(p) PROVE StoreStep
  <2>1. Store!Rm(p)
    BY <1>1, <1>8, Requested, RmValueRms
  <2> QED
    BY <2>1 DEF StoreStep, Store!Next
<1>9. CASE UNCHANGED vars
  BY <1>9, SavedSame, Quiet DEF vars, memVars, diskVars, StoreStep
<1> QED
  BY <1>2, <1>3, <1>4, <1>5, <1>6, <1>7, <1>8, <1>9 DEF Next

(***************************************************************************)
(* To whoever asks and whoever looks at the files, dbd's hashes, objects   *)
(* and files are one map: a request does to it what it says, at once, what *)
(* is saved of a database is what the map shows or has shown of it while   *)
(* the request was under way, and a start shows what was saved.            *)
(***************************************************************************)
THEOREM TreeIsStore ==
  ASSUME UsualRequests, ContentsTold
  PROVE  Spec => ImplementsTreeStore
<1>1. TypeInv /\ HashInv /\ [Next]_vars =>
        [Store!storeVars' # Store!storeVars /\ Store!Next]_(Store!storeVars)
  BY StoreNext DEF StoreStep, Stutters
<1>2. Spec => [](TypeInv /\ HashInv)
  BY SavedAlways, PTL
<1>3. Init => Store!Init
  BY StoreInit
<1> QED
  BY <1>1, <1>2, <1>3, PTL DEF Spec, ImplementsTreeStore, Store!Spec

=============================================================================
