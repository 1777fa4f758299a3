----------------------------- MODULE DBTreeProofs -----------------------------
(***************************************************************************)
(* Theorems about DBTree: for any keys, names, requests and files, the     *)
(* walks keep the tree a tree and the files files; and where requests keep *)
(* to the main database or to what is in a database, hash, tree and files  *)
(* agree, and all three together are the one map of TreeStore.             *)
(***************************************************************************)
EXTENDS DBTree, TreesProofs

-----------------------------------------------------------------------------
(* The types                                                               *)

\* setValue and rmValue ignore the root at once (dbtree.cpp:229, dbtree.cpp:293);
\* SetValue and RmValue are what they do of any other path.
RootIsIgnored == <<>> \notin WritePaths \cup RmPaths

IsFile(d, x) == \/ x \in Broken \cup {NoFile}
                \/ IsObject(x) /\ IsMap(x) /\ (d = Main => NoTops(x))

TreeInv ==
    /\ IsObject(tree) /\ IsMap(tree)
    /\ dbs \subseteq DbPaths /\ attached \subseteq dbs
    /\ \A d \in attached : d \in DOMAIN tree /\ tree[d] = Object
    /\ dirty \subseteq {Main} \cup dbs
    /\ DOMAIN own = DbPaths /\ \A d \in DbPaths : IsObject(own[d]) /\ IsMap(own[d])

FilesInv == DOMAIN files = AllDbs /\ \A d \in AllDbs : IsFile(d, files[d])

\* What a flush writes, and what a step leaves of the files if it writes no more.
IsWritten(d, x) == \/ x = NoFile
                   \/ IsObject(x) /\ IsMap(x) /\ (d = Main => NoTops(x))

FilesStep ==
    /\ DOMAIN files' = AllDbs
    /\ \A d \in AllDbs : files'[d] = files[d] \/ IsWritten(d, files'[d])

DiskInv ==
    /\ FilesInv
    /\ DOMAIN bad = AllDbs /\ \A d \in AllDbs : bad[d] \in Broken \cup {NoFile}
    /\ damaged \subseteq Broken

TypeInv == up \in BOOLEAN /\ TreeInv /\ DiskInv

LEMMA DbsAre ==
  /\ Main \in AllDbs /\ Main \in Paths /\ DbPaths \subseteq AllDbs
  /\ \A d \in AllDbs : d \in Paths /\ (d # Main <=> d \in DbPaths)
<1>1. Main \in Paths
  BY EmptyPath DEF Main
<1>2. \A d \in DbPaths : d \in Paths /\ d # Main
  BY DbPathIs
<1> QED
  BY <1>1, <1>2 DEF AllDbs

\* The path of a database is in no other.
LEMMA DbInDb ==
  ASSUME NEW d \in DbPaths, NEW e \in DbPaths, IsPrefix(d, e)
  PROVE  d = e
<1>1. d \in Paths /\ e \in Paths
  BY DbPathIs
<1>2. DbOf(e) = d /\ DbOf(e) = e
  BY <1>1, DbOfIs, PrefixOrder
<1> QED
  BY <1>2

\* What flush() writes is a file of the database.
LEMMA FileOfPart ==
  ASSUME NEW t, IsObject(t), NEW d \in AllDbs, d # Main /\ d \in DOMAIN t => t[d] = Object
  PROVE  IsWritten(d, FileOf(Part(t, d)))
<1> DEFINE x == Part(t, d)
<1>1. IsObject(x) /\ IsMap(x) /\ (d = Main => NoTops(x))
  BY PartIs
<1> HIDE DEF x
<1>2. FileOf(x) \in {NoFile, x}
  BY <1>1, FileIs
<1>3. IsWritten(d, FileOf(x))
  BY <1>1, <1>2 DEF IsWritten
<1> QED
  BY <1>3 DEF x

LEMMA FilesWith ==
  ASSUME FilesInv, NEW d \in AllDbs, NEW x, IsWritten(d, x), files' = [files EXCEPT ![d] = x]
  PROVE  FilesStep
  BY DEF FilesInv, FilesStep

LEMMA FilesKept ==
  ASSUME FilesInv, FilesStep
  PROVE  FilesInv'
  BY DEF FilesInv, FilesStep, IsWritten, IsFile

LEMMA NothingType ==
  ASSUME Nothing
  PROVE  TreeInv'
<1>1. \A d \in DbPaths : own'[d] = EmptyObject
  BY DEF Nothing
<1> QED
  BY <1>1, EmptyTree DEF Nothing, TreeInv

LEMMA StoredIs ==
  ASSUME FilesInv
  PROVE  LET f == [d \in AllDbs |-> Stored(d)] IN
         /\ \A d \in AllDbs : f[d] = Stored(d)
         /\ Loadable(f)
         /\ \A d \in AllDbs : Content(Stored(d)) = EmptyObject \/ Content(Stored(d)) = Stored(d)
         /\ \A d \in AllDbs : IsObject(Content(Stored(d))) /\ IsMap(Content(Stored(d)))
         /\ \A d \in AllDbs : Stored(d) # NoFile => d \in Lasting
<1>1. ASSUME NEW d \in AllDbs, Stored(d) # NoFile
      PROVE  /\ IsObject(Stored(d)) /\ IsMap(Stored(d)) /\ d \in Lasting
             /\ d = Main => NoTops(Stored(d))
  <2>1. d \in Lasting
    BY <1>1 DEF Stored
  <2>2. CASE files[d] \in Broken
    <3>1. NoTops(EmptyObject)
      BY EmptyTree DEF NoTops
    <3> QED
      BY <2>1, <2>2, <3>1, EmptyTree DEF Stored
  <2>3. CASE files[d] \notin Broken
    BY <1>1, <2>1, <2>3 DEF Stored, FilesInv, IsFile
  <2> QED
    BY <2>2, <2>3
<1>2. \A d \in Lasting : d \in AllDbs
  BY DEF Lasting
<1>3. Loadable([d \in AllDbs |-> Stored(d)])
  BY <1>1, <1>2, DbsAre DEF Loadable
<1>4. \A d \in AllDbs : IsObject(Content(Stored(d))) /\ IsMap(Content(Stored(d)))
  BY <1>1, EmptyTree DEF Content
<1> QED
  BY <1>1, <1>3, <1>4 DEF Content

LEMMA StartType ==
  ASSUME TypeInv, Start
  PROVE  TypeInv'
<1> DEFINE f == [d \in AllDbs |-> Stored(d)]
<1>1. /\ Loadable(f) /\ \A d \in AllDbs : f[d] = Stored(d)
      /\ \A d \in AllDbs : IsObject(Content(Stored(d))) /\ IsMap(Content(Stored(d)))
      /\ \A d \in AllDbs : Stored(d) # NoFile => d \in Lasting
  BY StoredIs DEF TypeInv, DiskInv
<1>2. tree' = TreeOf(f)
  BY DEF Start
<1> HIDE DEF f
<1>3. /\ IsObject(tree') /\ IsMap(tree')
      /\ \A d \in DbPaths : d \in DOMAIN tree' <=> d \in Lasting /\ f[d] # NoFile
      /\ \A d \in DbPaths : d \in DOMAIN tree' => tree'[d] = Object
  BY <1>1, <1>2, TreeOfIs
<1>4. \A d \in Loaded : d \in DbPaths /\ d \in DOMAIN tree' /\ tree'[d] = Object
  BY <1>1, <1>3, DbsAre DEF Loaded
<1>5. TreeInv'
  <2>1. /\ dbs' = Loaded /\ attached' = Loaded /\ dirty' = {}
        /\ own' = [d \in DbPaths |-> Content(Stored(d))]
    BY DEF Start
  <2>2. DOMAIN own' = DbPaths /\ \A d \in DbPaths : own'[d] = Content(Stored(d))
    BY <2>1
  <2>3. DOMAIN own' = DbPaths /\ \A d \in DbPaths : IsObject(own'[d]) /\ IsMap(own'[d])
    BY <1>1, <2>2, DbsAre
  <2> QED
    BY <1>3, <1>4, <2>1, <2>3 DEF TreeInv
<1>6. DiskInv'
  <2>1. /\ files' = [d \in AllDbs |-> IF d \in MovedAway THEN NoFile ELSE files[d]]
        /\ bad' = [d \in AllDbs |-> IF d \in MovedAway THEN files[d] ELSE bad[d]]
        /\ damaged' = damaged
    BY DEF Start
  <2>2. \A d \in MovedAway : files[d] \in Broken
    BY DEF MovedAway
  <2>3. \A d \in AllDbs : IsFile(d, files'[d])
    BY <2>1 DEF TypeInv, DiskInv, FilesInv, IsFile
  <2> QED
    BY <2>1, <2>2, <2>3 DEF TypeInv, DiskInv, FilesInv
<1> QED
  BY <1>5, <1>6 DEF TypeInv, Start

LEMMA DamageType ==
  ASSUME TypeInv, NEW d \in AllDbs, Damage(d)
  PROVE  TypeInv'
<1>1. PICK b \in Broken \ damaged :
        files' = [files EXCEPT ![d] = b] /\ damaged' = damaged \cup {b}
  BY DEF Damage
<1>2. FilesInv'
  BY <1>1 DEF IsFile, FilesInv, TypeInv, DiskInv
<1>3. DiskInv'
  BY <1>1, <1>2 DEF TypeInv, DiskInv, Damage
<1>4. TreeInv'
  BY DEF TypeInv, TreeInv, Damage, memVars
<1> QED
  BY <1>3, <1>4 DEF TypeInv, Damage

LEMMA SaveType ==
  ASSUME TypeInv, NEW d \in AllDbs, Save(d)
  PROVE  TypeInv' /\ FilesStep
<1>1. IsWritten(d, FileOf(Text(d)))
  <2>1. CASE d = Main
    <3>1. Text(d) = Part(tree, d)
      BY <2>1 DEF Text, Part
    <3> QED
      BY <2>1, <3>1, FileOfPart DEF TypeInv, TreeInv
  <2>2. CASE d # Main
    <3>1. d \in DbPaths /\ Text(d) = own[d]
      BY <2>2, DbsAre DEF Text
    <3>2. IsObject(own[d]) /\ IsMap(own[d])
      BY <3>1 DEF TypeInv, TreeInv
    <3>3. FileOf(own[d]) \in {NoFile, own[d]}
      BY <3>2, FileIs
    <3> QED
      BY <2>2, <3>1, <3>2, <3>3 DEF IsWritten
  <2> QED
    BY <2>1, <2>2
<1>2. FilesStep /\ FilesInv'
  BY <1>1, FilesWith, FilesKept DEF Save, TypeInv, DiskInv
<1>3. DiskInv' /\ TreeInv'
  BY <1>2 DEF TypeInv, DiskInv, TreeInv, Save
<1> QED
  BY <1>2, <1>3 DEF TypeInv, Save

-----------------------------------------------------------------------------
(* Requests, whatever their paths                                          *)

\* What createChildDb() leaves is a tree, and every object in a hash that was
\* in the tree is still there.
LEMMA WithDbIs ==
  ASSUME TreeInv, NEW p \in Paths, DbOf(p) \in AllDbs
  PROVE  LET new == NewDb(p)
             t == WithDb(new) IN
         /\ IsObject(t) /\ IsMap(t)
         /\ new \subseteq DbPaths \ dbs /\ new \subseteq {DbOf(p)} /\ DbOf(p) \in {Main} \cup dbs \cup new
         /\ new = {} => t = tree
         /\ \A d \in new : Blocked(tree, Top(d)) => t = tree /\ d \notin DOMAIN t
         /\ \A d \in new : ~Blocked(tree, Top(d)) =>
              /\ t = Written(tree, d, Object)
              /\ d \in DOMAIN t /\ t[d] = Object
         /\ \A d \in attached : d \in DOMAIN t /\ t[d] = Object
<1> DEFINE new == NewDb(p)
           t == WithDb(new)
           e == DbOf(p)
           Is == /\ IsObject(t) /\ IsMap(t)
                 /\ new = {} => t = tree
                 /\ \A d \in new : Blocked(tree, Top(d)) => t = tree /\ d \notin DOMAIN t
                 /\ \A d \in new : ~Blocked(tree, Top(d)) =>
                      /\ t = Written(tree, d, Object)
                      /\ d \in DOMAIN t /\ t[d] = Object
                 /\ \A d \in attached : d \in DOMAIN t /\ t[d] = Object
<1>1. new \subseteq DbPaths \ dbs /\ new \subseteq {e} /\ e \in {Main} \cup dbs \cup new
  BY DbsAre DEF NewDb
<1> HIDE DEF new
<1>2. ASSUME new = {} PROVE Is
  BY <1>2 DEF WithDb, TreeInv
<1>3. ASSUME new # {} PROVE Is
  <2>1. new = {e} /\ e \in DbPaths /\ e \notin dbs /\ (CHOOSE d \in new : TRUE) = e
    BY <1>1, <1>3
  <2> HIDE DEF e
  <2>2. /\ e \in Paths /\ e # <<>> /\ Front(e) = Top(e) /\ Top(e) \in Paths
        /\ Top(e) # <<>> /\ Top(e) # e /\ IsPrefix(Top(e), e)
    BY <2>1, DbPathIs, FrontOf
  <2>3. t = IF Blocked(tree, Top(e)) THEN tree
            ELSE Put(WithObjects(tree, Missing(tree, Top(e))), e, EmptyObject)
    BY <1>3, <2>1 DEF WithDb, Top
  <2> HIDE DEF t
  <2>4. CASE Blocked(tree, Top(e))
    <3>1. PICK q \in PathsTo(Top(e)) \cap DOMAIN tree : tree[q] # Object
      BY <2>4 DEF Blocked
    <3>2. q \in Paths /\ IsPrefix(q, e) /\ q # e
      <4>1. q \in Paths /\ IsPrefix(q, Top(e))
        BY <2>2, PathsToIff
      <4> QED
        BY <2>2, <4>1, PrefixOrder
    <3>3. e \notin DOMAIN tree
      BY <3>1, <3>2, PrefixOfTree DEF TreeInv, IsObject
    <3> QED
      BY <2>1, <2>3, <2>4, <3>3 DEF TreeInv
  <2>5. CASE ~Blocked(tree, Top(e))
    <3>1. t = Written(tree, e, Object)
      BY <2>2, <2>3, <2>5 DEF Written, Leaf, EmptyObject
    <3>2. /\ IsObject(t) /\ IsMap(t) /\ e \in DOMAIN t /\ t[e] = Object
          /\ \A q \in DOMAIN tree : ~IsPrefix(e, q) => q \in DOMAIN t /\ t[q] = tree[q]
      <4>1. ~Blocked(tree, Front(e)) /\ IsObject(tree) /\ IsValue(Object)
        BY <2>2, <2>5, ObjectIsValue DEF TreeInv
      <4> QED
        BY <2>2, <3>1, <4>1, WrittenIs
    <3>3. \A d \in attached : d \in DOMAIN t /\ t[d] = Object
      BY <2>1, <3>2, DbInDb DEF TreeInv
    <3> QED
      BY <2>1, <2>5, <3>1, <3>2, <3>3
  <2> QED
    BY <2>4, <2>5
<1>4. Is
  BY <1>2, <1>3
<1> QED
  BY <1>1, <1>4 DEF new

\* The objects the hashes know are in the tree.
AttachedIn(t) == \A d \in attached' : d \in DOMAIN t /\ t[d] = Object

LEMMA SyncOwnType ==
  ASSUME TreeInv, SyncOwn, IsObject(tree'), attached' \subseteq DbPaths, AttachedIn(tree')
  PROVE  DOMAIN own' = DbPaths /\ \A d \in DbPaths : IsObject(own'[d]) /\ IsMap(own'[d])
<1>1. own' = [d \in DbPaths |-> IF d \in attached' THEN At(tree', d)
                              ELSE IF d \in dbs \cap dbs' THEN own[d] ELSE EmptyObject]
  BY DEF SyncOwn
<1>2. DOMAIN own' = DbPaths
      /\ \A d \in DbPaths :
           own'[d] = IF d \in attached' THEN At(tree', d)
                     ELSE IF d \in dbs \cap dbs' THEN own[d] ELSE EmptyObject
  BY <1>1
<1>3. \A d \in attached' : IsObject(At(tree', d)) /\ IsMap(At(tree', d))
  BY AtIs DEF AttachedIn, IsObject
<1> QED
  BY <1>2, <1>3, EmptyTree DEF TreeInv

LEMMA SavedOnTheWayType ==
  ASSUME FilesInv, NEW t, IsObject(t), NEW p \in Paths, ~Blocked(t, p), AttachedIn(t),
         attached' \subseteq DbPaths, SavedOnTheWay(t, p)
  PROVE  FilesStep
<1>1. CASE UNCHANGED files
  BY <1>1 DEF FilesInv, FilesStep
<1>2. ASSUME NEW made \in Begun(t, p), DbOf(p) \in {Main} \cup attached',
             files' = [files EXCEPT ![DbOf(p)] =
                         FileOf(Part(WithObjects(t, made), DbOf(p)))]
      PROVE  FilesStep
  <2> DEFINE d == DbOf(p)
             w == WithObjects(t, made)
  <2>1. Fits(t, made) /\ made \cap DOMAIN t = {}
    BY MissingFits
  <2>2. IsTree(w) /\ w[<<>>] = t[<<>>] /\ \A q \in DOMAIN t : w[q] = t[q]
    BY <2>1, WithObjectsIs DEF IsObject
  <2>3. d \in AllDbs
    BY <1>2, DbsAre
  <2> HIDE DEF w
  <2>4. IsObject(w)
    BY <2>2 DEF IsObject
  <2>5. d # Main => w[d] = Object
    BY <1>2, <2>2 DEF AttachedIn
  <2>6. IsWritten(d, FileOf(Part(w, d)))
    BY <2>3, <2>4, <2>5, FileOfPart
  <2> QED
    BY <1>2, <2>3, <2>6, FilesWith DEF w
<1> QED
  BY <1>1, <1>2 DEF SavedOnTheWay

\* What is inserted on the way to a path is to be saved in its database or in
\* the main one.
LEMMA HolderIs ==
  ASSUME NEW p \in Paths, NEW q \in Paths, q # <<>>, IsPrefix(q, p)
  PROVE  Holder(q) \in {Main, DbOf(p)}
<1>1. Front(q) \in Paths /\ IsPrefix(Front(q), p)
  BY FrontOf, PrefixOrder
<1> QED
  BY <1>1, DbOfPrefix DEF Holder

\* A walk that comes past the new object finds what has kept it out.
LEMMA WalkPassesTop ==
  ASSUME TreeInv, NEW p \in Paths, DbOf(p) \in AllDbs, NEW f \in Paths,
         ~Blocked(WithDb(NewDb(p)), f), NEW d \in NewDb(p), IsPrefix(Top(d), f)
  PROVE  ~Blocked(tree, Top(d))
<1>1. ASSUME Blocked(tree, Top(d)) PROVE FALSE
  <2> DEFINE t == WithDb(NewDb(p))
  <2>1. d \in DbPaths /\ t = tree
    BY <1>1, WithDbIs
  <2> HIDE DEF t
  <2>2. Top(d) \in Paths
    BY <2>1, DbPathIs
  <2>3. PICK q \in PathsTo(Top(d)) \cap DOMAIN tree : tree[q] # Object
    BY <1>1 DEF Blocked
  <2>4. q \in Paths /\ q # <<>> /\ IsPrefix(q, Top(d))
    BY <2>2, <2>3, PathsToIff
  <2>5. q \in PathsTo(f)
    BY <2>2, <2>4, PathsToIff, PrefixOrder
  <2>6. Blocked(t, f)
    BY <2>1, <2>3, <2>5 DEF Blocked
  <2> QED
    BY <2>6 DEF t
<1> QED
  BY <1>1

LEMMA GiveUpType ==
  ASSUME TreeInv, FilesInv, NEW p \in Paths, DbOf(p) \in AllDbs,
         GiveUp(WithDb(NewDb(p)), NewDb(p)), dbs' = dbs \cup NewDb(p), SyncOwn
  PROVE  TreeInv' /\ FilesStep
<1> DEFINE new == NewDb(p)
           t == WithDb(new)
<1>1. /\ IsObject(t) /\ IsMap(t) /\ new \subseteq DbPaths
      /\ \A d \in new : d \in DOMAIN t => t[d] = Object
      /\ \A d \in attached : d \in DOMAIN t /\ t[d] = Object
  BY WithDbIs
<1>2. tree' = t /\ attached' = attached \cup {d \in new : d \in DOMAIN t}
      /\ dirty' = dirty /\ files' = files /\ dbs' = dbs \cup new
  BY DEF GiveUp
<1> HIDE DEF new, t
<1>3. attached' \subseteq dbs' /\ dbs' \subseteq DbPaths /\ dirty' \subseteq {Main} \cup dbs'
  BY <1>1, <1>2 DEF TreeInv
<1>4. AttachedIn(tree')
  BY <1>1, <1>2 DEF AttachedIn
<1>5. DOMAIN own' = DbPaths /\ \A d \in DbPaths : IsObject(own'[d]) /\ IsMap(own'[d])
  BY <1>1, <1>2, <1>3, <1>4, SyncOwnType
<1> QED
  BY <1>1, <1>2, <1>3, <1>4, <1>5 DEF TreeInv, FilesInv, FilesStep, AttachedIn

LEMMA SetValueType ==
  ASSUME TreeInv, FilesInv, NEW p \in Paths \ {<<>>}, DbOf(p) \in AllDbs,
         NEW v, IsValue(v), SetValue(p, v)
  PROVE  TreeInv' /\ FilesStep
<1> DEFINE new == NewDb(p)
           t == WithDb(new)
           f == Front(p)
<1>1. /\ IsObject(t) /\ IsMap(t) /\ new \subseteq DbPaths
      /\ new \subseteq {DbOf(p)} /\ DbOf(p) \in {Main} \cup dbs \cup new
      /\ \A d \in new : Blocked(tree, Top(d)) => t = tree /\ d \notin DOMAIN t
      /\ \A d \in new : ~Blocked(tree, Top(d)) => d \in DOMAIN t /\ t[d] = Object
      /\ \A d \in attached : d \in DOMAIN t /\ t[d] = Object
  BY WithDbIs
<1>2. f \in Paths /\ IsPrefix(f, p)
  BY FrontOf
<1>3. dbs' = dbs \cup new /\ SyncOwn
  BY DEF SetValue
<1>4. CASE Blocked(t, f)
  BY <1>3, <1>4, GiveUpType DEF SetValue
<1>5. CASE ~Blocked(t, f)
  <2>1. /\ tree' = Written(t, p, v)
        /\ attached' = {d \in attached \cup new : ~IsPrefix(p, d)}
        /\ dirty' = dirty \cup {Holder(q) : q \in Missing(t, f)} \cup {Holder(p)}
        /\ SavedOnTheWay(t, f)
    BY <1>5 DEF SetValue, Written
  <2> HIDE DEF new, t
  <2>2. /\ IsObject(tree') /\ IsMap(tree')
        /\ \A q \in DOMAIN t : ~IsPrefix(p, q) => q \in DOMAIN tree' /\ tree'[q] = t[q]
        /\ \A q \in Missing(t, f) : q \in Paths /\ q # <<>> /\ IsPrefix(q, p)
    BY <1>1, <1>5, <2>1, WrittenIs
  <2>3. \A d \in new : ~Blocked(tree, Top(d))
    <3>1. \A d \in new : IsPrefix(Top(d), f)
      <4>1. ASSUME NEW d \in new PROVE IsPrefix(Top(d), f)
        <5>1. d \in Paths /\ Top(d) \in Paths /\ IsPrefix(Top(d), d) /\ Top(d) # d
              /\ IsPrefix(d, p)
          BY <1>1, DbPathIs, DbOfIs, FrontOf
        <5>2. IsPrefix(Top(d), p) /\ Top(d) # p
          BY <5>1, PrefixOrder
        <5> QED
          BY <5>1, <5>2, PrefixOfFront
      <4> QED
        BY <4>1
    <3> QED
      BY <1>2, <1>5, <3>1, WalkPassesTop DEF new, t
  <2>4. attached' \subseteq dbs' /\ dbs' \subseteq DbPaths
    BY <1>1, <1>3, <2>1 DEF TreeInv
  <2>5. AttachedIn(t) /\ AttachedIn(tree')
    BY <1>1, <2>1, <2>2, <2>3 DEF AttachedIn
  <2>6. dirty' \subseteq {Main} \cup dbs'
    <3>1. \A q \in Missing(t, f) \cup {p} : Holder(q) \in {Main, DbOf(p)}
      BY <2>2, HolderIs, PrefixOrder
    <3> QED
      BY <1>1, <1>3, <2>1, <3>1 DEF TreeInv
  <2>7. FilesStep
    BY <1>1, <1>2, <1>5, <2>1, <2>4, <2>5, SavedOnTheWayType
  <2>8. DOMAIN own' = DbPaths /\ \A d \in DbPaths : IsObject(own'[d]) /\ IsMap(own'[d])
    BY <1>3, <2>2, <2>4, <2>5, SyncOwnType
  <2> QED
    BY <2>2, <2>4, <2>5, <2>6, <2>7, <2>8 DEF TreeInv, AttachedIn
<1> QED
  BY <1>4, <1>5

LEMMA MergeValueType ==
  ASSUME TreeInv, FilesInv, NEW p \in Paths, DbOf(p) \in AllDbs,
         NEW sub, IsObject(sub), MergeValue(p, sub)
  PROVE  TreeInv' /\ FilesStep
<1> DEFINE new == NewDb(p)
           t == WithDb(new)
           New(q) == q \in Paths /\ IsPrefix(p, q) /\ Rest(p, q) \in DOMAIN sub
<1>1. /\ IsObject(t) /\ IsMap(t) /\ new \subseteq DbPaths
      /\ new \subseteq {DbOf(p)} /\ DbOf(p) \in {Main} \cup dbs \cup new
      /\ \A d \in new : ~Blocked(tree, Top(d)) => d \in DOMAIN t /\ t[d] = Object
      /\ \A d \in attached : d \in DOMAIN t /\ t[d] = Object
  BY WithDbIs
<1>2. dbs' = dbs \cup new /\ SyncOwn
  BY DEF MergeValue
<1>3. CASE Blocked(t, p)
  BY <1>2, <1>3, GiveUpType DEF MergeValue
<1>4. CASE ~Blocked(t, p)
  <2>1. /\ tree' = Merged(t, p, sub)
        /\ attached' = {d \in attached \cup new : ~Replaced(p, sub, d)}
        /\ dirty' = dirty \cup MergeSaves(t, p)
        /\ SavedOnTheWay(t, p)
    BY <1>4 DEF MergeValue, Merged
  <2>2. \A d \in new : ~Blocked(tree, Top(d))
    <3>1. \A d \in new : IsPrefix(Top(d), p)
      <4>1. ASSUME NEW d \in new PROVE IsPrefix(Top(d), p)
        <5>1. d \in Paths /\ Top(d) \in Paths /\ IsPrefix(Top(d), d) /\ IsPrefix(d, p)
          BY <1>1, DbPathIs, DbOfIs, FrontOf
        <5> QED
          BY <5>1, PrefixOrder
      <4> QED
        BY <4>1
    <3> QED
      BY <1>4, <3>1, WalkPassesTop
  <2> HIDE DEF new, t
  <2>3. /\ IsObject(tree') /\ IsMap(tree')
        /\ \A q : q \in DOMAIN tree' <=> \/ New(q)
                                         \/ q \in DOMAIN t /\ ~Replaced(p, sub, q)
                                         \/ q \in Missing(t, p)
        /\ \A q \in DOMAIN t : ~Replaced(p, sub, q) /\ ~New(q) => tree'[q] = t[q]
        /\ \A q \in DOMAIN t : New(q) => tree'[q] = Joined(t[q], sub[Rest(p, q)])
        /\ \A q \in Missing(t, p) : q \in Paths /\ q # <<>> /\ IsPrefix(q, p)
    BY <1>1, <1>4, <2>1, MergedIs
  <2>4. attached' \subseteq dbs' /\ dbs' \subseteq DbPaths
    BY <1>1, <1>2, <2>1 DEF TreeInv
  <2>5. AttachedIn(t)
    BY <1>1, <2>1, <2>2 DEF AttachedIn
  <2>6. AttachedIn(tree')
    <3>1. ASSUME NEW d \in attached' PROVE d \in DOMAIN tree' /\ tree'[d] = Object
      <4>1. d \in DOMAIN t /\ t[d] = Object /\ ~Replaced(p, sub, d) /\ d \in Paths
        BY <2>1, <2>4, <2>5, DbPathIs DEF AttachedIn
      <4>2. CASE New(d)
        <5>1. tree'[d] = sub[Rest(p, d)]
          BY <2>3, <4>1, <4>2, JoinedObject
        <5>2. IsPrefix(p \o Rest(p, d), d)
          BY <4>1, <4>2, RestOf, PrefixOrder
        <5> QED
          BY <2>3, <4>1, <4>2, <5>1, <5>2 DEF Replaced
      <4>3. CASE ~New(d)
        BY <2>3, <4>1, <4>3
      <4> QED
        BY <4>2, <4>3
    <3> QED
      BY <3>1 DEF AttachedIn
  <2>7. dirty' \subseteq {Main} \cup dbs'
    <3>1. \A q \in Missing(t, p) : Holder(q) \in {Main, DbOf(p)}
      BY <2>3, HolderIs
    <3> QED
      BY <1>1, <1>2, <2>1, <3>1 DEF TreeInv, MergeSaves
  <2>8. FilesStep
    BY <1>1, <1>4, <2>1, <2>4, <2>5, SavedOnTheWayType
  <2>9. DOMAIN own' = DbPaths /\ \A d \in DbPaths : IsObject(own'[d]) /\ IsMap(own'[d])
    BY <1>2, <2>3, <2>4, <2>6, SyncOwnType
  <2> QED
    BY <2>3, <2>4, <2>6, <2>7, <2>8, <2>9 DEF TreeInv, AttachedIn
<1> QED
  BY <1>3, <1>4

LEMMA DropDbFile ==
  ASSUME TreeInv, FilesInv, NEW p \in DbPaths, files' = [files EXCEPT ![p] = FileOf(Left(p))]
  PROVE  FilesStep
<1>1. IsObject(Left(p)) /\ IsMap(Left(p))
  BY EmptyTree DEF Left, TreeInv
<1>2. FileOf(Left(p)) \in {NoFile, Left(p)}
  BY <1>1, FileIs
<1>3. IsWritten(p, FileOf(Left(p)))
  BY <1>1, <1>2, DbPathIs DEF IsWritten
<1> QED
  BY <1>3, FilesWith, DbPathIs

LEMMA SavedEmptiedType ==
  ASSUME TreeInv, FilesInv, NEW p \in Paths, SavedEmptied(p)
  PROVE  FilesStep
<1> DEFINE d == DbOf(p)
           w == Emptied(tree, p)
<1>1. CASE UNCHANGED files
  BY <1>1 DEF FilesInv, FilesStep
<1>2. ASSUME d \in {Main} \cup attached, files' = [files EXCEPT ![d] = FileOf(Part(w, d))]
      PROVE  FilesStep
  <2>1. /\ IsTree(w) /\ w[<<>>] = tree[<<>>]
        /\ \A q : q \in DOMAIN w <=> q \in DOMAIN tree /\ (q = p \/ ~IsPrefix(p, q))
        /\ \A q \in DOMAIN w : w[q] = tree[q]
    BY EmptiedIs DEF TreeInv, IsObject
  <2>2. d \in AllDbs
    BY <1>2, DbsAre DEF TreeInv
  <2> HIDE DEF w
  <2>3. IsObject(w)
    BY <2>1 DEF IsObject, TreeInv
  <2>4. d # Main /\ d \in DOMAIN w => w[d] = Object
    BY <1>2, <2>1 DEF TreeInv
  <2>5. IsWritten(d, FileOf(Part(w, d)))
    BY <2>2, <2>3, <2>4, FileOfPart
  <2> QED
    BY <1>2, <2>2, <2>5, FilesWith
<1> QED
  BY <1>1, <1>2 DEF SavedEmptied

LEMMA RmValueType ==
  ASSUME TreeInv, FilesInv, NEW p \in Paths \ {<<>>}, RmValue(p)
  PROVE  TreeInv' /\ FilesStep
<1>1. /\ DbOf(p) \in {Main} \cup dbs /\ tree' = Cut(tree, p)
      /\ attached' = {d \in attached : ~IsPrefix(p, d)} /\ SyncOwn
  BY DEF RmValue
<1>2. /\ IsObject(tree') /\ IsMap(tree')
      /\ \A q \in DOMAIN tree : ~IsPrefix(p, q) => q \in DOMAIN tree' /\ tree'[q] = tree[q]
  <2>1. /\ IsTree(tree') /\ IsMap(tree') /\ tree'[<<>>] = tree[<<>>]
        /\ \A q : q \in DOMAIN tree' <=> q \in DOMAIN tree /\ ~IsPrefix(p, q)
        /\ \A q \in DOMAIN tree' : tree'[q] = tree[q]
    BY <1>1, CutIs DEF TreeInv, IsObject
  <2> QED
    BY <2>1 DEF IsObject, TreeInv
<1>3. AttachedIn(tree') /\ attached' \subseteq dbs \ {p}
  <2>1. \A d \in attached : d \in DOMAIN tree /\ tree[d] = Object /\ d \in dbs
    BY DEF TreeInv
  <2>2. IsPrefix(p, p)
    BY PrefixOrder
  <2> QED
    BY <1>1, <1>2, <2>1, <2>2 DEF AttachedIn
<1>4. DOMAIN own' = DbPaths /\ \A d \in DbPaths : IsObject(own'[d]) /\ IsMap(own'[d])
  BY <1>1, <1>2, <1>3, SyncOwnType DEF TreeInv
<1>5. CASE p \in DbPaths
  <2>1. DropDb(p)
    BY <1>5 DEF RmValue
  <2>2. FilesStep
    BY <1>5, <2>1, DropDbFile DEF DropDb
  <2> QED
    BY <1>2, <1>3, <1>4, <2>1, <2>2 DEF TreeInv, DropDb, AttachedIn
<1>6. CASE p \notin DbPaths
  <2>1. dirty' = dirty \cup {DbOf(p)} /\ SavedEmptied(p) /\ dbs' = dbs
    BY <1>6 DEF RmValue
  <2>2. FilesStep
    BY <2>1, SavedEmptiedType
  <2> QED
    BY <1>1, <1>2, <1>3, <1>4, <2>1, <2>2 DEF TreeInv, AttachedIn
<1> QED
  BY <1>5, <1>6

LEMMA TypeInit == Init => TypeInv
<1> SUFFICES ASSUME Init PROVE TypeInv
  OBVIOUS
<1>1. \A d \in DbPaths : own[d] = EmptyObject
  BY DEF Init
<1>2. TreeInv
  BY <1>1, EmptyTree DEF Init, TreeInv
<1>3. DiskInv
  BY DEF Init, DiskInv, FilesInv, IsFile
<1> QED
  BY <1>2, <1>3 DEF Init, TypeInv

LEMMA TypeStep == RootIsIgnored /\ TypeInv /\ [Next]_vars => TypeInv'
<1> SUFFICES ASSUME RootIsIgnored, TypeInv, [Next]_vars PROVE TypeInv'
  OBVIOUS
<1>1. TreeInv /\ FilesInv /\ DiskInv
  BY DEF TypeInv, DiskInv
\* What a request leaves as it is.
<1>2. ASSUME TreeInv', FilesStep, UNCHANGED <<up, bad, damaged>> PROVE TypeInv'
  BY <1>1, <1>2, FilesKept DEF TypeInv, DiskInv
<1>3. CASE Start
  BY <1>3, StartType
<1>4. CASE Stop \/ Crash
  <2>1. TreeInv'
    BY <1>4, NothingType DEF Stop, Crash
  <2> QED
    BY <1>4, <2>1 DEF Stop, Crash, TypeInv, DiskInv, FilesInv, diskVars
<1>5. ASSUME NEW d \in AllDbs, Damage(d) \/ Save(d) PROVE TypeInv'
  BY <1>5, DamageType, SaveType
<1>6. ASSUME NEW p \in WritePaths, NEW v \in Values, SetValue(p, v) PROVE TypeInv'
  <2>1. p \in Paths \ {<<>>} /\ DbOf(p) \in AllDbs /\ IsValue(v)
    BY PathsAssumption, ValuesAssumption DEF RootIsIgnored
  <2> QED
    BY <1>1, <1>2, <1>6, <2>1, SetValueType DEF SetValue
<1>7. ASSUME NEW i \in Injections, MergeValue(i.path, i.value) PROVE TypeInv'
  <2>1. i.path \in Paths /\ DbOf(i.path) \in AllDbs /\ IsObject(i.value)
    BY PathsAssumption
  <2> QED
    BY <1>1, <1>2, <1>7, <2>1, MergeValueType DEF MergeValue
<1>8. ASSUME NEW p \in RmPaths, RmValue(p) PROVE TypeInv'
  <2>1. p \in Paths \ {<<>>}
    BY PathsAssumption DEF RootIsIgnored
  <2> QED
    BY <1>1, <1>2, <1>8, <2>1, RmValueType DEF RmValue
<1>9. CASE UNCHANGED vars
  BY <1>9 DEF vars, memVars, diskVars, TypeInv, TreeInv, DiskInv, FilesInv
<1> QED
  BY <1>3, <1>4, <1>5, <1>6, <1>7, <1>8, <1>9 DEF Next

(***************************************************************************)
(* Whatever is written, injected, removed, saved and damaged, above the    *)
(* databases too, the walks keep the tree a tree and write nothing but     *)
(* trees, no flush is queued for a database no hash has, and what a hash   *)
(* takes for part of the tree is.                                          *)
(***************************************************************************)
THEOREM TreeIsTree ==
  ASSUME RootIsIgnored
  PROVE  Spec => []TypeOK
<1>1. TypeInv => TypeOK
  BY DEF TypeInv, TreeInv, DiskInv, FilesInv, IsFile, TypeOK
<1> QED
  BY <1>1, TypeInit, TypeStep, PTL DEF Spec

-----------------------------------------------------------------------------
(* The usual requests: none is for the whole of vm or dom-store, a         *)
(* database as a whole is injected and removed but not written, and what   *)
(* is injected at the root is not above the databases.                     *)

UsualRequests ==
    /\ \A p \in WritePaths : p # <<>> /\ p \notin TopPaths \cup DbPaths
    /\ \A p \in RmPaths : p # <<>> /\ p \notin TopPaths
    /\ \A i \in Injections : i.path \notin TopPaths /\ (i.path = <<>> => NoTops(i.value))

\* A malformed content is told from a tree and from no file.
ContentsTold ==
    /\ NoFile \notin Broken
    /\ \A b \in Broken \cup {NoFile} : ~IsTree(b)

\* Hash, tree and objects agree, as HashIsTree says, in the objects too.
HashInv ==
    /\ attached = dbs
    /\ \A d \in DbPaths : d \in dbs <=> d \in DOMAIN tree
    /\ \A q \in TopPaths \cap DOMAIN tree : tree[q] = Object
    /\ \A d \in DbPaths : own[d] = Part(tree, d)

\* What has been said of a usual request is that its path is above no database.
LEMMA AboveNoDb ==
  ASSUME NEW p \in Paths, p # <<>>, p \notin TopPaths
  PROVE  /\ \A d \in DbPaths : IsPrefix(p, d) => p = d
         /\ \A q \in TopPaths : ~IsPrefix(p, q)
<1>1. ASSUME NEW q \in TopPaths, IsPrefix(p, q) PROVE FALSE
  <2>1. q \in Paths /\ q # <<>> /\ Front(q) = <<>>
    BY TopPathIs
  <2>2. p # q
    BY <1>1
  <2>3. IsPrefix(p, <<>>)
    BY <1>1, <2>1, <2>2, PrefixOfFront
  <2> QED
    BY <2>3, PrefixOrder
<1>2. ASSUME NEW d \in DbPaths, IsPrefix(p, d), p # d PROVE FALSE
  <2>1. d \in Paths /\ Front(d) = Top(d) /\ Top(d) \in TopPaths
    BY DbPathIs
  <2>2. IsPrefix(p, Top(d))
    BY <1>2, <2>1, PrefixOfFront
  <2> QED
    BY <1>1, <2>1, <2>2
<1> QED
  BY <1>1, <1>2

\* Objects that are added in two goes.
LEMMA AddedTwice ==
  ASSUME NEW t, NEW u, NEW N, NEW X,
         \A q : q \in DOMAIN u <=> q \in DOMAIN t \/ q \in N,
         \A q \in N : u[q] = Object,
         \A q \in DOMAIN t : q \notin N => u[q] = t[q]
  PROVE  WithObjects(u, X) = WithObjects(t, X \cup N)
<1> DEFINE a == WithObjects(u, X)
           b == WithObjects(t, X \cup N)
<1>1. /\ IsMap(a) /\ \A q : q \in DOMAIN a <=> q \in DOMAIN u \/ q \in X
      /\ \A q \in DOMAIN a : a[q] = IF q \in X THEN Object ELSE u[q]
  BY DEF WithObjects, IsMap
<1>2. /\ IsMap(b) /\ \A q : q \in DOMAIN b <=> q \in DOMAIN t \/ q \in X \/ q \in N
      /\ \A q \in DOMAIN b : b[q] = IF q \in X \/ q \in N THEN Object ELSE t[q]
  BY DEF WithObjects, IsMap
<1> HIDE DEF a, b
<1>3. \A q : q \in DOMAIN a <=> q \in DOMAIN b
  BY <1>1, <1>2
<1>4. \A q \in DOMAIN a : a[q] = b[q]
  BY <1>1, <1>2, <1>3
<1>5. a = b
  BY <1>1, <1>2, <1>3, <1>4, MapsEqual
<1> QED
  BY <1>5 DEF a, b

\* A database that is not in the hash is not in the tree: what createChildDb()
\* puts there are objects the walk would have put there.
LEMMA NewDbIsOnTheWay ==
  ASSUME TreeInv, HashInv, NEW p \in Paths, DbOf(p) \in AllDbs, NEW e \in NewDb(p)
  PROVE  LET t == WithDb(NewDb(p))
             N == {e} \cup Missing(tree, Top(e)) IN
         /\ e \in DbPaths /\ e \in Paths /\ e = DbOf(p)
         /\ \A q \in DOMAIN tree : ~IsPrefix(e, q)
         /\ \A q : q \in DOMAIN t <=> q \in DOMAIN tree \/ q \in N
         /\ \A q \in N : /\ t[q] = Object /\ q \in Paths /\ q # <<>>
                         /\ q \notin DOMAIN tree /\ IsPrefix(q, e)
         /\ \A q \in DOMAIN tree : t[q] = tree[q]
         /\ \A q \in Paths : IsPrefix(q, e) /\ q # <<>> /\ q # e => q = Top(e)
<1>1. e \in DbPaths /\ e \notin dbs /\ e = DbOf(p)
  BY WithDbIs
<1>2. e \in Paths /\ e # <<>> /\ Front(e) = Top(e) /\ Top(e) \in Paths /\ Top(e) # <<>>
      /\ Top(e) \in TopPaths
  BY <1>1, DbPathIs
<1>3. \A q \in Paths : IsPrefix(q, Top(e)) /\ q # <<>> => q = Top(e)
  <2>1. ASSUME NEW q \in Paths, IsPrefix(q, Top(e)), q # <<>>, q # Top(e) PROVE FALSE
    <3>1. IsPrefix(q, Front(Top(e)))
      BY <1>2, <2>1, PrefixOfFront
    <3>2. Front(Top(e)) = <<>>
      BY <1>2, TopPathIs
    <3> QED
      BY <2>1, <3>1, <3>2, PrefixOrder
  <2> QED
    BY <2>1
<1>4. \A q \in Paths : IsPrefix(q, e) /\ q # <<>> /\ q # e => q = Top(e)
  BY <1>2, <1>3, PrefixOfFront
<1>5. ~Blocked(tree, Top(e))
  <2>1. ASSUME NEW q \in PathsTo(Top(e)), q \in DOMAIN tree PROVE tree[q] = Object
    <3>1. q = Top(e)
      BY <1>2, <1>3, <2>1, PathsToIff
    <3> QED
      BY <1>2, <2>1, <3>1 DEF HashInv
  <2> QED
    BY <2>1 DEF Blocked
<1>6. e \notin DOMAIN tree
  BY <1>1 DEF HashInv
<1>7. \A q \in DOMAIN tree : ~IsPrefix(e, q)
  BY <1>2, <1>6, PrefixOfTree DEF TreeInv, IsObject
<1> DEFINE t == WithDb(NewDb(p))
           M == Missing(tree, Top(e))
<1>8. t = Written(tree, e, Object)
  BY <1>5, WithDbIs
<1> HIDE DEF t
<1>9. /\ \A q : q \in DOMAIN t <=> \/ q = e
                                   \/ q \in DOMAIN tree /\ ~IsPrefix(e, q)
                                   \/ q \in M
      /\ t[e] = Object
      /\ \A q \in DOMAIN tree : ~IsPrefix(e, q) => t[q] = tree[q]
      /\ \A q \in M : t[q] = Object /\ q \in Paths /\ q # <<>> /\ IsPrefix(q, e)
                      /\ q \notin DOMAIN tree
  <2>1. IsObject(tree) /\ IsValue(Object) /\ ~Blocked(tree, Front(e))
    BY <1>2, <1>5, ObjectIsValue DEF TreeInv
  <2> QED
    BY <1>2, <1>8, <2>1, WrittenIs
<1>10. /\ \A q : q \in DOMAIN t <=> q \in DOMAIN tree \/ q \in {e} \cup M
       /\ \A q \in {e} \cup M : /\ t[q] = Object /\ q \in Paths /\ q # <<>>
                                /\ q \notin DOMAIN tree /\ IsPrefix(q, e)
       /\ \A q \in DOMAIN tree : t[q] = tree[q]
  BY <1>2, <1>6, <1>7, <1>9, PrefixOrder
<1> QED
  BY <1>1, <1>2, <1>4, <1>7, <1>10 DEF t, M

\* So it makes no difference to what the walk leaves, or has left at one time
\* or another.
LEMMA UsualWalk ==
  ASSUME TreeInv, HashInv, NEW p \in Paths, DbOf(p) \in AllDbs, NEW f \in Paths,
         \A e \in NewDb(p) : IsPrefix(e, f)
  PROVE  LET t == WithDb(NewDb(p)) IN
         /\ Blocked(t, f) <=> Blocked(tree, f)
         /\ Blocked(tree, f) => NewDb(p) = {} /\ t = tree
         /\ WithObjects(t, Missing(t, f)) = WithObjects(tree, Missing(tree, f))
         /\ Missing(t, f) \subseteq Missing(tree, f)
         /\ \A made \in Begun(t, f) : \E m \in Begun(tree, f) :
              WithObjects(t, made) = WithObjects(tree, m)
<1> DEFINE new == NewDb(p)
           t == WithDb(new)
<1>1. CASE new = {}
  <2>1. t = tree
    BY <1>1, WithDbIs
  <2> QED
    BY <1>1, <2>1
<1>2. CASE new # {}
  <2>1. PICK e \in new : TRUE
    BY <1>2
  <2> DEFINE N == {e} \cup Missing(tree, Top(e))
             M == Missing(tree, f)
             L == Missing(t, f)
  <2>2. /\ e \in DbPaths /\ e \in Paths
        /\ \A q \in DOMAIN tree : ~IsPrefix(e, q)
        /\ \A q : q \in DOMAIN t <=> q \in DOMAIN tree \/ q \in N
        /\ \A q \in N : t[q] = Object /\ q \in Paths /\ q # <<>>
                        /\ q \notin DOMAIN tree /\ IsPrefix(q, e)
        /\ \A q \in DOMAIN tree : t[q] = tree[q]
        /\ \A q \in Paths : IsPrefix(q, e) /\ q # <<>> /\ q # e => q = Top(e)
    BY NewDbIsOnTheWay
  <2>3. Top(e) \in TopPaths /\ Top(e) \in Paths /\ Top(e) # <<>>
    BY <2>2, DbPathIs
  <2>4. Top(e) \in DOMAIN tree \/ Top(e) \in N
    BY <2>3, PathsToIff, PrefixOrder DEF Missing
  <2>5. IsPrefix(e, f)
    BY <2>1
  <2> HIDE DEF t, N
  \* A prefix of f is the object above the databases, that of e, or below it.
  <2>6. ASSUME NEW q \in Paths, q # <<>>, IsPrefix(q, f)
        PROVE  q = Top(e) \/ IsPrefix(e, q)
    BY <2>2, <2>5, <2>6, PrefixOrder
  <2>7. ASSUME NEW q \in PathsTo(f) \cap DOMAIN t PROVE t[q] = Object
    <3>1. q \in Paths /\ q # <<>> /\ IsPrefix(q, f)
      BY <2>7, PathsToIff
    <3>2. CASE q \in N
      BY <2>2, <3>2
    <3>3. CASE q \in DOMAIN tree
      <4>1. q = Top(e)
        BY <2>2, <2>6, <3>1, <3>3
      <4> QED
        BY <2>2, <2>3, <3>3, <4>1 DEF HashInv
    <3> QED
      BY <2>2, <3>2, <3>3
  <2>8. ~Blocked(t, f) /\ ~Blocked(tree, f)
    BY <2>2, <2>7 DEF Blocked
  <2>9. \A q : q \in M <=> q \in Paths /\ q # <<>> /\ IsPrefix(q, f) /\ q \notin DOMAIN tree
    BY PathsToIff DEF Missing
  <2>10. \A q : q \in L <=> q \in Paths /\ q # <<>> /\ IsPrefix(q, f) /\ q \notin DOMAIN t
    BY PathsToIff DEF Missing
  <2> HIDE DEF M, L
  <2>11. \A q \in N : q \in M
    BY <2>2, <2>5, <2>9, PrefixOrder
  <2>12. M = L \cup N
    BY <2>2, <2>9, <2>10, <2>11
  <2> DEFINE Bigger(X) == WithObjects(t, X) = WithObjects(tree, X \cup N)
  <2>16. \A X : Bigger(X)
    <3>1. /\ \A q : q \in DOMAIN t <=> q \in DOMAIN tree \/ q \in N
          /\ \A q \in N : t[q] = Object
          /\ \A q \in DOMAIN tree : q \notin N => t[q] = tree[q]
      BY <2>2
    <3>2. ASSUME NEW X PROVE Bigger(X)
      BY <3>1, AddedTwice
    <3> QED
      BY <3>2
  <2>13. WithObjects(t, L) = WithObjects(tree, M)
    <3>1. Bigger(L)
      BY <2>16
    <3> QED
      BY <2>12, <3>1
  <2>14. ASSUME NEW made \in Begun(t, f)
         PROVE  \E m \in Begun(tree, f) : WithObjects(t, made) = WithObjects(tree, m)
    <3>1. PICK n \in 1 .. Len(f) : made = {q \in L : Len(q) <= n}
      BY DEF Begun, L
    <3>2. made # {}
      BY DEF Begun
    <3>3. PICK z \in made : TRUE
      BY <3>2
    <3>4. z \in Paths /\ IsPrefix(e, z) /\ Len(z) <= n
      BY <2>2, <2>4, <2>6, <2>10, <3>1, <3>3
    <3>5. ASSUME NEW q \in N PROVE Len(q) <= n
      <4>1. q \in Paths /\ IsPrefix(q, z)
        BY <2>2, <3>4, PrefixOrder
      <4>2. Len(q) <= Len(z) /\ Len(q) \in Nat /\ Len(z) \in Nat
        BY <3>4, <4>1, PrefixIff DEF Paths
      <4> QED
        BY <3>4, <4>2
    <3> DEFINE m == {q \in M : Len(q) <= n}
    <3>6. m = made \cup N
      BY <2>12, <3>1, <3>5
    <3>7. m \in Begun(tree, f)
      BY <3>2, <3>6 DEF Begun, M
    <3> HIDE DEF m
    <3>8. WithObjects(t, made) = WithObjects(tree, m)
      <4>1. Bigger(made)
        BY <2>16
      <4> QED
        BY <3>6, <4>1
    <3> QED
      BY <3>7, <3>8
  <2>15. /\ Blocked(t, f) <=> Blocked(tree, f)
         /\ ~Blocked(tree, f)
         /\ WithObjects(t, L) = WithObjects(tree, M)
         /\ L \subseteq M
         /\ \A made \in Begun(t, f) : \E m \in Begun(tree, f) :
              WithObjects(t, made) = WithObjects(tree, m)
    BY <2>8, <2>12, <2>13, <2>14
  <2> QED
    BY <2>15 DEF t, L, M
<1> QED
  BY <1>1, <1>2

-----------------------------------------------------------------------------
(* What usual requests do to the databases of a tree                       *)

\* The databases in u are those in t, and e; no top has become a value; what
\* is in no other database than e.
Gains(t, u, e) ==
    /\ \A d \in DbPaths : d \in DOMAIN u <=> d \in DOMAIN t \/ d = e
    /\ \A q \in TopPaths \cap DOMAIN u : u[q] = Object \/ (q \in DOMAIN t /\ u[q] = t[q])
    /\ \A d \in AllDbs : d # e => Part(u, d) = Part(t, d)

LEMMA DbOfFront ==
  ASSUME NEW p \in Paths, p # <<>>, p \notin DbPaths, DbOf(p) \in AllDbs
  PROVE  DbOf(Front(p)) = DbOf(p)
<1>1. Front(p) \in Paths /\ IsPrefix(Front(p), p)
  BY FrontOf
<1>2. CASE DbOf(p) = Main
  BY <1>1, <1>2, DbOfPrefix
<1>3. CASE DbOf(p) \in DbPaths
  <2> DEFINE e == DbOf(p)
  <2>1. IsPrefix(e, p) /\ e # p /\ e \in Paths
    BY <1>3, DbOfIs, DbPathIs
  <2>2. IsPrefix(e, Front(p))
    BY <2>1, PrefixOfFront
  <2> QED
    BY <1>1, <1>3, <2>2, DbOfIs
<1> QED
  BY <1>2, <1>3, DbsAre

LEMMA WrittenGains ==
  ASSUME NEW t, IsObject(t), NEW p \in Paths, p # <<>>, p \notin TopPaths \cup DbPaths,
         DbOf(p) \in AllDbs, NEW v, IsValue(v), ~Blocked(t, Front(p))
  PROVE  Gains(t, Written(t, p, v), DbOf(p))
<1> DEFINE u == Written(t, p, v)
           M == Missing(t, Front(p))
           e == DbOf(p)
<1>1. /\ IsObject(u)
      /\ \A q : q \in DOMAIN u <=> \/ q = p
                                   \/ q \in DOMAIN t /\ ~IsPrefix(p, q)
                                   \/ q \in M
      /\ \A q \in DOMAIN t : ~IsPrefix(p, q) => u[q] = t[q]
      /\ \A q \in M : /\ u[q] = Object /\ q \in Paths /\ q # <<>> /\ IsPrefix(q, p)
                      /\ q # p /\ q \notin DOMAIN t
  BY WrittenIs
<1> HIDE DEF u, M
<1>2. /\ \A d \in DbPaths : ~IsPrefix(p, d) /\ d # p
      /\ \A q \in TopPaths : ~IsPrefix(p, q) /\ q # p
  BY AboveNoDb
<1>3. \A d \in DbPaths : d \in DOMAIN u <=> d \in DOMAIN t \/ d = e
  <2>1. ASSUME NEW d \in DbPaths, d \in M PROVE d = e
    BY <1>1, <2>1, DbOfIs, DbPathIs
  <2>2. ASSUME e \in DbPaths PROVE e \in DOMAIN u
    <3>1. IsPrefix(e, p) /\ e \in Paths /\ e # p
      BY <2>2, DbOfIs, DbPathIs
    <3>2. p \in DOMAIN u
      BY <1>1
    <3> QED
      BY <1>1, <3>1, <3>2, PrefixOfTree DEF IsObject
  <2> HIDE DEF e
  <2> QED
    BY <1>1, <1>2, <2>1, <2>2
<1>4. \A q \in TopPaths \cap DOMAIN u : u[q] = Object \/ (q \in DOMAIN t /\ u[q] = t[q])
  BY <1>1, <1>2
<1>5. ASSUME NEW d \in AllDbs, d # e PROVE Part(u, d) = Part(t, d)
  <2>1. ASSUME NEW q \in Paths, q = <<>> \/ ~(IsPrefix(p, q) \/ IsPrefix(q, p))
        PROVE  Same(t, u, q)
    <3>1. ~IsPrefix(p, q) /\ q # p /\ q \notin M
      BY <1>1, <2>1, PrefixOrder
    <3> QED
      BY <1>1, <3>1 DEF Same
  <2> QED
    BY <1>1, <1>5, <2>1, PartApart DEF IsObject
<1> QED
  BY <1>3, <1>4, <1>5 DEF Gains, u

LEMMA MergedGains ==
  ASSUME NEW t, IsObject(t), NEW p \in Paths, p \notin TopPaths, DbOf(p) \in AllDbs,
         NEW sub, IsObject(sub), p = <<>> => NoTops(sub), ~Blocked(t, p)
  PROVE  /\ Gains(t, Merged(t, p, sub), DbOf(p))
         /\ \A d \in DbPaths : ~Replaced(p, sub, d)
<1> DEFINE u == Merged(t, p, sub)
           M == Missing(t, p)
           e == DbOf(p)
           New(q) == q \in Paths /\ IsPrefix(p, q) /\ Rest(p, q) \in DOMAIN sub
<1>1. /\ IsObject(u)
      /\ \A q : q \in DOMAIN u <=> \/ New(q)
                                   \/ q \in DOMAIN t /\ ~Replaced(p, sub, q)
                                   \/ q \in M
      /\ p \in DOMAIN u
      /\ \A q \in DOMAIN t : ~Replaced(p, sub, q) /\ ~New(q) => u[q] = t[q]
      /\ \A q \in M : /\ u[q] = Object /\ q \in Paths /\ q # <<>> /\ IsPrefix(q, p)
                      /\ q \notin DOMAIN t
  BY MergedIs
<1> HIDE DEF u, M
\* Below the root nothing that is new or replaced is in another database.
<1>2. ASSUME p = <<>>, NEW q \in Paths, New(q) \/ Replaced(p, sub, q)
      PROVE  q = <<>> \/ q[1] \notin Tops
  <2>1. CASE New(q)
    <3>1. Rest(p, q) = q
      <4>1. p \o Rest(p, q) = q /\ Rest(p, q) \in Paths
        BY <2>1, RestOf
      <4>2. \A r \in Paths : <<>> \o r = r
        BY ConcatEmptySeq DEF Paths
      <4> QED
        BY <1>2, <4>1, <4>2
    <3> QED
      BY <1>2, <2>1, <3>1 DEF NoTops
  <2>2. CASE Replaced(p, sub, q)
    <3>1. PICK r \in DOMAIN sub : r \in Paths /\ r # <<>> /\ p \o r \in Paths
                                  /\ IsPrefix(p \o r, q)
      BY <2>2, ReplacedIs
    <3>2. p \o r = r
      BY <1>2, <3>1, ConcatEmptySeq DEF Paths
    <3>3. IsPrefix(r, q) /\ r[1] \notin Tops
      BY <1>2, <3>1, <3>2 DEF NoTops
    <3>4. Len(r) \in Nat \ {0} /\ Len(r) <= Len(q) /\ \A i \in 1 .. Len(r) : r[i] = q[i]
      BY <3>1, <3>3, PrefixIff, FrontOf
    <3>5. 1 \in 1 .. Len(r)
      BY <3>4
    <3> QED
      BY <3>3, <3>4, <3>5
  <2> QED
    BY <1>2, <2>1, <2>2
<1>3. ASSUME NEW q \in Paths, q # <<>>, q[1] \in Tops, New(q) \/ Replaced(p, sub, q)
      PROVE  p # <<>> /\ IsPrefix(p, q)
  BY <1>2, <1>3, ReplacedIs
<1>4. \A d \in DbPaths : New(d) \/ Replaced(p, sub, d) => d = p
  BY <1>3, AboveNoDb, DbPathIs
<1>5. \A d \in DbPaths : ~Replaced(p, sub, d)
  BY <1>4, ReplacedIs, DbPathIs
<1>6. \A q \in TopPaths : ~New(q) /\ ~Replaced(p, sub, q)
  BY <1>3, AboveNoDb, TopPathIs
<1>7. \A d \in DbPaths : d \in DOMAIN u <=> d \in DOMAIN t \/ d = e
  <2>1. ASSUME NEW d \in DbPaths, d \in M \/ New(d) PROVE d = e
    <3>1. d \in Paths /\ IsPrefix(d, p)
      BY <1>1, <1>4, <2>1, DbPathIs, PrefixOrder
    <3> QED
      BY <3>1, DbOfIs
  <2>2. ASSUME e \in DbPaths PROVE e \in DOMAIN u
    <3>1. IsPrefix(e, p) /\ e \in Paths
      BY <2>2, DbOfIs, DbPathIs
    <3> QED
      BY <1>1, <3>1, PrefixOfTree DEF IsObject
  <2> HIDE DEF e
  <2> QED
    BY <1>1, <1>5, <2>1, <2>2
<1>8. \A q \in TopPaths \cap DOMAIN u : u[q] = Object \/ (q \in DOMAIN t /\ u[q] = t[q])
  BY <1>1, <1>6
<1>9. ASSUME NEW d \in AllDbs, d # e PROVE Part(u, d) = Part(t, d)
  <2>1. ASSUME NEW q \in Paths, ~New(q), ~Replaced(p, sub, q), q \notin M
        PROVE  Same(t, u, q)
    BY <1>1, <2>1 DEF Same
  <2>2. CASE p # <<>>
    <3>1. ASSUME NEW q \in Paths, q = <<>> \/ ~(IsPrefix(p, q) \/ IsPrefix(q, p))
          PROVE  Same(t, u, q)
      <4>1. ~New(q) /\ ~Replaced(p, sub, q) /\ q \notin M
        BY <1>1, <2>2, <3>1, PrefixOrder, ReplacedIs
      <4> QED
        BY <2>1, <4>1
    <3> QED
      BY <1>1, <1>9, <2>2, <3>1, PartApart DEF IsObject
  <2>3. CASE p = <<>>
    <3>1. e = Main
      BY <2>3, EmptyPath DEF DbOf
    <3>2. d \in DbPaths
      BY <1>9, <3>1, DbsAre
    <3>3. ASSUME NEW q \in Paths, Belongs(q, d) PROVE Same(t, u, q)
      <4>1. IsPrefix(d, q) /\ d \in Paths
        BY <3>2, <3>3, DbPathIs DEF Belongs
      <4>2. DbOf(q) \in DbPaths
        BY <3>2, <4>1, DbOfIs
      <4>3. q # <<>> /\ q[1] \in Tops
        BY <4>2, InDatabase
      <4>4. ~New(q) /\ ~Replaced(p, sub, q)
        BY <1>3, <2>3, <4>3
      <4>5. q \notin M
        BY <1>1, <2>3, PrefixOrder
      <4> QED
        BY <2>1, <4>4, <4>5
    <3> QED
      BY <1>1, <3>3, PartSame DEF IsObject
  <2> QED
    BY <2>2, <2>3
<1> QED
  BY <1>5, <1>7, <1>8, <1>9 DEF Gains, u

LEMMA CutKeeps ==
  ASSUME NEW t, IsObject(t), NEW p \in Paths, p # <<>>, p \notin TopPaths
  PROVE  LET u == Cut(t, p) IN
         /\ \A d \in DbPaths : d \in DOMAIN u <=> d \in DOMAIN t /\ d # p
         /\ \A q \in TopPaths \cap DOMAIN u : q \in DOMAIN t /\ u[q] = t[q]
         /\ \A d \in AllDbs : d # DbOf(p) => Part(u, d) = Part(t, d)
<1> DEFINE u == Cut(t, p)
<1>1. /\ IsTree(u)
      /\ \A q : q \in DOMAIN u <=> q \in DOMAIN t /\ ~IsPrefix(p, q)
      /\ \A q \in DOMAIN u : u[q] = t[q]
  BY CutIs DEF IsObject
<1> HIDE DEF u
<1>2. /\ \A d \in DbPaths : IsPrefix(p, d) <=> p = d
      /\ \A q \in TopPaths : ~IsPrefix(p, q)
  BY AboveNoDb, PrefixOrder
<1>3. ASSUME NEW d \in AllDbs, d # DbOf(p) PROVE Part(u, d) = Part(t, d)
  <2>1. ASSUME NEW q \in Paths, q = <<>> \/ ~(IsPrefix(p, q) \/ IsPrefix(q, p))
        PROVE  Same(t, u, q)
    BY <1>1, <2>1, PrefixOrder DEF Same
  <2> QED
    BY <1>1, <1>3, <2>1, PartApart DEF IsObject
<1>4. \A d \in DbPaths : d \in DOMAIN u <=> d \in DOMAIN t /\ d # p
  BY <1>1, <1>2
<1>5. \A q \in TopPaths \cap DOMAIN u : q \in DOMAIN t /\ u[q] = t[q]
  BY <1>1
<1> QED
  BY <1>3, <1>4, <1>5 DEF u

-----------------------------------------------------------------------------
(* Hash and tree                                                           *)

LEMMA SyncOwnHash ==
  ASSUME SyncOwn, attached' = dbs', \A d \in DbPaths : d \in dbs' <=> d \in DOMAIN tree'
  PROVE  \A d \in DbPaths : own'[d] = Part(tree', d)
<1>1. \A d \in DbPaths :
        own'[d] = IF d \in attached' THEN At(tree', d)
                  ELSE IF d \in dbs \cap dbs' THEN own[d] ELSE EmptyObject
  BY DEF SyncOwn
<1> QED
  BY <1>1, DbPathIs DEF Part

LEMMA HashKept ==
  ASSUME TreeInv, HashInv, NEW e \in AllDbs, Gains(tree, tree', e), SyncOwn,
         attached' = dbs', dbs' = dbs \cup ({e} \ {Main})
  PROVE  HashInv'
<1>1. \A d \in DbPaths : d \in dbs' <=> d \in DOMAIN tree'
  BY DbPathIs DEF HashInv, Gains
<1>2. \A q \in TopPaths \cap DOMAIN tree' : tree'[q] = Object
  BY DEF HashInv, Gains
<1>3. \A d \in DbPaths : own'[d] = Part(tree', d)
  BY <1>1, SyncOwnHash
<1> QED
  BY <1>1, <1>2, <1>3 DEF HashInv

\* What a usual request leaves, of which two steps in one may be a save.
SavedOnce(e, trees) ==
    \/ UNCHANGED files
    \/ \E t \in trees : files' = [files EXCEPT ![e] = FileOf(Part(t, e))]

Usual(e, trees) ==
    /\ Gains(tree, tree', e)
    /\ attached' = dbs' /\ dbs' = dbs \cup ({e} \ {Main})
    /\ dirty \subseteq dirty' /\ e \in dirty'
    /\ SavedOnce(e, trees)

LEMMA UsualSetValue ==
  ASSUME TreeInv, HashInv, NEW p \in Paths, p # <<>>, p \notin TopPaths \cup DbPaths,
         DbOf(p) \in AllDbs, NEW v, IsValue(v), SetValue(p, v)
  PROVE  /\ tree' = Written(tree, p, v)
         /\ Blocked(tree, Front(p)) => UNCHANGED <<tree, dbs, attached, dirty, files>>
         /\ ~Blocked(tree, Front(p)) => Usual(DbOf(p), OnTheWay(tree, Front(p)))
<1> DEFINE new == NewDb(p)
           t == WithDb(new)
           f == Front(p)
           e == DbOf(p)
<1>1. f \in Paths /\ DbOf(f) = e
  BY FrontOf, DbOfFront
<1>2. \A d \in new : d \in DbPaths /\ d = e
  BY WithDbIs
<1>3. \A d \in new : IsPrefix(d, f)
  BY <1>1, <1>2, DbOfIs
<1>4. /\ Blocked(t, f) <=> Blocked(tree, f)
      /\ Blocked(tree, f) => new = {} /\ t = tree
      /\ WithObjects(t, Missing(t, f)) = WithObjects(tree, Missing(tree, f))
      /\ \A made \in Begun(t, f) : \E m \in Begun(tree, f) :
           WithObjects(t, made) = WithObjects(tree, m)
  BY <1>1, <1>3, UsualWalk
<1>5. dbs' = dbs \cup new /\ dbs \cup new = dbs \cup ({e} \ {Main})
  BY DEF SetValue, NewDb, TreeInv
<1>6. /\ Blocked(t, f) => GiveUp(t, new)
      /\ ~Blocked(t, f) =>
           /\ tree' = Put(WithObjects(t, Missing(t, f)), p, Leaf(v))
           /\ attached' = {d \in attached \cup new : ~IsPrefix(p, d)}
           /\ dirty' = dirty \cup {Holder(q) : q \in Missing(t, f)} \cup {Holder(p)}
           /\ SavedOnTheWay(t, f)
  BY DEF SetValue
<1> HIDE DEF new, t
<1>7. CASE Blocked(tree, f)
  <2>1. tree' = tree /\ dbs' = dbs /\ attached' = attached /\ dirty' = dirty /\ files' = files
    BY <1>4, <1>5, <1>6, <1>7 DEF GiveUp
  <2> QED
    BY <1>7, <2>1 DEF Written
<1>8. CASE ~Blocked(tree, f)
  <2>1. tree' = Written(tree, p, v)
    BY <1>4, <1>6, <1>8 DEF Written
  <2>2. Gains(tree, tree', e)
    BY <1>8, <2>1, WrittenGains DEF TreeInv
  <2>3. attached' = dbs'
    <3>1. \A d \in attached \cup new : ~IsPrefix(p, d)
      BY <1>2, AboveNoDb DEF TreeInv
    <3> QED
      BY <1>4, <1>5, <1>6, <1>8, <3>1 DEF HashInv
  <2>4. dirty \subseteq dirty' /\ e \in dirty'
    BY <1>1, <1>4, <1>6, <1>8 DEF Holder
  <2>5. SavedOnce(e, OnTheWay(tree, f))
    <3>1. CASE UNCHANGED files
      BY <3>1 DEF SavedOnce
    <3>2. ASSUME NEW made \in Begun(t, f),
                 files' = [files EXCEPT ![e] = FileOf(Part(WithObjects(t, made), e))]
          PROVE  SavedOnce(e, OnTheWay(tree, f))
      <4>1. PICK m \in Begun(tree, f) : WithObjects(t, made) = WithObjects(tree, m)
        BY <1>4
      <4> DEFINE w == WithObjects(tree, m)
      <4>2. w \in OnTheWay(tree, f)
        BY <1>8 DEF OnTheWay
      <4>3. files' = [files EXCEPT ![e] = FileOf(Part(w, e))]
        BY <3>2, <4>1
      <4> HIDE DEF w
      <4> QED
        BY <4>2, <4>3 DEF SavedOnce
    <3> QED
      BY <1>1, <1>4, <1>6, <1>8, <3>1, <3>2 DEF SavedOnTheWay
  <2> QED
    BY <1>5, <1>8, <2>1, <2>2, <2>3, <2>4, <2>5 DEF Usual
<1> QED
  BY <1>7, <1>8

LEMMA UsualMergeValue ==
  ASSUME TreeInv, HashInv, NEW p \in Paths, p \notin TopPaths, DbOf(p) \in AllDbs,
         NEW sub, IsObject(sub), p = <<>> => NoTops(sub), MergeValue(p, sub)
  PROVE  /\ tree' = Merged(tree, p, sub)
         /\ Blocked(tree, p) => UNCHANGED <<tree, dbs, attached, dirty, files>>
         /\ ~Blocked(tree, p) => Usual(DbOf(p), OnTheWay(tree, p))
<1> DEFINE new == NewDb(p)
           t == WithDb(new)
           e == DbOf(p)
<1>1. \A d \in new : d \in DbPaths /\ d = e
  BY WithDbIs
<1>2. \A d \in new : IsPrefix(d, p)
  BY <1>1, DbOfIs
<1>3. /\ Blocked(t, p) <=> Blocked(tree, p)
      /\ Blocked(tree, p) => new = {} /\ t = tree
      /\ WithObjects(t, Missing(t, p)) = WithObjects(tree, Missing(tree, p))
      /\ \A made \in Begun(t, p) : \E m \in Begun(tree, p) :
           WithObjects(t, made) = WithObjects(tree, m)
  BY <1>2, UsualWalk
<1>4. dbs' = dbs \cup new /\ dbs \cup new = dbs \cup ({e} \ {Main})
  BY DEF MergeValue, NewDb, TreeInv
<1>5. /\ Blocked(t, p) => GiveUp(t, new)
      /\ ~Blocked(t, p) =>
           /\ tree' = Unite(WithObjects(t, Missing(t, p)), p, sub)
           /\ attached' = {d \in attached \cup new : ~Replaced(p, sub, d)}
           /\ dirty' = dirty \cup MergeSaves(t, p)
           /\ SavedOnTheWay(t, p)
  BY DEF MergeValue
<1> HIDE DEF new, t
<1>6. CASE Blocked(tree, p)
  <2>1. tree' = tree /\ dbs' = dbs /\ attached' = attached /\ dirty' = dirty /\ files' = files
    BY <1>3, <1>4, <1>5, <1>6 DEF GiveUp
  <2> QED
    BY <1>6, <2>1 DEF Merged
<1>7. CASE ~Blocked(tree, p)
  <2>1. tree' = Merged(tree, p, sub)
    BY <1>3, <1>5, <1>7 DEF Merged
  <2>2. Gains(tree, tree', e) /\ \A d \in DbPaths : ~Replaced(p, sub, d)
    BY <1>7, <2>1, MergedGains DEF TreeInv
  <2>3. attached' = dbs'
    BY <1>1, <1>3, <1>4, <1>5, <1>7, <2>2 DEF HashInv, TreeInv
  <2>4. dirty \subseteq dirty' /\ e \in dirty'
    BY <1>3, <1>5, <1>7 DEF MergeSaves
  <2>5. SavedOnce(e, OnTheWay(tree, p))
    <3>1. CASE UNCHANGED files
      BY <3>1 DEF SavedOnce
    <3>2. ASSUME NEW made \in Begun(t, p),
                 files' = [files EXCEPT ![e] = FileOf(Part(WithObjects(t, made), e))]
          PROVE  SavedOnce(e, OnTheWay(tree, p))
      <4>1. PICK m \in Begun(tree, p) : WithObjects(t, made) = WithObjects(tree, m)
        BY <1>3
      <4> DEFINE w == WithObjects(tree, m)
      <4>2. w \in OnTheWay(tree, p)
        BY <1>7 DEF OnTheWay
      <4>3. files' = [files EXCEPT ![e] = FileOf(Part(w, e))]
        BY <3>2, <4>1
      <4> HIDE DEF w
      <4> QED
        BY <4>2, <4>3 DEF SavedOnce
    <3> QED
      BY <1>3, <1>5, <1>7, <3>1, <3>2 DEF SavedOnTheWay
  <2> QED
    BY <1>4, <1>7, <2>1, <2>2, <2>3, <2>4, <2>5 DEF Usual
<1> QED
  BY <1>6, <1>7

LEMMA UsualRmDb ==
  ASSUME TreeInv, HashInv, NEW p \in DbPaths, RmValue(p)
  PROVE  /\ tree' = Cut(tree, p) /\ p \in DOMAIN tree
         /\ files' = [files EXCEPT ![p] = NoFile]
         /\ dirty' = dirty \ {p}
         /\ HashInv'
<1>1. p \in Paths /\ p # <<>> /\ p \notin TopPaths /\ p # Main /\ DbOf(p) = p
  <2>1. p \in Paths /\ Len(p) = 2 /\ p # <<>> /\ p # Main
    BY DbPathIs
  <2> QED
    BY <2>1, TopPathIs, DbOfIs, PrefixOrder
<1>2. /\ p \in dbs /\ tree' = Cut(tree, p) /\ DropDb(p) /\ SyncOwn
      /\ attached' = {d \in attached : ~IsPrefix(p, d)}
  BY <1>1 DEF RmValue
<1>3. p \in DOMAIN tree /\ p \in attached
  BY <1>2 DEF HashInv
<1>4. files' = [files EXCEPT ![p] = NoFile] /\ dirty' = dirty \ {p} /\ dbs' = dbs \ {p}
  BY <1>2, <1>3 DEF DropDb, Left, FileOf
<1>5. attached' = dbs'
  <2>1. \A d \in dbs : IsPrefix(p, d) <=> d = p
    BY <1>1, DbInDb, PrefixOrder DEF TreeInv
  <2> QED
    BY <1>2, <1>4, <2>1 DEF HashInv
<1>6. /\ \A d \in DbPaths : d \in DOMAIN tree' <=> d \in DOMAIN tree /\ d # p
      /\ \A q \in TopPaths \cap DOMAIN tree' : q \in DOMAIN tree /\ tree'[q] = tree[q]
  BY <1>1, <1>2, CutKeeps DEF TreeInv
<1>7. \A d \in DbPaths : d \in dbs' <=> d \in DOMAIN tree'
  BY <1>4, <1>6 DEF HashInv
<1>8. \A d \in DbPaths : own'[d] = Part(tree', d)
  BY <1>2, <1>5, <1>7, SyncOwnHash
<1>9. HashInv'
  BY <1>5, <1>6, <1>7, <1>8 DEF HashInv
<1> QED
  BY <1>2, <1>3, <1>4, <1>9

LEMMA UsualRmKey ==
  ASSUME TreeInv, HashInv, NEW p \in Paths, p # <<>>, p \notin TopPaths \cup DbPaths,
         RmValue(p)
  PROVE  /\ tree' = Cut(tree, p)
         /\ DbOf(p) \in AllDbs
         /\ Usual(DbOf(p), {Emptied(tree, p)})
<1> DEFINE e == DbOf(p)
<1>1. /\ e \in {Main} \cup dbs /\ tree' = Cut(tree, p) /\ SyncOwn
      /\ attached' = {d \in attached : ~IsPrefix(p, d)}
      /\ dirty' = dirty \cup {e} /\ SavedEmptied(p) /\ dbs' = dbs
  BY DEF RmValue
<1>2. e \in AllDbs
  BY <1>1, DbsAre DEF TreeInv
<1>3. attached' = dbs' /\ dbs' = dbs \cup ({e} \ {Main})
  <2>1. \A d \in attached : ~IsPrefix(p, d)
    BY AboveNoDb DEF TreeInv
  <2> QED
    BY <1>1, <2>1 DEF HashInv
<1>4. Gains(tree, tree', e)
  <2>1. /\ \A d \in DbPaths : d \in DOMAIN tree' <=> d \in DOMAIN tree /\ d # p
        /\ \A q \in TopPaths \cap DOMAIN tree' : q \in DOMAIN tree /\ tree'[q] = tree[q]
        /\ \A d \in AllDbs : d # e => Part(tree', d) = Part(tree, d)
    BY <1>1, CutKeeps DEF TreeInv
  <2>2. \A d \in DbPaths : d = e => d \in DOMAIN tree
    BY <1>1, DbPathIs DEF HashInv
  <2> QED
    BY <2>1, <2>2 DEF Gains
<1>5. SavedOnce(e, {Emptied(tree, p)})
  BY <1>1 DEF SavedEmptied, SavedOnce
<1> QED
  BY <1>1, <1>2, <1>3, <1>4, <1>5 DEF Usual

LEMMA NothingHash ==
  ASSUME Nothing
  PROVE  HashInv'
<1>1. \A d \in DbPaths : own'[d] = EmptyObject /\ d \notin DOMAIN tree'
  BY EmptyTree, DbPathIs DEF Nothing
<1>2. \A q \in TopPaths : q \notin DOMAIN tree'
  BY EmptyTree, TopPathIs DEF Nothing
<1> QED
  BY <1>1, <1>2, DbPathIs DEF Nothing, HashInv, Part

\* What a start makes of the files.
LEMMA StartTree ==
  ASSUME FilesInv, Start
  PROVE  /\ \A d \in DbPaths : d \in DOMAIN tree' <=> Stored(d) # NoFile
         /\ \A d \in DbPaths : d \in dbs' <=> Stored(d) # NoFile
         /\ \A q \in TopPaths \cap DOMAIN tree' : tree'[q] = Object
         /\ \A d \in Lasting : Part(tree', d) = Content(Stored(d))
<1> DEFINE f == [d \in AllDbs |-> Stored(d)]
<1>1. /\ Loadable(f) /\ \A d \in AllDbs : f[d] = Stored(d)
      /\ \A d \in AllDbs : Stored(d) # NoFile => d \in Lasting
  BY StoredIs
<1>2. tree' = TreeOf(f) /\ dbs' = Loaded
  BY DEF Start
<1> HIDE DEF f
<1>3. /\ \A d \in DbPaths : d \in DOMAIN tree' <=> d \in Lasting /\ f[d] # NoFile
      /\ \A q \in TopPaths \cap DOMAIN tree' : tree'[q] = Object
      /\ \A d \in Lasting : Part(tree', d) = Content(f[d])
  BY <1>1, <1>2, TreeOfIs
<1>4. \A d \in Lasting : d \in AllDbs
  BY DEF Lasting
<1> QED
  BY <1>1, <1>2, <1>3, <1>4, DbsAre DEF Loaded

LEMMA StartHash ==
  ASSUME FilesInv, Start
  PROVE  HashInv'
<1>1. /\ \A d \in DbPaths : d \in DOMAIN tree' <=> Stored(d) # NoFile
      /\ \A d \in DbPaths : d \in dbs' <=> Stored(d) # NoFile
      /\ \A q \in TopPaths \cap DOMAIN tree' : tree'[q] = Object
      /\ \A d \in Lasting : Part(tree', d) = Content(Stored(d))
  BY StartTree
<1>2. attached' = dbs' /\ \A d \in DbPaths : own'[d] = Content(Stored(d))
  BY DEF Start
<1>3. \A d \in DbPaths : own'[d] = Part(tree', d)
  <2>1. ASSUME NEW d \in DbPaths, Stored(d) = NoFile PROVE own'[d] = Part(tree', d)
    BY <1>1, <1>2, <2>1, DbPathIs DEF Content, Part
  <2>2. ASSUME NEW d \in DbPaths, Stored(d) # NoFile PROVE own'[d] = Part(tree', d)
    <3>1. d \in Lasting
      BY <2>2, DbPathIs, StoredIs
    <3> QED
      BY <1>1, <1>2, <3>1
  <2> QED
    BY <2>1, <2>2
<1> QED
  BY <1>1, <1>2, <1>3 DEF HashInv

\* What the assumptions say of a request.
LEMMA Requested ==
  ASSUME UsualRequests
  PROVE  /\ RootIsIgnored
         /\ \A p \in WritePaths : p \in Paths /\ p # <<>> /\ p \notin TopPaths \cup DbPaths
                                  /\ DbOf(p) \in AllDbs
         /\ \A v \in Values : IsValue(v)
         /\ \A i \in Injections : /\ i.path \in Paths /\ i.path \notin TopPaths
                                  /\ DbOf(i.path) \in AllDbs /\ IsObject(i.value)
                                  /\ i.path = <<>> => NoTops(i.value)
         /\ \A p \in RmPaths : p \in Paths /\ p # <<>> /\ p \notin TopPaths
  BY PathsAssumption, ValuesAssumption DEF UsualRequests, RootIsIgnored

\* A request that walks through, and one that gives up.
LEMMA HashUsual ==
  ASSUME TreeInv, HashInv, NEW e \in AllDbs, NEW trees, SyncOwn,
         UNCHANGED <<tree, dbs, attached>> \/ Usual(e, trees)
  PROVE  HashInv'
<1>1. CASE Usual(e, trees)
  BY <1>1, HashKept DEF Usual
<1>2. CASE UNCHANGED <<tree, dbs, attached>>
  <2>1. attached' = dbs' /\ \A d \in DbPaths : d \in dbs' <=> d \in DOMAIN tree'
    BY <1>2 DEF HashInv
  <2>2. \A d \in DbPaths : own'[d] = Part(tree', d)
    BY <1>2, <2>1, SyncOwnHash
  <2> QED
    BY <1>2, <2>1, <2>2 DEF HashInv
<1> QED
  BY <1>1, <1>2

LEMMA HashSetValue ==
  ASSUME TreeInv, HashInv, NEW p \in Paths, p # <<>>, p \notin TopPaths \cup DbPaths,
         DbOf(p) \in AllDbs, NEW v, IsValue(v), SetValue(p, v)
  PROVE  HashInv'
<1>1. \/ UNCHANGED <<tree, dbs, attached>>
      \/ Usual(DbOf(p), OnTheWay(tree, Front(p)))
  BY UsualSetValue
<1> QED
  BY <1>1, HashUsual DEF SetValue

LEMMA HashMergeValue ==
  ASSUME TreeInv, HashInv, NEW p \in Paths, p \notin TopPaths, DbOf(p) \in AllDbs,
         NEW sub, IsObject(sub), p = <<>> => NoTops(sub), MergeValue(p, sub)
  PROVE  HashInv'
<1>1. UNCHANGED <<tree, dbs, attached>> \/ Usual(DbOf(p), OnTheWay(tree, p))
  BY UsualMergeValue
<1> QED
  BY <1>1, HashUsual DEF MergeValue

LEMMA HashRmValue ==
  ASSUME TreeInv, HashInv, NEW p \in Paths, p # <<>>, p \notin TopPaths, RmValue(p)
  PROVE  HashInv'
<1>1. CASE p \in DbPaths
  BY <1>1, UsualRmDb
<1>2. CASE p \notin DbPaths
  <2>1. DbOf(p) \in AllDbs /\ Usual(DbOf(p), {Emptied(tree, p)})
    BY <1>2, UsualRmKey
  <2> QED
    BY <2>1, HashUsual DEF RmValue
<1> QED
  BY <1>1, <1>2

LEMMA HashStep == UsualRequests /\ TypeInv /\ HashInv /\ [Next]_vars => HashInv'
<1> SUFFICES ASSUME UsualRequests, TypeInv, HashInv, [Next]_vars PROVE HashInv'
  OBVIOUS
<1>1. TreeInv /\ FilesInv
  BY DEF TypeInv, DiskInv
<1>2. ASSUME UNCHANGED <<tree, dbs, attached, own>> PROVE HashInv'
  BY <1>2 DEF HashInv
<1>3. CASE Start
  BY <1>1, <1>3, StartHash
<1>4. CASE Stop \/ Crash
  BY <1>4, NothingHash DEF Stop, Crash
<1>5. ASSUME NEW d \in AllDbs, Damage(d) \/ Save(d) PROVE HashInv'
  BY <1>2, <1>5 DEF Damage, Save, memVars
<1>6. ASSUME NEW p \in WritePaths, NEW v \in Values, SetValue(p, v) PROVE HashInv'
  BY <1>1, <1>6, Requested, HashSetValue
<1>7. ASSUME NEW i \in Injections, MergeValue(i.path, i.value) PROVE HashInv'
  <2>1. /\ i.path \in Paths /\ i.path \notin TopPaths /\ DbOf(i.path) \in AllDbs
        /\ IsObject(i.value) /\ (i.path = <<>> => NoTops(i.value))
    BY Requested
  <2> QED
    BY <1>1, <1>7, <2>1, HashMergeValue
<1>8. ASSUME NEW p \in RmPaths, RmValue(p) PROVE HashInv'
  BY <1>1, <1>8, Requested, HashRmValue
<1>9. CASE UNCHANGED vars
  BY <1>2, <1>9 DEF vars, memVars
<1> QED
  BY <1>3, <1>4, <1>5, <1>6, <1>7, <1>8, <1>9 DEF Next

LEMMA HashInit == Init => HashInv
<1> SUFFICES ASSUME Init PROVE HashInv
  OBVIOUS
<1>1. \A d \in DbPaths : own[d] = EmptyObject /\ d \notin DOMAIN tree
  BY EmptyTree, DbPathIs DEF Init
<1>2. \A q \in TopPaths : q \notin DOMAIN tree
  BY EmptyTree, TopPathIs DEF Init
<1> QED
  BY <1>1, <1>2, DbPathIs DEF Init, HashInv, Part

(***************************************************************************)
(* Usual requests never part hash and tree: lookupDb finds a database      *)
(* exactly where the tree has an object, and it is that object, so that    *)
(* what is shown of a database is what its flush saves.                    *)
(***************************************************************************)
THEOREM HashesAreTree ==
  ASSUME UsualRequests
  PROVE  Spec => []HashIsTree
<1>1. HashInv => HashIsTree
  BY DEF HashInv, HashIsTree
<1>2. RootIsIgnored
  BY Requested
<1> QED
  BY <1>1, <1>2, TypeInit, TypeStep, HashInit, HashStep, PTL DEF Spec

-----------------------------------------------------------------------------
(* Tree and files                                                          *)

\* What is not queued is saved, and what is not there has no file.
SavedInv ==
    up => /\ \A d \in Lasting \ dirty : Content(Stored(d)) = Part(tree, d)
          /\ \A d \in DbPaths \cap Lasting : d \notin DOMAIN tree => files[d] = NoFile

LEMMA SavedReads ==
  ASSUME ContentsTold, NEW d \in AllDbs, NEW x, IsObject(x), files'[d] = FileOf(x)
  PROVE  /\ d \in Lasting => Stored(d)' = FileOf(x) /\ Content(Stored(d)') = x
         /\ d \notin Lasting => Stored(d)' = NoFile
<1>1. FileOf(x) \in {NoFile, x} /\ Content(FileOf(x)) = x
  BY FileIs DEF ContentsTold
<1>2. FileOf(x) \notin Broken
  BY <1>1 DEF ContentsTold, IsObject
<1>3. Stored(d)' = IF d \notin Lasting THEN NoFile
                   ELSE IF files'[d] \in Broken THEN EmptyObject
                   ELSE files'[d]
  BY DEF Stored
<1> QED
  BY <1>1, <1>2, <1>3

LEMMA StoredSame ==
  ASSUME NEW d, files'[d] = files[d]
  PROVE  Stored(d)' = Stored(d)
  BY DEF Stored

LEMMA TextIs ==
  ASSUME TreeInv, HashInv, NEW d \in {Main} \cup dbs
  PROVE  /\ Text(d) = Part(tree, d) /\ d \in AllDbs
         /\ IsObject(Part(tree, d)) /\ IsMap(Part(tree, d))
<1>1. d \in AllDbs /\ (d # Main => d \in DbPaths)
  BY DbsAre DEF TreeInv
<1>2. Text(d) = Part(tree, d)
  BY <1>1 DEF Text, HashInv, Part
<1>3. IsObject(tree) /\ (d # Main => tree[d] = Object)
  BY DEF TreeInv, HashInv
<1> QED
  BY <1>1, <1>2, <1>3, PartIs

\* What a save that comes in the middle of a request leaves alone.
LEMMA SavedElsewhere ==
  ASSUME NEW e, NEW trees, SavedOnce(e, trees), NEW d \in AllDbs, d # e, FilesInv
  PROVE  files'[d] = files[d]
  BY DEF SavedOnce, FilesInv

LEMMA SavedKept ==
  ASSUME TypeInv, HashInv, HashInv', SavedInv, NEW e \in AllDbs, NEW trees,
         Usual(e, trees), UNCHANGED up
  PROVE  SavedInv'
<1>1. FilesInv
  BY DEF TypeInv, DiskInv
<1>2. \A d \in AllDbs : d # e => files'[d] = files[d] /\ Stored(d)' = Stored(d)
  BY <1>1, SavedElsewhere, StoredSame DEF Usual
<1>3. \A d \in Lasting : d \in AllDbs
  BY DEF Lasting
<1>4. \A d \in DbPaths : d \in DOMAIN tree' <=> d \in DOMAIN tree \/ d = e
  BY DEF Usual, Gains
<1>5. ASSUME up, NEW d \in Lasting \ dirty' PROVE Content(Stored(d)') = Part(tree', d)
  <2>1. d # e /\ d \notin dirty
    BY DEF Usual
  <2>2. Part(tree', d) = Part(tree, d)
    BY <1>3, <2>1 DEF Usual, Gains
  <2> QED
    BY <1>2, <1>3, <1>5, <2>1, <2>2 DEF SavedInv
<1>6. ASSUME up, NEW d \in DbPaths \cap Lasting, d \notin DOMAIN tree' PROVE files'[d] = NoFile
  BY <1>2, <1>3, <1>4, <1>6 DEF SavedInv
<1>7. up' = up
  OBVIOUS
<1> QED
  BY <1>5, <1>6, <1>7 DEF SavedInv

LEMMA SavedStep ==
  UsualRequests /\ ContentsTold /\ TypeInv /\ HashInv /\ SavedInv /\ [Next]_vars => SavedInv'
<1> SUFFICES ASSUME UsualRequests, ContentsTold, TypeInv, HashInv, SavedInv, [Next]_vars
             PROVE  SavedInv'
  OBVIOUS
<1>1. TreeInv /\ FilesInv /\ HashInv'
  BY HashStep DEF TypeInv, DiskInv
<1>2. ASSUME UNCHANGED <<up, tree, dirty, files>> PROVE SavedInv'
  BY <1>2 DEF SavedInv, Stored
<1>3. CASE Start
  <2>1. /\ \A d \in DbPaths : d \in DOMAIN tree' <=> Stored(d) # NoFile
        /\ \A d \in Lasting : Part(tree', d) = Content(Stored(d))
    BY <1>1, <1>3, StartTree
  <2>2. \A d \in AllDbs : files'[d] = IF d \in MovedAway THEN NoFile ELSE files[d]
    BY <1>3 DEF Start
  <2>3. \A d \in Lasting : d \in AllDbs
    BY DEF Lasting
  <2>4. ASSUME NEW d \in Lasting PROVE Content(Stored(d)') = Part(tree', d)
    <3>1. CASE d \in MovedAway
      <4>1. Stored(d) = EmptyObject
        BY <3>1 DEF MovedAway, Stored
      <4>2. files'[d] = NoFile
        BY <2>2, <2>3, <3>1
      <4>3. Stored(d)' = NoFile
        BY <4>2 DEF Stored, ContentsTold
      <4> QED
        BY <2>1, <4>1, <4>3 DEF Content
    <3>2. CASE d \notin MovedAway
      <4>1. Stored(d)' = Stored(d)
        BY <2>2, <2>3, <3>2, StoredSame
      <4> QED
        BY <2>1, <4>1
    <3> QED
      BY <3>1, <3>2
  <2>5. ASSUME NEW d \in DbPaths \cap Lasting, d \notin DOMAIN tree' PROVE files'[d] = NoFile
    <3>1. Stored(d) = NoFile
      BY <2>1, <2>5
    <3>2. EmptyObject # NoFile
      BY EmptyTree DEF ContentsTold, IsObject
    <3> QED
      BY <2>2, <2>3, <3>1, <3>2 DEF Stored
  <2> QED
    BY <2>4, <2>5 DEF SavedInv
<1>4. CASE Stop \/ Crash
  BY <1>4 DEF Stop, Crash, SavedInv
<1>5. ASSUME NEW d \in AllDbs, Damage(d) PROVE SavedInv'
  BY <1>5 DEF Damage, SavedInv
<1>6. ASSUME NEW d \in AllDbs, Save(d) PROVE SavedInv'
  <2>1. d \in dirty /\ d \in {Main} \cup dbs /\ tree' = tree /\ dirty' = dirty \ {d} /\ up
    BY <1>1, <1>6 DEF Save, TreeInv
  <2> DEFINE x == Part(tree, d)
  <2>2. Text(d) = x /\ IsObject(x)
    BY <1>1, <2>1, TextIs
  <2> HIDE DEF x
  <2>3. files'[d] = FileOf(x) /\ \A b \in AllDbs : b # d => files'[b] = files[b]
    BY <1>1, <1>6, <2>2 DEF Save, FilesInv
  <2>4. d \in Lasting => Content(Stored(d)') = x
    BY <2>2, <2>3, SavedReads
  <2>5. \A b \in AllDbs : b # d => Stored(b)' = Stored(b)
    BY <2>3, StoredSame
  <2>6. ASSUME NEW b \in Lasting \ dirty' PROVE Content(Stored(b)') = Part(tree', b)
    <3>1. b \in AllDbs /\ (b # d => b \notin dirty)
      BY <2>1 DEF Lasting
    <3> QED
      BY <2>1, <2>4, <2>5, <3>1 DEF SavedInv, x
  <2>7. ASSUME NEW b \in DbPaths \cap Lasting, b \notin DOMAIN tree' PROVE files'[b] = NoFile
    <3>1. b # d
      BY <2>1, <2>7, DbPathIs DEF HashInv
    <3> QED
      BY <2>1, <2>3, <2>7, <3>1, DbPathIs DEF SavedInv
  <2> QED
    BY <2>6, <2>7 DEF SavedInv
<1>7. ASSUME NEW p \in WritePaths, NEW v \in Values, SetValue(p, v) PROVE SavedInv'
  <2>1. /\ p \in Paths /\ p # <<>> /\ p \notin TopPaths \cup DbPaths
        /\ DbOf(p) \in AllDbs /\ IsValue(v)
    BY Requested
  <2>2. \/ UNCHANGED <<tree, dirty, files>>
        \/ Usual(DbOf(p), OnTheWay(tree, Front(p)))
    BY <1>1, <1>7, <2>1, UsualSetValue
  <2>3. UNCHANGED up
    BY <1>7 DEF SetValue
  <2> QED
    BY <1>1, <1>2, <2>1, <2>2, <2>3, SavedKept
<1>8. ASSUME NEW i \in Injections, MergeValue(i.path, i.value) PROVE SavedInv'
  <2>1. /\ i.path \in Paths /\ i.path \notin TopPaths /\ DbOf(i.path) \in AllDbs
        /\ IsObject(i.value) /\ (i.path = <<>> => NoTops(i.value))
    BY Requested
  <2>2. \/ UNCHANGED <<tree, dirty, files>>
        \/ Usual(DbOf(i.path), OnTheWay(tree, i.path))
    BY <1>1, <1>8, <2>1, UsualMergeValue
  <2>3. UNCHANGED up
    BY <1>8 DEF MergeValue
  <2> QED
    BY <1>1, <1>2, <2>1, <2>2, <2>3, SavedKept
<1>9. ASSUME NEW p \in RmPaths, RmValue(p) PROVE SavedInv'
  <2>1. p \in Paths /\ p # <<>> /\ p \notin TopPaths /\ UNCHANGED up
    BY <1>9, Requested DEF RmValue
  <2>2. CASE p \notin DbPaths
    <3>1. DbOf(p) \in AllDbs /\ Usual(DbOf(p), {Emptied(tree, p)})
      BY <1>1, <1>9, <2>1, <2>2, UsualRmKey
    <3> QED
      BY <1>1, <2>1, <3>1, SavedKept
  <2>3. CASE p \in DbPaths
    <3>1. tree' = Cut(tree, p) /\ files' = [files EXCEPT ![p] = NoFile] /\ dirty' = dirty \ {p}
      BY <1>1, <1>9, <2>3, UsualRmDb
    <3>2. p \in AllDbs /\ p # Main /\ DbOf(p) = p
      BY <2>1, <2>3, DbPathIs, DbOfIs, PrefixOrder
    <3>3. /\ \A d \in DbPaths : d \in DOMAIN tree' <=> d \in DOMAIN tree /\ d # p
          /\ \A d \in AllDbs : d # p => Part(tree', d) = Part(tree, d)
      BY <1>1, <2>1, <3>1, <3>2, CutKeeps DEF TreeInv
    <3>4. files'[p] = NoFile /\ \A d \in AllDbs : d # p => files'[d] = files[d]
      BY <1>1, <3>1, <3>2 DEF FilesInv
    <3>5. \A d \in AllDbs : d # p => Stored(d)' = Stored(d)
      BY <3>4, StoredSame
    <3>6. Content(Stored(p)') = Part(tree', p)
      <4>1. Stored(p)' = NoFile
        BY <3>4 DEF Stored, ContentsTold
      <4> QED
        BY <2>3, <3>2, <3>3, <4>1 DEF Content, Part
    <3>7. ASSUME up, NEW d \in Lasting \ dirty' PROVE Content(Stored(d)') = Part(tree', d)
      <4>1. d \in AllDbs /\ (d # p => d \notin dirty)
        BY <3>1 DEF Lasting
      <4> QED
        BY <3>3, <3>5, <3>6, <3>7, <4>1 DEF SavedInv
    <3>8. ASSUME up, NEW d \in DbPaths \cap Lasting, d \notin DOMAIN tree'
          PROVE  files'[d] = NoFile
      BY <3>3, <3>4, <3>8, DbPathIs DEF SavedInv
    <3>9. up' = up
      BY <2>1
    <3> QED
      BY <3>7, <3>8, <3>9 DEF SavedInv
  <2> QED
    BY <2>2, <2>3
<1>10. CASE UNCHANGED vars
  BY <1>2, <1>10 DEF vars, memVars, diskVars
<1> QED
  BY <1>3, <1>4, <1>5, <1>6, <1>7, <1>8, <1>9, <1>10 DEF Next

LEMMA SavedAlways ==
  ASSUME UsualRequests, ContentsTold
  PROVE  Spec => [](TypeInv /\ HashInv /\ SavedInv)
<1>1. Init => SavedInv
  BY DEF Init, SavedInv
<1>2. RootIsIgnored
  BY Requested
<1> QED
  BY <1>1, <1>2, TypeInit, TypeStep, HashInit, HashStep, SavedStep, PTL DEF Spec

(***************************************************************************)
(* However requests, saves in their middle, queued flushes, crashes and    *)
(* damage to the files alternate, a database no flush is queued for is     *)
(* saved as dump() shows it: a restart then changes nothing.               *)
(***************************************************************************)
THEOREM SavedIsWhatIsShown ==
  ASSUME UsualRequests, ContentsTold
  PROVE  Spec => []SavedIsShown
<1>1. SavedInv => SavedIsShown
  BY DEF SavedInv, SavedIsShown
<1> QED
  BY <1>1, SavedAlways, PTL

(***************************************************************************)
(* What rmValue took out of the tree as a database has no file from the    *)
(* moment it returns until it is created again.                            *)
(***************************************************************************)
THEOREM RemovedDbIsGone ==
  ASSUME UsualRequests, ContentsTold
  PROVE  Spec => []RemovedIsGone
<1>1. SavedInv => RemovedIsGone
  BY DEF SavedInv, RemovedIsGone
<1> QED
  BY <1>1, SavedAlways, PTL

-----------------------------------------------------------------------------
(* What requests leave alone                                               *)

LEMMA KeptStep ==
  ASSUME UsualRequests, TypeInv, HashInv
  PROVE  /\ \A p \in WritePaths, v \in Values : SetValue(p, v) => KeepsToPath(p)
         /\ \A i \in Injections : MergeValue(i.path, i.value) => KeepsToPath(i.path)
         /\ \A p \in RmPaths : RmValue(p) => KeepsToPath(p)
<1>1. TreeInv /\ IsObject(tree) /\ IsTree(tree)
  BY DEF TypeInv, TreeInv, IsObject
<1>2. ASSUME NEW p \in WritePaths, NEW v \in Values, SetValue(p, v) PROVE KeepsToPath(p)
  <2>1. /\ p \in Paths /\ p # <<>> /\ p \notin TopPaths \cup DbPaths
        /\ DbOf(p) \in AllDbs /\ IsValue(v)
    BY Requested
  <2>2. tree' = Written(tree, p, v)
    BY <1>1, <1>2, <2>1, UsualSetValue
  <2>3. CASE Blocked(tree, Front(p))
    BY <2>2, <2>3 DEF Written, KeepsToPath
  <2>4. CASE ~Blocked(tree, Front(p))
    BY <1>1, <2>1, <2>2, <2>4, WrittenIs DEF KeepsToPath
  <2> QED
    BY <2>3, <2>4
<1>3. ASSUME NEW i \in Injections, MergeValue(i.path, i.value) PROVE KeepsToPath(i.path)
  <2> DEFINE p == i.path
             sub == i.value
             New(q) == q \in Paths /\ IsPrefix(p, q) /\ Rest(p, q) \in DOMAIN sub
  <2>1. /\ p \in Paths /\ p \notin TopPaths /\ DbOf(p) \in AllDbs
        /\ IsObject(sub) /\ (p = <<>> => NoTops(sub))
    BY Requested
  <2>2. tree' = Merged(tree, p, sub)
    BY <1>1, <1>3, <2>1, UsualMergeValue
  <2> HIDE DEF p, sub
  <2>3. ASSUME Blocked(tree, p) PROVE KeepsToPath(p)
    BY <2>2, <2>3 DEF Merged, KeepsToPath
  <2>4. ASSUME ~Blocked(tree, p) PROVE KeepsToPath(p)
    <3>1. /\ \A q : q \in DOMAIN tree' <=> \/ New(q)
                                           \/ q \in DOMAIN tree /\ ~Replaced(p, sub, q)
                                           \/ q \in Missing(tree, p)
          /\ \A q \in DOMAIN tree : ~Replaced(p, sub, q) /\ ~New(q) => tree'[q] = tree[q]
      BY <1>1, <2>1, <2>2, <2>4, MergedIs
    <3>2. ASSUME NEW q \in DOMAIN tree, ~IsPrefix(p, q)
          PROVE  q \in DOMAIN tree' /\ tree'[q] = tree[q]
      <4>1. ~New(q) /\ ~Replaced(p, sub, q)
        BY <1>1, <2>1, <3>2, ReplacedIs, RestOfTree
      <4> QED
        BY <3>1, <4>1
    <3> QED
      BY <3>2 DEF KeepsToPath
  <2>5. KeepsToPath(p)
    BY <2>3, <2>4
  <2> QED
    BY <2>5 DEF p
<1>4. ASSUME NEW p \in RmPaths, RmValue(p) PROVE KeepsToPath(p)
  <2>1. p \in Paths /\ p # <<>> /\ tree' = Cut(tree, p)
    BY <1>4, Requested DEF RmValue
  <2> QED
    BY <1>1, <2>1, CutIs DEF KeepsToPath
<1> QED
  BY <1>2, <1>3, <1>4

(***************************************************************************)
(* setValue, mergeValue and rmValue change nothing but what is at the path *)
(* they are asked for, though they create objects and databases on the way *)
(* there.                                                                  *)
(***************************************************************************)
THEOREM UsualRequestsKeepToPath ==
  ASSUME UsualRequests
  PROVE  Spec => RequestsKeepToPath
<1>1. RootIsIgnored
  BY Requested
<1>2. Spec => [](TypeInv /\ HashInv)
  BY <1>1, TypeInit, TypeStep, HashInit, HashStep, PTL DEF Spec
<1> DEFINE A == /\ \A p \in WritePaths, v \in Values : SetValue(p, v) => KeepsToPath(p)
                /\ \A i \in Injections : MergeValue(i.path, i.value) => KeepsToPath(i.path)
                /\ \A p \in RmPaths : RmValue(p) => KeepsToPath(p)
<1>3. TypeInv /\ HashInv => A
  BY KeptStep
<1> HIDE DEF A
<1>4. Spec => [][A]_vars
  BY <1>2, <1>3, PTL
<1> QED
  BY <1>4 DEF RequestsKeepToPath, A

-----------------------------------------------------------------------------
(* Malformed files                                                         *)

\* One file is damaged once, and each database is loaded from its file.
OneIsBad == (\E b : Broken \subseteq {b}) /\ Lasting = AllDbs

\* The process has moved a malformed file away before it saves one in its place.
BadInv ==
    /\ damaged = {} => \A d \in AllDbs : bad[d] = NoFile /\ files[d] \notin Broken
    /\ up => \A d \in AllDbs : files[d] \notin Broken
    /\ (\E d \in AllDbs : files[d] \in Broken) => \A d \in AllDbs : bad[d] = NoFile
    /\ BadFilesAreKept

LEMMA BadStart ==
  ASSUME OneIsBad, ContentsTold, TypeInv, BadInv, Start
  PROVE  BadInv'
<1>1. /\ \A d \in AllDbs : files'[d] = IF d \in MovedAway THEN NoFile ELSE files[d]
      /\ \A d \in AllDbs : bad'[d] = IF d \in MovedAway THEN files[d] ELSE bad[d]
      /\ damaged' = damaged
  BY DEF Start
<1>2. \A d \in AllDbs : d \in MovedAway <=> files[d] \in Broken
  <2>1. ASSUME NEW d \in AllDbs, files[d] \in Broken PROVE d \in MovedAway
    <3>1. Stored(d) # NoFile
      BY <2>1, EmptyTree DEF Stored, OneIsBad, ContentsTold, IsObject
    <3>2. bad[d] = NoFile
      BY <2>1 DEF BadInv
    <3> QED
      BY <2>1, <3>1, <3>2, DbsAre DEF MovedAway, Loaded
  <2> QED
    BY <2>1 DEF MovedAway
<1>3. \A d \in AllDbs : files'[d] \notin Broken
  BY <1>1, <1>2 DEF ContentsTold
<1>4. damaged' = {} => \A d \in AllDbs : bad'[d] = NoFile
  BY <1>1, <1>2 DEF BadInv
<1>5. ASSUME NEW b \in damaged PROVE \E d \in AllDbs : bad'[d] = b
  <2>1. b \in Broken /\ b # NoFile
    BY DEF TypeInv, DiskInv, ContentsTold
  <2>2. PICK d \in AllDbs : files[d] = b \/ bad[d] = b
    BY DEF BadInv, BadFilesAreKept
  <2>3. CASE files[d] = b
    BY <1>1, <1>2, <2>1, <2>3
  <2>4. CASE files[d] # b
    <3>1. bad[d] # NoFile
      BY <2>1, <2>2, <2>4
    <3>2. d \notin MovedAway
      BY <3>1 DEF MovedAway
    <3> QED
      BY <1>1, <2>2, <2>4, <3>2
  <2> QED
    BY <2>3, <2>4
<1>6. BadFilesAreKept'
  BY <1>1, <1>5 DEF BadFilesAreKept
<1> QED
  BY <1>3, <1>4, <1>6 DEF BadInv

LEMMA BadDamage ==
  ASSUME OneIsBad, ContentsTold, TypeInv, BadInv, NEW d \in AllDbs, Damage(d)
  PROVE  BadInv'
<1>1. PICK b \in Broken \ damaged :
        files' = [files EXCEPT ![d] = b] /\ damaged' = damaged \cup {b}
  BY DEF Damage
<1>2. damaged = {}
  BY <1>1 DEF OneIsBad, TypeInv, DiskInv
<1>3. ~up' /\ bad' = bad
  BY DEF Damage
<1>4. files'[d] = b /\ damaged' = {b}
  BY <1>1, <1>2 DEF TypeInv, DiskInv, FilesInv
<1>5. \A e \in AllDbs : bad'[e] = NoFile
  BY <1>2, <1>3 DEF BadInv
<1>6. BadFilesAreKept'
  BY <1>4 DEF BadFilesAreKept
<1> QED
  BY <1>3, <1>4, <1>5, <1>6 DEF BadInv

\* What writes nothing but trees, in place of what was no malformed file.
LEMMA BadKept ==
  ASSUME ContentsTold, TypeInv, BadInv, FilesStep, up, UNCHANGED <<bad, damaged>>
  PROVE  BadInv'
<1>1. \A d \in AllDbs : files[d] \notin Broken /\ files'[d] \notin Broken
  BY DEF BadInv, FilesStep, IsWritten, ContentsTold, IsObject
<1>2. \A b \in damaged : b \in Broken
  BY DEF TypeInv, DiskInv
<1>3. BadFilesAreKept'
  BY <1>1, <1>2 DEF BadInv, BadFilesAreKept
<1> QED
  BY <1>1, <1>3 DEF BadInv

LEMMA RequestFiles ==
  ASSUME RootIsIgnored, TreeInv, FilesInv
  PROVE  /\ \A p \in WritePaths, v \in Values : SetValue(p, v) => FilesStep
         /\ \A i \in Injections : MergeValue(i.path, i.value) => FilesStep
         /\ \A p \in RmPaths : RmValue(p) => FilesStep
<1>1. ASSUME NEW p \in WritePaths, NEW v \in Values, SetValue(p, v) PROVE FilesStep
  <2>1. p \in Paths \ {<<>>} /\ DbOf(p) \in AllDbs /\ IsValue(v)
    BY PathsAssumption, ValuesAssumption DEF RootIsIgnored
  <2> QED
    BY <1>1, <2>1, SetValueType
<1>2. ASSUME NEW i \in Injections, MergeValue(i.path, i.value) PROVE FilesStep
  <2>1. i.path \in Paths /\ DbOf(i.path) \in AllDbs /\ IsObject(i.value)
    BY PathsAssumption
  <2> QED
    BY <1>2, <2>1, MergeValueType
<1>3. ASSUME NEW p \in RmPaths, RmValue(p) PROVE FilesStep
  <2>1. p \in Paths \ {<<>>}
    BY PathsAssumption DEF RootIsIgnored
  <2> QED
    BY <1>3, <2>1, RmValueType
<1> QED
  BY <1>1, <1>2, <1>3

LEMMA BadStep ==
  RootIsIgnored /\ OneIsBad /\ ContentsTold /\ TypeInv /\ BadInv /\ [Next]_vars => BadInv'
<1> SUFFICES ASSUME RootIsIgnored, OneIsBad, ContentsTold, TypeInv, BadInv, [Next]_vars
             PROVE  BadInv'
  OBVIOUS
<1>1. TreeInv /\ FilesInv
  BY DEF TypeInv, DiskInv
<1>2. CASE Start
  BY <1>2, BadStart
<1>3. CASE Stop \/ Crash
  BY <1>3 DEF Stop, Crash, diskVars, BadInv, BadFilesAreKept
<1>4. ASSUME NEW d \in AllDbs, Damage(d) PROVE BadInv'
  BY <1>4, BadDamage
<1>5. ASSUME NEW d \in AllDbs, Save(d) PROVE BadInv'
  <2>1. FilesStep
    BY <1>5, SaveType
  <2> QED
    BY <1>5, <2>1, BadKept DEF Save
<1>6. ASSUME NEW p \in WritePaths, NEW v \in Values, SetValue(p, v) PROVE BadInv'
  <2>1. FilesStep
    BY <1>1, <1>6, RequestFiles
  <2> QED
    BY <1>6, <2>1, BadKept DEF SetValue
<1>7. ASSUME NEW i \in Injections, MergeValue(i.path, i.value) PROVE BadInv'
  <2>1. FilesStep
    BY <1>1, <1>7, RequestFiles
  <2> QED
    BY <1>7, <2>1, BadKept DEF MergeValue
<1>8. ASSUME NEW p \in RmPaths, RmValue(p) PROVE BadInv'
  <2>1. FilesStep
    BY <1>1, <1>8, RequestFiles
  <2> QED
    BY <1>8, <2>1, BadKept DEF RmValue
<1>9. CASE UNCHANGED vars
  BY <1>9 DEF vars, diskVars, BadInv, BadFilesAreKept
<1> QED
  BY <1>2, <1>3, <1>4, <1>5, <1>6, <1>7, <1>8, <1>9 DEF Next

(***************************************************************************)
(* The first malformed content a file is found with is never lost, however *)
(* soon the database is created and saved again: there is then no .bad     *)
(* file that keeps it from being moved away.  (Of two, one may be lost:    *)
(* this takes no more than one.)                                           *)
(***************************************************************************)
THEOREM FirstBadFileIsKept ==
  ASSUME RootIsIgnored, OneIsBad, ContentsTold
  PROVE  Spec => []BadFilesAreKept
<1>1. Init => BadInv
  <2>1. ASSUME Init PROVE BadInv
    BY <2>1 DEF Init, BadInv, BadFilesAreKept, ContentsTold
  <2> QED
    BY <2>1
<1>2. BadInv => BadFilesAreKept
  BY DEF BadInv
<1> QED
  BY <1>1, <1>2, TypeInit, TypeStep, BadStep, PTL DEF Spec

=============================================================================
