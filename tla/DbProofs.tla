------------------------------- MODULE DbProofs -------------------------------
(***************************************************************************)
(* Theorems about Db: for any guests, uuids, paths and values, a guest     *)
(* changes nothing but what is in its own part of the tree, and is shown   *)
(* no value that only another guest writes; and the calls of all domains   *)
(* together work on the one map of TreeStore.                              *)
(***************************************************************************)
EXTENDS Db, DBTreeStoreProofs

-----------------------------------------------------------------------------
(* The paths of calls                                                      *)

\* The part of the tree a guest's uuid gives it, or the lack of one.
HomesOf(g) == {Home(name) : name \in {UuidOf[g], NoName}}

LEMMA HomeIs ==
  ASSUME NEW name \in Names
  PROVE  Home(name) \in DbPaths /\ Front(Home(name)) = <<"dom-store">>
<1> DEFINE h == Home(name)
<1>1. h \in DbPaths
  BY UuidAssumption DEF Home, DbPaths
<1>2. h[1] = "dom-store"
  BY DEF Home
<1> HIDE DEF h
<1>3. Front(h) = <<"dom-store">>
  BY <1>1, <1>2, DbPathIs DEF Top
<1> QED
  BY <1>1, <1>3 DEF h

LEMMA UuidIs ==
  ASSUME NEW g \in Guests
  PROVE  /\ UuidOf[g] \in Uuids /\ UuidOf[g] \in Names /\ NoName \in Names
         /\ NoName # UuidOf[g]
         /\ \A h \in Guests : UuidOf[h] = UuidOf[g] => h = g
  BY UuidAssumption, NamesAssumption DEF IsInjective

LEMMA HomesApart ==
  ASSUME NEW a \in Names, NEW b \in Names, NEW q \in Paths,
         IsPrefix(Home(a), q), IsPrefix(Home(b), q)
  PROVE  a = b
<1>1. Home(a) \in DbPaths /\ Home(b) \in DbPaths
  BY HomeIs
<1>2. Home(a) = Home(b)
  BY <1>1, DbOfIs
<1> QED
  BY <1>2 DEF Home

LEMMA SenderPathIs ==
  ASSUME NEW d \in Domains, NEW p \in Paths, DbOf(p) \in AllDbs, NEW q \in SenderPaths(d, p)
  PROVE  /\ q \in Paths /\ DbOf(q) \in AllDbs
         /\ (d \in Guests /\ LookupSenderId) =>
              \E name \in {UuidOf[d], NoName} : IsPrefix(Home(name), q) /\ q = Home(name) \o p
         /\ ~(d \in Guests /\ LookupSenderId) => q = p
<1>1. CASE d = 0 \/ ~LookupSenderId
  BY <1>1, GuestsAssumption DEF SenderPaths
<1>2. CASE d # 0 /\ LookupSenderId
  <2>1. d \in Guests
    BY <1>2 DEF Domains
  <2>2. PICK name \in {UuidOf[d], NoName} : q = <<"dom-store", name>> \o p
    BY <1>2 DEF SenderPaths
  <2> DEFINE h == Home(name)
  <2>3. h \in DbPaths /\ q = h \o p
    BY <2>1, <2>2, UuidIs, HomeIs DEF Home
  <2> HIDE DEF h
  <2>4. q \in Paths /\ IsPrefix(h, q)
    BY <2>3, DbPathIs, Concat
  <2>5. DbOf(q) = h
    BY <2>3, <2>4, DbOfIs
  <2> QED
    BY <1>2, <2>1, <2>3, <2>4, <2>5, DbPathIs DEF h
<1> QED
  BY <1>1, <1>2

-----------------------------------------------------------------------------
(* The types                                                               *)

\* The steps of a call, by what they do to the tree.
WriteStep(d, q, v) == q # <<>> /\ SetValue(q, v) /\ v \in ValuesOf[d]
InjectStep(i, q) == q # <<>> /\ MergeValue(q, i.value)
RmStep(q) == q # <<>> /\ RmValue(q)

LEMMA CallSteps ==
  ASSUME NEW d \in Domains, Call(d)
  PROVE  \/ UNCHANGED treeVars
         \/ Done(d) /\
            \/ \E p \in WritePaths, v \in ValuesOf[d] :
                 \E q \in SenderPaths(d, p) : WriteStep(d, q, v)
            \/ \E i \in Injections : \E q \in SenderPaths(d, i.path) : InjectStep(i, q)
            \/ \E p \in RmPaths : \E q \in SenderPaths(d, p) : RmStep(q)
  BY DEF Call, NoDomId, Reads, ReadBinary, Write, Inject, InvalidJson, Rm, RootIgnored,
         NothingToRemove, WriteStep, InjectStep, RmStep

LEMMA ValueIs ==
  ASSUME NEW d \in Domains, NEW v \in ValuesOf[d]
  PROVE  v \in Values /\ IsValue(v)
  BY ValuesAssumption, ValuesOfAssumption

LEMMA RequestType ==
  ASSUME TypeInv, TreeInv', FilesStep, UNCHANGED <<up, bad, damaged>>
  PROVE  TypeInv'
  BY FilesKept DEF TypeInv, DiskInv

LEMMA DbTypeStep == TypeInv /\ [DbNext]_dbVars => TypeInv'
<1> SUFFICES ASSUME TypeInv, [DbNext]_dbVars PROVE TypeInv'
  OBVIOUS
<1>1. TreeInv /\ FilesInv
  BY DEF TypeInv, DiskInv
<1>2. ASSUME UNCHANGED treeVars PROVE TypeInv'
  BY <1>2 DEF treeVars, memVars, diskVars, TypeInv, TreeInv, DiskInv, FilesInv
<1>3. CASE Serve
  BY <1>3, StartType DEF Serve
<1>4. CASE Stop \/ Crash
  <2>1. TreeInv'
    BY <1>4, NothingType DEF Stop, Crash
  <2> QED
    BY <1>4, <2>1 DEF Stop, Crash, TypeInv, DiskInv, FilesInv, diskVars
<1>5. ASSUME NEW d \in AllDbs, Save(d) PROVE TypeInv'
  BY <1>5, SaveType
<1>6. ASSUME NEW d \in Domains, NEW p \in WritePaths, NEW v \in ValuesOf[d],
             NEW q \in SenderPaths(d, p), WriteStep(d, q, v)
      PROVE  TypeInv'
  <2>1. q \in Paths \ {<<>>} /\ DbOf(q) \in AllDbs /\ IsValue(v) /\ SetValue(q, v)
    BY <1>6, PathsAssumption, SenderPathIs, ValueIs DEF WriteStep
  <2> QED
    BY <1>1, <2>1, SetValueType, RequestType DEF SetValue
<1>7. ASSUME NEW d \in Domains, NEW i \in Injections, NEW q \in SenderPaths(d, i.path),
             InjectStep(i, q)
      PROVE  TypeInv'
  <2>1. q \in Paths /\ DbOf(q) \in AllDbs /\ IsObject(i.value) /\ MergeValue(q, i.value)
    BY <1>7, PathsAssumption, SenderPathIs DEF InjectStep
  <2> QED
    BY <1>1, <2>1, MergeValueType, RequestType DEF MergeValue
<1>8. ASSUME NEW d \in Domains, NEW p \in RmPaths, NEW q \in SenderPaths(d, p), RmStep(q)
      PROVE  TypeInv'
  <2>1. q \in Paths \ {<<>>} /\ RmValue(q)
    BY <1>8, PathsAssumption, SenderPathIs DEF RmStep
  <2> QED
    BY <1>1, <2>1, RmValueType, RequestType DEF RmValue
<1>9. ASSUME NEW d \in Domains, Call(d) PROVE TypeInv'
  BY <1>2, <1>6, <1>7, <1>8, <1>9, CallSteps
<1>10. CASE UNCHANGED dbVars
  BY <1>2, <1>10 DEF dbVars
<1> QED
  BY <1>3, <1>4, <1>5, <1>9, <1>10 DEF DbNext

-----------------------------------------------------------------------------
(* What a call leaves alone                                                *)

\* Nothing outside home is touched, but for the object above the homes.
KeepsApart(home, t, u) ==
    \A q \in Paths : ~IsPrefix(home, q) /\ q # <<"dom-store">> => Same(t, u, q)

LEMMA ApartKept ==
  ASSUME NEW t, IsTree(t), NEW u, IsTree(u), NEW home, KeepsApart(home, t, u)
  PROVE  ApartFrom(home, u) = ApartFrom(home, t)
<1> DEFINE D(x) == {q \in DOMAIN x : ~IsPrefix(home, q) /\ q # <<"dom-store">>}
<1>1. \A q \in DOMAIN t \cup DOMAIN u : q \in Paths
  BY RestOfTree
<1>2. \A q : q \in D(t) <=> q \in D(u)
  BY <1>1 DEF KeepsApart, Same
<1>3. D(t) = D(u)
  BY <1>2
<1>4. \A q \in D(t) : t[q] = u[q]
  BY <1>1 DEF KeepsApart, Same
<1> HIDE DEF D
<1>5. ApartFrom(home, t) = [q \in D(t) |-> t[q]] /\ ApartFrom(home, u) = [q \in D(u) |-> u[q]]
  BY DEF ApartFrom, D
<1> QED
  BY <1>3, <1>4, <1>5

\* The objects on the way to a path in home.
LEMMA AboveHome ==
  ASSUME NEW name \in Names, NEW p \in Paths, IsPrefix(Home(name), p), NEW q \in Paths,
         IsPrefix(q, p)
  PROVE  q = <<>> \/ q = <<"dom-store">> \/ IsPrefix(Home(name), q)
<1> DEFINE h == Home(name)
<1>1. h \in DbPaths /\ Front(h) = <<"dom-store">>
  BY HomeIs
<1> HIDE DEF h
<1>2. h \in Paths /\ Front(h) \in TopPaths
  BY <1>1, DbPathIs
<1>3. IsPrefix(h, q) \/ IsPrefix(q, h)
  BY <1>2, PrefixOrder DEF h
<1>4. ASSUME IsPrefix(q, h), q # h PROVE q = <<>> \/ q = Front(h)
  <2>1. IsPrefix(q, Front(h)) /\ Front(h) \in Paths /\ Front(h) # <<>>
    BY <1>2, <1>4, PrefixOfFront, TopPathIs
  <2>2. ASSUME q # Front(h) PROVE q = <<>>
    <3>1. IsPrefix(q, Front(Front(h)))
      BY <2>1, <2>2, PrefixOfFront
    <3>2. Front(Front(h)) = <<>>
      BY <1>2, TopPathIs
    <3> QED
      BY <3>1, <3>2, PrefixOrder
  <2> QED
    BY <2>2
<1>5. IsPrefix(h, h)
  BY <1>2, PrefixOrder
<1> QED
  BY <1>1, <1>3, <1>4, <1>5 DEF h

LEMMA ApartTwice ==
  ASSUME NEW home, NEW t, NEW u, NEW w, KeepsApart(home, t, u), KeepsApart(home, u, w)
  PROVE  KeepsApart(home, t, w)
  BY DEF KeepsApart, Same

LEMMA WrittenApart ==
  ASSUME NEW t, IsObject(t), NEW name \in Names, NEW p \in Paths, p # <<>>,
         IsPrefix(Home(name), p), NEW v, IsValue(v)
  PROVE  KeepsApart(Home(name), t, Written(t, p, v))
<1> DEFINE u == Written(t, p, v)
           M == Missing(t, Front(p))
<1>1. CASE Blocked(t, Front(p))
  BY <1>1 DEF Written, KeepsApart, Same
<1>2. CASE ~Blocked(t, Front(p))
  <2>1. /\ \A q : q \in DOMAIN u <=> \/ q = p
                                     \/ q \in DOMAIN t /\ ~IsPrefix(p, q)
                                     \/ q \in M
        /\ \A q \in DOMAIN t : ~IsPrefix(p, q) => u[q] = t[q]
        /\ \A q \in M : q \in Paths /\ q # <<>> /\ IsPrefix(q, p)
    BY <1>2, WrittenIs
  <2> HIDE DEF u, M
  <2>2. Home(name) \in Paths
    BY HomeIs, DbPathIs
  <2>3. ASSUME NEW q \in Paths, ~IsPrefix(Home(name), q), q # <<"dom-store">>
        PROVE  Same(t, u, q)
    <3>1. ~IsPrefix(p, q) /\ q # p
      BY <2>2, <2>3, PrefixOrder
    <3>2. q \notin M
      BY <2>1, <2>3, AboveHome
    <3> QED
      BY <2>1, <3>1, <3>2 DEF Same
  <2>4. KeepsApart(Home(name), t, u)
    BY <2>3 DEF KeepsApart
  <2> QED
    BY <2>4 DEF u
<1> QED
  BY <1>1, <1>2

LEMMA MergedApart ==
  ASSUME NEW t, IsObject(t), NEW name \in Names, NEW p \in Paths,
         IsPrefix(Home(name), p), NEW sub, IsObject(sub)
  PROVE  KeepsApart(Home(name), t, Merged(t, p, sub))
<1> DEFINE u == Merged(t, p, sub)
           M == Missing(t, p)
           New(q) == q \in Paths /\ IsPrefix(p, q) /\ Rest(p, q) \in DOMAIN sub
<1>1. CASE Blocked(t, p)
  BY <1>1 DEF Merged, KeepsApart, Same
<1>2. CASE ~Blocked(t, p)
  <2>1. /\ \A q : q \in DOMAIN u <=> \/ New(q)
                                     \/ q \in DOMAIN t /\ ~Replaced(p, sub, q)
                                     \/ q \in M
        /\ \A q \in DOMAIN t : ~Replaced(p, sub, q) /\ ~New(q) => u[q] = t[q]
        /\ \A q \in M : q \in Paths /\ q # <<>> /\ IsPrefix(q, p)
    BY <1>2, MergedIs
  <2> HIDE DEF u, M
  <2>2. Home(name) \in Paths
    BY HomeIs, DbPathIs
  <2>3. ASSUME NEW q \in Paths, ~IsPrefix(Home(name), q), q # <<"dom-store">>
        PROVE  Same(t, u, q)
    <3>1. ~New(q) /\ ~Replaced(p, sub, q)
      BY <2>2, <2>3, PrefixOrder, ReplacedIs
    <3>2. q \notin M
      BY <2>1, <2>3, AboveHome
    <3> QED
      BY <2>1, <3>1, <3>2 DEF Same
  <2>4. KeepsApart(Home(name), t, u)
    BY <2>3 DEF KeepsApart
  <2> QED
    BY <2>4 DEF u
<1> QED
  BY <1>1, <1>2

LEMMA CutApart ==
  ASSUME NEW t, IsObject(t), NEW name \in Names, NEW p \in Paths, p # <<>>,
         IsPrefix(Home(name), p)
  PROVE  KeepsApart(Home(name), t, Cut(t, p))
<1>1. Home(name) \in Paths
  BY HomeIs, DbPathIs
<1>2. \A q \in Paths : ~IsPrefix(Home(name), q) => ~IsPrefix(p, q)
  BY <1>1, PrefixOrder
<1>3. /\ \A q : q \in DOMAIN Cut(t, p) <=> q \in DOMAIN t /\ ~IsPrefix(p, q)
      /\ \A q \in DOMAIN Cut(t, p) : Cut(t, p)[q] = t[q]
  BY CutIs DEF IsObject
<1> QED
  BY <1>2, <1>3 DEF KeepsApart, Same

\* What createChildDb() does for a path in home is in home.
LEMMA WithDbApart ==
  ASSUME TreeInv, NEW name \in Names, NEW p \in Paths, IsPrefix(Home(name), p)
  PROVE  /\ IsObject(WithDb(NewDb(p)))
         /\ KeepsApart(Home(name), tree, WithDb(NewDb(p)))
<1> DEFINE h == Home(name)
           t == WithDb(NewDb(p))
<1>1. h \in DbPaths /\ h \in Paths /\ h # <<>>
  BY HomeIs, DbPathIs
<1>2. DbOf(p) = h
  BY <1>1, DbOfIs
<1>3. /\ IsObject(t) /\ \A d \in NewDb(p) : d = h
      /\ NewDb(p) = {} => t = tree
      /\ \A d \in NewDb(p) : Blocked(tree, Top(d)) => t = tree
      /\ \A d \in NewDb(p) : ~Blocked(tree, Top(d)) => t = Written(tree, d, Object)
  BY <1>1, <1>2, WithDbIs, DbsAre
<1>4. t = tree \/ t = Written(tree, h, Object)
  BY <1>3
<1>5. KeepsApart(h, tree, tree)
  BY DEF KeepsApart, Same
<1>6. KeepsApart(h, tree, Written(tree, h, Object))
  BY <1>1, WrittenApart, PrefixOrder, ObjectIsValue DEF TreeInv
<1> QED
  BY <1>3, <1>4, <1>5, <1>6

LEMMA CallApart ==
  ASSUME TypeInv, NEW g \in Guests, LookupSenderId, NEW p \in Paths, DbOf(p) \in AllDbs,
         NEW q \in SenderPaths(g, p), IsTree(tree'),
         \/ \E v \in ValuesOf[g] : WriteStep(g, q, v)
         \/ \E i \in Injections : InjectStep(i, q)
         \/ RmStep(q)
  PROVE  \E name \in {UuidOf[g], NoName} :
           ApartFrom(Home(name), tree') = ApartFrom(Home(name), tree)
<1>1. g \in Domains
  BY DEF Domains
<1>2. PICK name \in {UuidOf[g], NoName} : IsPrefix(Home(name), q)
  BY <1>1, SenderPathIs
<1> DEFINE h == Home(name)
           t == WithDb(NewDb(q))
<1>3. q \in Paths /\ name \in Names /\ TreeInv /\ IsObject(tree) /\ IsTree(tree)
  BY <1>1, SenderPathIs, UuidIs DEF TypeInv, TreeInv, IsObject
<1>4. IsObject(t) /\ KeepsApart(h, tree, t)
  BY <1>2, <1>3, WithDbApart
<1>5. ASSUME NEW v \in ValuesOf[g], WriteStep(g, q, v) PROVE KeepsApart(h, tree, tree')
  <2>1. q # <<>> /\ IsValue(v) /\ (tree' = t \/ tree' = Written(t, q, v))
    BY <1>1, <1>5, ValueIs DEF WriteStep, SetValue, GiveUp, Written
  <2> HIDE DEF t
  <2>2. KeepsApart(h, t, Written(t, q, v))
    BY <1>2, <1>3, <1>4, <2>1, WrittenApart
  <2> QED
    BY <1>4, <2>1, <2>2, ApartTwice
<1>6. ASSUME NEW i \in Injections, InjectStep(i, q) PROVE KeepsApart(h, tree, tree')
  <2>1. IsObject(i.value) /\ (tree' = t \/ tree' = Merged(t, q, i.value))
    BY <1>6, PathsAssumption DEF InjectStep, MergeValue, GiveUp, Merged
  <2> HIDE DEF t
  <2>2. KeepsApart(h, t, Merged(t, q, i.value))
    BY <1>2, <1>3, <1>4, <2>1, MergedApart
  <2> QED
    BY <1>4, <2>1, <2>2, ApartTwice
<1>7. ASSUME RmStep(q) PROVE KeepsApart(h, tree, tree')
  <2>1. q # <<>> /\ tree' = Cut(tree, q)
    BY <1>7 DEF RmStep, RmValue
  <2> QED
    BY <1>2, <1>3, <2>1, CutApart
<1>8. KeepsApart(h, tree, tree')
  BY <1>5, <1>6, <1>7
<1>9. ApartFrom(h, tree') = ApartFrom(h, tree)
  BY <1>3, <1>8, ApartKept
<1> QED
  BY <1>9

LEMMA ApartStep ==
  ASSUME TypeInv, TypeInv', [DbNext]_dbVars, NEW g \in Guests,
         LookupSenderId, up, up', answer'.to = g
  PROVE  (\E name \in {UuidOf[g], NoName} :
            ApartFrom(Home(name), tree') = ApartFrom(Home(name), tree)) \/ UNCHANGED dbVars
<1>1. IsTree(tree')
  BY DEF TypeInv, TreeInv, IsObject
<1>2. CASE tree' = tree
  BY <1>2
<1>3. ~Serve /\ ~Stop /\ ~Crash
  BY DEF Serve, Start, Stop, Crash
<1>4. ASSUME NEW d \in AllDbs, Save(d) PROVE tree' = tree
  BY <1>4 DEF Save
<1>5. ASSUME NEW d \in Domains, Call(d), tree' # tree
      PROVE  \E name \in {UuidOf[g], NoName} :
               ApartFrom(Home(name), tree') = ApartFrom(Home(name), tree)
  <2>1. PICK p \in Paths : DbOf(p) \in AllDbs /\ \E q \in SenderPaths(d, p) :
                 \/ \E v \in ValuesOf[d] : WriteStep(d, q, v)
                 \/ \E i \in Injections : InjectStep(i, q)
                 \/ RmStep(q)
    <3>1. tree' # tree => ~UNCHANGED treeVars
      BY DEF treeVars, memVars
    <3> QED
      BY <1>5, <3>1, CallSteps, PathsAssumption
  <2>2. d = g
    <3>1. Done(d)
      <4>1. tree' # tree => ~UNCHANGED treeVars
        BY DEF treeVars, memVars
      <4> QED
        BY <1>5, <4>1, CallSteps
    <3> QED
      BY <3>1 DEF Done, Reply
  <2> QED
    BY <1>1, <2>1, <2>2, CallApart
<1>6. CASE UNCHANGED dbVars
  BY <1>6
<1> QED
  BY <1>2, <1>3, <1>4, <1>5, <1>6 DEF DbNext

(***************************************************************************)
(* Whatever domain 0 and the other guests have done to the tree, a call of *)
(* a guest changes nothing but what is in the part its uuid gives it, or   *)
(* in the nameless one if the uuid was not found, and the object above.    *)
(***************************************************************************)
THEOREM GuestsStayHome == DbSpec => GuestsKeepToHome
<1> DEFINE A == \A g \in Guests : (LookupSenderId /\ up /\ up' /\ answer'.to = g)
                  => \E name \in {UuidOf[g], NoName} :
                       ApartFrom(Home(name), tree') = ApartFrom(Home(name), tree)
<1>1. DbInit => TypeInv
  BY TypeInit DEF DbInit
<1>2. TypeInv /\ TypeInv' /\ [DbNext]_dbVars => A \/ UNCHANGED dbVars
  BY ApartStep
<1> HIDE DEF A
<1>3. DbSpec => [][A]_dbVars
  BY <1>1, <1>2, DbTypeStep, PTL DEF DbSpec
<1> QED
  BY <1>3 DEF GuestsKeepToHome, A

-----------------------------------------------------------------------------
(* What guests are shown                                                   *)

\* What a guest writes is told from what others write, from what is injected
\* and from what is shown of objects, arrays and nothing.
TextsTold ==
    \A h \in Guests : \A v \in ValuesOf[h] :
        /\ ReadText(v) \notin {"", "null"}
        /\ \A d \in Domains \ {h} : \A w \in ValuesOf[d] : ReadText(w) # ReadText(v)
        /\ \A i \in Injections : \A r \in DOMAIN i.value : ReadText(i.value[r]) # ReadText(v)

OwnHome(g) == Home(UuidOf[g])
Others(g) == UNION {{ReadText(v) : v \in ValuesOf[h]} : h \in Guests \ {g}}
Fine(g, v) == ReadText(v) \notin Others(g)
TreeFine(g, t) == \A q \in DOMAIN t : IsPrefix(OwnHome(g), q) => Fine(g, t[q])
PartFine(g, x) == \A r \in DOMAIN x : Fine(g, x[r])
FileFine(g, x) == x \in Broken \cup {NoFile} \/ PartFine(g, x)

\* Neither in the tree, nor in an object that is in a hash but not in the tree,
\* nor in a file is there anything of another guest.
FineInv(g) ==
    /\ TreeFine(g, tree)
    /\ PartFine(g, own[OwnHome(g)])
    /\ FileFine(g, files[OwnHome(g)])

LEMMA OwnHomeIs ==
  ASSUME NEW g \in Guests
  PROVE  /\ OwnHome(g) \in DbPaths /\ OwnHome(g) \in Paths /\ OwnHome(g) # <<>>
         /\ OwnHome(g) \in AllDbs /\ OwnHome(g) # Main /\ OwnHome(g) \in Lasting
<1> DEFINE h == OwnHome(g)
<1>1. UuidOf[g] \in Names /\ UuidOf[g] \in Uuids
  BY UuidIs
<1>2. h \in DbPaths
  BY <1>1, HomeIs DEF OwnHome
<1>3. h[2] = UuidOf[g]
  BY DEF OwnHome, Home
<1> HIDE DEF h
<1>4. h \in Lasting
  BY <1>1, <1>2, <1>3, DbPathIs DEF Lasting
<1> QED
  BY <1>2, <1>4, DbPathIs DEF h

LEMMA TextsAre ==
  /\ ReadText(Object) = "" /\ ReadText(Null) = "null"
  /\ \A v : IsArray(v) => ReadText(v) = ""
<1>1. Kind(Object) = "object" /\ Kind(Null) = "null"
  BY DEF Object, Null, Kind
<1>2. ASSUME NEW v, Kind(v) \notin {"bool", "string", "number", "null"} PROVE ReadText(v) = ""
  <2>1. /\ Kind(v) # "bool" /\ Kind(v) # "string" /\ Kind(v) # "number" /\ Kind(v) # "null"
    BY <1>2
  <2> QED
    BY <2>1, Zenon DEF ReadText
<1>3. ASSUME NEW v, Kind(v) = "null" PROVE ReadText(v) = "null"
  <2>1. /\ Kind(v) # "bool" /\ Kind(v) # "string" /\ Kind(v) # "number" /\ Kind(v) = "null"
    BY <1>3
  <2> QED
    BY <2>1, Zenon DEF ReadText
<1>4. ReadText(Object) = "" /\ ReadText(Null) = "null"
  BY <1>1, <1>2, <1>3
<1>5. ASSUME NEW v, IsArray(v) PROVE ReadText(v) = ""
  BY <1>2, <1>5 DEF IsArray
<1> QED
  BY <1>4, <1>5

LEMMA FineTexts ==
  ASSUME TextsTold, NEW g \in Guests
  PROVE  /\ Fine(g, Object) /\ Fine(g, Null) /\ \A v : IsArray(v) => Fine(g, v)
         /\ \A v \in ValuesOf[g] \cup ValuesOf[0] : Fine(g, v)
         /\ \A i \in Injections : PartFine(g, i.value)
         /\ "" \notin Others(g)
<1>1. "" \notin Others(g) /\ "null" \notin Others(g)
  <2>1. ASSUME NEW h \in Guests \ {g}, NEW v \in ValuesOf[h]
        PROVE  ReadText(v) # "" /\ ReadText(v) # "null"
    BY DEF TextsTold
  <2> QED
    BY <2>1 DEF Others
<1>2. ASSUME NEW v \in ValuesOf[g] \cup ValuesOf[0] PROVE Fine(g, v)
  <2>1. PICK d \in {g, 0} : v \in ValuesOf[d]
    OBVIOUS
  <2>2. ASSUME NEW h \in Guests \ {g}, NEW w \in ValuesOf[h] PROVE ReadText(v) # ReadText(w)
    <3>1. d \in Domains \ {h}
      BY GuestsAssumption DEF Domains
    <3> QED
      BY <2>1, <3>1 DEF TextsTold
  <2> QED
    BY <2>2 DEF Others, Fine
<1>3. ASSUME NEW i \in Injections PROVE PartFine(g, i.value)
  <2>1. ASSUME NEW r \in DOMAIN i.value, NEW h \in Guests \ {g}, NEW w \in ValuesOf[h]
        PROVE  ReadText(i.value[r]) # ReadText(w)
    BY DEF TextsTold
  <2>2. ASSUME NEW r \in DOMAIN i.value PROVE ReadText(i.value[r]) \notin Others(g)
    BY <2>1 DEF Others
  <2> QED
    BY <2>2 DEF Fine, PartFine
<1> QED
  BY <1>1, <1>2, <1>3, TextsAre DEF Fine

LEMMA JoinedFine ==
  ASSUME TextsTold, NEW g \in Guests, NEW a, NEW b, IsValue(a), Fine(g, b)
  PROVE  Fine(g, Joined(a, b))
<1>1. CASE IsArray(a) /\ IsArray(b)
  <2> DEFINE S == {a[i] : i \in DOMAIN a}
             T == {Tail(b)[i] : i \in DOMAIN Tail(b)}
  <2>1. Joined(a, b) = a \o Tail(b)
    BY <1>1 DEF Joined
  <2>2. a \in Seq(S) /\ a # <<>>
    BY ValueIsSeq
  <2> HIDE DEF S
  <2>3. 1 \in 1 .. Len(a) /\ Len(a) \in Nat
    BY <2>2, EmptySeq
  <2>4. (a \o Tail(b))[1] = a[1]
    BY <2>2, <2>3
  <2>5. IsArray(Joined(a, b))
    BY <1>1, <2>1, <2>4 DEF IsArray, Kind
  <2> QED
    BY <2>5, FineTexts
<1>2. CASE ~(IsArray(a) /\ IsArray(b))
  BY <1>2 DEF Joined
<1> QED
  BY <1>1, <1>2

LEMMA FineEmpty ==
  ASSUME TextsTold, NEW g \in Guests
  PROVE  PartFine(g, EmptyObject) /\ TreeFine(g, EmptyObject)
  BY FineTexts, EmptyTree DEF PartFine, TreeFine

\* A tree and the part of it that is the guest's.
LEMMA FinePart ==
  ASSUME TextsTold, NEW g \in Guests, NEW t, IsTree(t)
  PROVE  TreeFine(g, t) <=> PartFine(g, Part(t, OwnHome(g)))
<1> DEFINE h == OwnHome(g)
           x == Part(t, h)
<1>1. h \in Paths /\ h # Main
  BY OwnHomeIs
<1> HIDE DEF h
<1>2. CASE h \in DOMAIN t
  <2>1. x = At(t, h)
    BY <1>1, <1>2 DEF Part
  <2>2. /\ \A r : r \in DOMAIN x <=> r \in Paths /\ h \o r \in DOMAIN t
        /\ \A r \in DOMAIN x : x[r] = t[h \o r]
    BY <1>2, <2>1, AtIs
  <2> HIDE DEF x
  <2>3. ASSUME TreeFine(g, t), NEW r \in DOMAIN x PROVE Fine(g, x[r])
    BY <1>1, <2>2, <2>3, Concat DEF TreeFine, h
  <2>4. ASSUME PartFine(g, x), NEW q \in DOMAIN t, IsPrefix(h, q) PROVE Fine(g, t[q])
    <3>1. q \in Paths
      BY RestOfTree
    <3>2. Rest(h, q) \in Paths /\ h \o Rest(h, q) = q
      BY <1>1, <2>4, <3>1, RestOf
    <3> HIDE DEF h
    <3> QED
      BY <2>2, <2>4, <3>2 DEF PartFine
  <2> QED
    BY <2>3, <2>4 DEF TreeFine, PartFine, h, x
<1>3. CASE h \notin DOMAIN t
  <2>1. x = EmptyObject
    BY <1>1, <1>3 DEF Part
  <2>2. \A q \in DOMAIN t : ~IsPrefix(h, q)
    BY <1>1, <1>3, PrefixOfTree
  <2> QED
    BY <2>1, <2>2, FineEmpty DEF TreeFine, h
<1> QED
  BY <1>2, <1>3

LEMMA FineFile ==
  ASSUME NEW g, NEW x, PartFine(g, x)
  PROVE  FileFine(g, FileOf(x))
  BY DEF FileOf, FileFine

LEMMA FineWalk ==
  ASSUME TextsTold, NEW g \in Guests, NEW t, IsTree(t), TreeFine(g, t),
         NEW made, Fits(t, made), made \cap DOMAIN t = {}
  PROVE  TreeFine(g, WithObjects(t, made)) /\ IsTree(WithObjects(t, made))
<1> DEFINE u == WithObjects(t, made)
<1>1. /\ IsTree(u) /\ \A q : q \in DOMAIN u <=> q \in DOMAIN t \/ q \in made
      /\ \A q \in DOMAIN t : u[q] = t[q]
      /\ \A q \in made : u[q] = Object
  BY WithObjectsIs
<1> HIDE DEF u
<1>2. ASSUME NEW q \in DOMAIN u, IsPrefix(OwnHome(g), q) PROVE Fine(g, u[q])
  BY <1>1, <1>2, FineTexts DEF TreeFine
<1>3. TreeFine(g, u)
  BY <1>2 DEF TreeFine
<1> QED
  BY <1>1, <1>3 DEF u

LEMMA FineWritten ==
  ASSUME TextsTold, NEW g \in Guests, NEW t, IsObject(t), TreeFine(g, t),
         NEW p \in Paths, p # <<>>, NEW v, IsValue(v), IsPrefix(OwnHome(g), p) => Fine(g, v)
  PROVE  TreeFine(g, Written(t, p, v))
<1>1. CASE Blocked(t, Front(p))
  BY <1>1 DEF Written
<1>2. CASE ~Blocked(t, Front(p))
  <2> DEFINE u == Written(t, p, v)
  <2>1. /\ \A q : q \in DOMAIN u <=> \/ q = p
                                     \/ q \in DOMAIN t /\ ~IsPrefix(p, q)
                                     \/ q \in Missing(t, Front(p))
        /\ u[p] = v
        /\ \A q \in DOMAIN t : ~IsPrefix(p, q) => u[q] = t[q]
        /\ \A q \in Missing(t, Front(p)) : u[q] = Object
    BY <1>2, WrittenIs
  <2> HIDE DEF u
  <2>2. ASSUME NEW q \in DOMAIN u, IsPrefix(OwnHome(g), q) PROVE Fine(g, u[q])
    BY <2>1, <2>2, FineTexts DEF TreeFine
  <2>3. TreeFine(g, u)
    BY <2>2 DEF TreeFine
  <2> QED
    BY <2>3 DEF u
<1> QED
  BY <1>1, <1>2

LEMMA FineMerged ==
  ASSUME TextsTold, NEW g \in Guests, NEW t, IsObject(t), TreeFine(g, t),
         NEW p \in Paths, NEW sub, IsObject(sub), PartFine(g, sub)
  PROVE  TreeFine(g, Merged(t, p, sub))
<1>1. CASE Blocked(t, p)
  BY <1>1 DEF Merged
<1>2. CASE ~Blocked(t, p)
  <2> DEFINE u == Merged(t, p, sub)
             New(q) == q \in Paths /\ IsPrefix(p, q) /\ Rest(p, q) \in DOMAIN sub
  <2>1. /\ \A q : q \in DOMAIN u <=> \/ New(q)
                                     \/ q \in DOMAIN t /\ ~Replaced(p, sub, q)
                                     \/ q \in Missing(t, p)
        /\ \A q \in DOMAIN t : ~Replaced(p, sub, q) /\ ~New(q) => u[q] = t[q]
        /\ \A q \in DOMAIN t : New(q) => u[q] = Joined(t[q], sub[Rest(p, q)])
        /\ \A q : New(q) /\ q \notin DOMAIN t => u[q] = sub[Rest(p, q)]
        /\ \A q \in Missing(t, p) : q \in DOMAIN u => New(q) \/ u[q] = Object
    BY <1>2, MergedIs
  <2> HIDE DEF u
  <2>2. ASSUME NEW q \in DOMAIN u, IsPrefix(OwnHome(g), q) PROVE Fine(g, u[q])
    <3>1. CASE New(q)
      <4>1. Fine(g, sub[Rest(p, q)])
        BY <3>1 DEF PartFine
      <4>2. q \in DOMAIN t => IsValue(t[q])
        BY RestOfTree DEF IsObject
      <4>3. q \in DOMAIN t => Fine(g, Joined(t[q], sub[Rest(p, q)]))
        BY <4>1, <4>2, JoinedFine
      <4> QED
        BY <2>1, <3>1, <4>1, <4>3
    <3>2. CASE ~New(q)
      BY <2>1, <2>2, <3>2, FineTexts DEF TreeFine
    <3> QED
      BY <3>1, <3>2
  <2>3. TreeFine(g, u)
    BY <2>2 DEF TreeFine
  <2> QED
    BY <2>3 DEF u
<1> QED
  BY <1>1, <1>2

\* createChildDb() makes nothing but objects.
LEMMA FineWithDb ==
  ASSUME TextsTold, TreeInv, NEW g \in Guests, TreeFine(g, tree),
         NEW p \in Paths, DbOf(p) \in AllDbs
  PROVE  TreeFine(g, WithDb(NewDb(p))) /\ IsObject(WithDb(NewDb(p)))
<1> DEFINE t == WithDb(NewDb(p))
<1>1. /\ IsObject(t) /\ NewDb(p) \subseteq DbPaths
      /\ NewDb(p) = {} => t = tree
      /\ \A d \in NewDb(p) : Blocked(tree, Top(d)) => t = tree
      /\ \A d \in NewDb(p) : ~Blocked(tree, Top(d)) => t = Written(tree, d, Object)
  BY WithDbIs
<1>2. t = tree \/ \E d \in DbPaths : t = Written(tree, d, Object)
  BY <1>1
<1> HIDE DEF t
<1>3. ASSUME NEW d \in DbPaths PROVE TreeFine(g, Written(tree, d, Object))
  BY DbPathIs, ObjectIsValue, FineTexts, FineWritten DEF TreeInv
<1> QED
  BY <1>1, <1>2, <1>3 DEF t

LEMMA FineOwn ==
  ASSUME TextsTold, NEW g \in Guests, FineInv(g), SyncOwn, IsObject(tree'), TreeFine(g, tree'),
         AttachedIn(tree')
  PROVE  PartFine(g, own'[OwnHome(g)])
<1> DEFINE h == OwnHome(g)
<1>1. h \in DbPaths /\ h # Main
  BY OwnHomeIs
<1>2. own'[h] = IF h \in attached' THEN At(tree', h)
                ELSE IF h \in dbs \cap dbs' THEN own[h] ELSE EmptyObject
  BY <1>1 DEF SyncOwn
<1>3. CASE h \in attached'
  <2>1. Part(tree', h) = At(tree', h)
    BY <1>1, <1>3 DEF AttachedIn, Part
  <2>2. PartFine(g, Part(tree', h))
    BY FinePart DEF IsObject
  <2> QED
    BY <1>2, <1>3, <2>1, <2>2
<1>4. CASE h \notin attached'
  BY <1>2, <1>4, FineEmpty DEF FineInv
<1> QED
  BY <1>3, <1>4

LEMMA FineOnTheWay ==
  ASSUME TextsTold, NEW g \in Guests, FineInv(g), FilesInv, NEW t, IsObject(t), TreeFine(g, t),
         NEW p \in Paths, ~Blocked(t, p), SavedOnTheWay(t, p)
  PROVE  FileFine(g, files'[OwnHome(g)])
<1> DEFINE h == OwnHome(g)
<1>1. h \in AllDbs /\ h # Main
  BY OwnHomeIs
<1>2. CASE UNCHANGED files
  BY <1>2 DEF FineInv
<1>3. ASSUME NEW made \in Begun(t, p),
             files' = [files EXCEPT ![DbOf(p)] =
                         FileOf(Part(WithObjects(t, made), DbOf(p)))]
      PROVE  FileFine(g, files'[h])
  <2> DEFINE w == WithObjects(t, made)
  <2>1. Fits(t, made) /\ made \cap DOMAIN t = {}
    BY MissingFits
  <2>2. TreeFine(g, w) /\ IsTree(w)
    BY <2>1, FineWalk DEF IsObject
  <2> HIDE DEF w
  <2>3. FileFine(g, FileOf(Part(w, h)))
    BY <2>2, FinePart, FineFile
  <2>4. files'[h] = files[h] \/ files'[h] = FileOf(Part(w, h))
    BY <1>1, <1>3 DEF w, FilesInv
  <2> QED
    BY <2>3, <2>4 DEF FineInv
<1> QED
  BY <1>2, <1>3 DEF SavedOnTheWay

LEMMA FineWrite ==
  ASSUME TextsTold, TypeInv, TreeInv', NEW g \in Guests, FineInv(g),
         NEW p \in Paths, p # <<>>, DbOf(p) \in AllDbs, NEW v, IsValue(v),
         IsPrefix(OwnHome(g), p) => Fine(g, v), SetValue(p, v)
  PROVE  FineInv(g)'
<1> DEFINE t == WithDb(NewDb(p))
           f == Front(p)
<1>1. TreeFine(g, t) /\ IsObject(t)
  BY FineWithDb DEF TypeInv, FineInv
<1>2. f \in Paths /\ SyncOwn
  BY FrontOf DEF SetValue
<1>3. IsObject(tree') /\ AttachedIn(tree')
  BY DEF TreeInv, AttachedIn
<1>4. CASE Blocked(t, f)
  <2>1. tree' = t /\ files' = files
    BY <1>4 DEF SetValue, GiveUp
  <2> HIDE DEF t
  <2>2. PartFine(g, own'[OwnHome(g)])
    BY <1>1, <1>2, <1>3, <2>1, FineOwn
  <2> QED
    BY <1>1, <2>1, <2>2 DEF FineInv
<1>5. CASE ~Blocked(t, f)
  <2>1. tree' = Written(t, p, v) /\ SavedOnTheWay(t, f)
    BY <1>5 DEF SetValue, Written
  <2> HIDE DEF t
  <2>2. TreeFine(g, tree')
    BY <1>1, <2>1, FineWritten
  <2>3. PartFine(g, own'[OwnHome(g)])
    BY <1>2, <1>3, <2>2, FineOwn
  <2>4. FileFine(g, files'[OwnHome(g)])
    BY <1>1, <1>2, <1>5, <2>1, FineOnTheWay DEF TypeInv, DiskInv
  <2> QED
    BY <2>2, <2>3, <2>4 DEF FineInv
<1> QED
  BY <1>4, <1>5

LEMMA FineInject ==
  ASSUME TextsTold, TypeInv, TreeInv', NEW g \in Guests, FineInv(g),
         NEW p \in Paths, DbOf(p) \in AllDbs, NEW sub, IsObject(sub), PartFine(g, sub),
         MergeValue(p, sub)
  PROVE  FineInv(g)'
<1> DEFINE t == WithDb(NewDb(p))
<1>1. TreeFine(g, t) /\ IsObject(t)
  BY FineWithDb DEF TypeInv, FineInv
<1>2. SyncOwn
  BY DEF MergeValue
<1>3. IsObject(tree') /\ AttachedIn(tree')
  BY DEF TreeInv, AttachedIn
<1>4. CASE Blocked(t, p)
  <2>1. tree' = t /\ files' = files
    BY <1>4 DEF MergeValue, GiveUp
  <2> HIDE DEF t
  <2>2. PartFine(g, own'[OwnHome(g)])
    BY <1>1, <1>2, <1>3, <2>1, FineOwn
  <2> QED
    BY <1>1, <2>1, <2>2 DEF FineInv
<1>5. CASE ~Blocked(t, p)
  <2>1. tree' = Merged(t, p, sub) /\ SavedOnTheWay(t, p)
    BY <1>5 DEF MergeValue, Merged
  <2> HIDE DEF t
  <2>2. TreeFine(g, tree')
    BY <1>1, <2>1, FineMerged
  <2>3. PartFine(g, own'[OwnHome(g)])
    BY <1>2, <1>3, <2>2, FineOwn
  <2>4. FileFine(g, files'[OwnHome(g)])
    BY <1>1, <1>5, <2>1, FineOnTheWay DEF TypeInv, DiskInv
  <2> QED
    BY <2>2, <2>3, <2>4 DEF FineInv
<1> QED
  BY <1>4, <1>5

LEMMA FineRm ==
  ASSUME TextsTold, TypeInv, TreeInv', NEW g \in Guests, FineInv(g),
         NEW p \in Paths, p # <<>>, RmValue(p)
  PROVE  FineInv(g)'
<1> DEFINE h == OwnHome(g)
<1>1. h \in AllDbs /\ h # Main
  BY OwnHomeIs
<1>2. TreeFine(g, tree')
  <2>1. tree' = Cut(tree, p)
    BY DEF RmValue
  <2> QED
    BY <2>1, CutIs DEF TypeInv, TreeInv, IsObject, TreeFine, FineInv
<1>3. PartFine(g, own'[h])
  BY <1>2, FineOwn DEF RmValue, TreeInv, AttachedIn
<1>4. FileFine(g, files'[h])
  <2>1. CASE p \in DbPaths
    <3>1. files' = [files EXCEPT ![p] = FileOf(Left(p))]
      BY <2>1 DEF RmValue, DropDb
    <3>2. files'[h] = files[h] \/ (p = h /\ files'[h] = FileOf(Left(h)))
      BY <1>1, <3>1 DEF TypeInv, DiskInv, FilesInv
    <3>3. PartFine(g, Left(h))
      BY FineEmpty DEF Left, FineInv
    <3> QED
      BY <3>2, <3>3, FineFile DEF FineInv
  <2>2. CASE p \notin DbPaths
    <3> DEFINE w == Emptied(tree, p)
    <3>1. UNCHANGED files \/ files' = [files EXCEPT ![DbOf(p)] = FileOf(Part(w, DbOf(p)))]
      BY <2>2 DEF RmValue, SavedEmptied
    <3>2. IsTree(w) /\ TreeFine(g, w)
      BY EmptiedIs DEF TypeInv, TreeInv, IsObject, TreeFine, FineInv
    <3> HIDE DEF w
    <3>3. FileFine(g, FileOf(Part(w, h)))
      BY <3>2, FinePart, FineFile
    <3>4. files'[h] = files[h] \/ files'[h] = FileOf(Part(w, h))
      BY <1>1, <3>1 DEF TypeInv, DiskInv, FilesInv
    <3> QED
      BY <3>3, <3>4 DEF FineInv
  <2> QED
    BY <2>1, <2>2
<1> QED
  BY <1>2, <1>3, <1>4 DEF FineInv

LEMMA FineNothing ==
  ASSUME TextsTold, NEW g \in Guests, Nothing
  PROVE  TreeFine(g, tree') /\ PartFine(g, own'[OwnHome(g)])
  BY FineEmpty, OwnHomeIs DEF Nothing

LEMMA FineStart ==
  ASSUME TextsTold, TypeInv, TypeInv', NEW g \in Guests, FineInv(g), Start
  PROVE  FineInv(g)'
<1> DEFINE h == OwnHome(g)
<1>1. h \in Lasting /\ h \in AllDbs /\ h \in DbPaths
  BY OwnHomeIs
<1>2. PartFine(g, Content(Stored(h)))
  BY <1>1, FineEmpty DEF FineInv, FileFine, Stored, Content
<1>3. Part(tree', h) = Content(Stored(h)) /\ own'[h] = Content(Stored(h))
  BY <1>1, StartTree DEF Start, TypeInv, DiskInv
<1>4. TreeFine(g, tree')
  BY <1>2, <1>3, FinePart DEF TypeInv, TreeInv, IsObject
<1>5. files'[h] = NoFile \/ files'[h] = files[h]
  BY <1>1 DEF Start
<1> QED
  BY <1>2, <1>3, <1>4, <1>5 DEF FineInv, FileFine

\* A guest's own part is written by the guest and by domain 0 only.
LEMMA WritersOfHome ==
  ASSUME TextsTold, LookupSenderId, NEW g \in Guests, NEW d \in Domains,
         NEW p \in Paths, DbOf(p) \in AllDbs, NEW q \in SenderPaths(d, p),
         NEW v \in ValuesOf[d], IsPrefix(OwnHome(g), q)
  PROVE  Fine(g, v)
<1>1. CASE d \in {0, g}
  BY <1>1, FineTexts
<1>2. CASE d \notin {0, g}
  <2>1. d \in Guests /\ UuidOf[g] \in Names
    BY <1>2, UuidIs DEF Domains
  <2>2. q \in Paths
    BY SenderPathIs
  <2>3. PICK name \in {UuidOf[d], NoName} : IsPrefix(Home(name), q)
    BY <2>1, SenderPathIs
  <2>4. name \in Names
    BY <2>1, UuidIs
  <2>5. name = UuidOf[g]
    BY <2>1, <2>2, <2>3, <2>4, HomesApart DEF OwnHome
  <2> QED
    BY <1>2, <2>1, <2>5, UuidIs
<1> QED
  BY <1>1, <1>2

LEMMA FineStep ==
  ASSUME TextsTold, LookupSenderId, TypeInv, TypeInv', NEW g \in Guests, FineInv(g),
         [DbNext]_dbVars
  PROVE  FineInv(g)'
<1>1. TreeInv'
  BY DEF TypeInv
<1>2. ASSUME UNCHANGED treeVars PROVE FineInv(g)'
  BY <1>2 DEF treeVars, memVars, diskVars, FineInv
<1>3. CASE Serve
  BY <1>3, FineStart DEF Serve
<1>4. CASE Stop \/ Crash
  BY <1>4, FineNothing DEF Stop, Crash, diskVars, FineInv
<1>5. ASSUME NEW d \in AllDbs, Save(d) PROVE FineInv(g)'
  <2> DEFINE h == OwnHome(g)
  <2>1. /\ tree' = tree /\ own' = own
        /\ files' = [files EXCEPT ![d] = FileOf(Text(d))]
    BY <1>5 DEF Save
  <2>2. h \in AllDbs /\ h # Main
    BY OwnHomeIs
  <2>3. files'[h] = files[h] \/ files'[h] = FileOf(own[h])
    BY <2>1, <2>2 DEF Text, TypeInv, DiskInv, FilesInv
  <2>4. FileFine(g, files'[h])
    BY <2>3, FineFile DEF FineInv
  <2> QED
    BY <2>1, <2>4 DEF FineInv
<1>6. ASSUME NEW d \in Domains, NEW p \in WritePaths, NEW v \in ValuesOf[d],
             NEW q \in SenderPaths(d, p), WriteStep(d, q, v)
      PROVE  FineInv(g)'
  <2>1. p \in Paths /\ DbOf(p) \in AllDbs
    BY PathsAssumption
  <2>2. q \in Paths /\ DbOf(q) \in AllDbs /\ IsValue(v) /\ q # <<>> /\ SetValue(q, v)
    BY <1>6, <2>1, SenderPathIs, ValueIs DEF WriteStep
  <2>3. IsPrefix(OwnHome(g), q) => Fine(g, v)
    BY <2>1, WritersOfHome
  <2> QED
    BY <1>1, <2>2, <2>3, FineWrite
<1>7. ASSUME NEW d \in Domains, NEW i \in Injections, NEW q \in SenderPaths(d, i.path),
             InjectStep(i, q)
      PROVE  FineInv(g)'
  <2>1. q \in Paths /\ DbOf(q) \in AllDbs /\ IsObject(i.value) /\ MergeValue(q, i.value)
    BY <1>7, PathsAssumption, SenderPathIs DEF InjectStep
  <2> QED
    BY <1>1, <2>1, FineTexts, FineInject
<1>8. ASSUME NEW d \in Domains, NEW p \in RmPaths, NEW q \in SenderPaths(d, p), RmStep(q)
      PROVE  FineInv(g)'
  <2>1. q \in Paths /\ q # <<>> /\ RmValue(q)
    BY <1>8, PathsAssumption, SenderPathIs DEF RmStep
  <2> QED
    BY <1>1, <2>1, FineRm
<1>9. ASSUME NEW d \in Domains, Call(d) PROVE FineInv(g)'
  BY <1>2, <1>6, <1>7, <1>8, <1>9, CallSteps
<1>10. CASE UNCHANGED dbVars
  BY <1>2, <1>10 DEF dbVars
<1> QED
  BY <1>3, <1>4, <1>5, <1>9, <1>10 DEF DbNext

LEMMA FineInit ==
  ASSUME TextsTold, NEW g \in Guests, DbInit
  PROVE  FineInv(g)
<1>1. OwnHome(g) \in DbPaths /\ OwnHome(g) \in AllDbs
  BY OwnHomeIs
<1> QED
  BY <1>1, FineEmpty DEF DbInit, Init, FineInv, FileFine

\* An answer that is a guest's own.
AnswerFine(g) ==
    (LookupSenderId /\ answer.to = g /\ ~IsPrefix(Home(NoName), answer.at))
        => Seen \cap Others(g) = {}

LEMMA AnswersFine == (\A g \in Guests : AnswerFine(g)) => AnswersAreOwn
<1> SUFFICES ASSUME \A g \in Guests : AnswerFine(g), NEW g \in Guests,
                    NEW h \in Guests \ {answer.to}, LookupSenderId, answer.to = g,
                    ~IsPrefix(Home(NoName), answer.at)
             PROVE  Seen \cap {ReadText(v) : v \in ValuesOf[h]} = {}
  BY DEF AnswersAreOwn
<1>1. {ReadText(v) : v \in ValuesOf[h]} \subseteq Others(g)
  BY DEF Others
<1>2. Seen \cap Others(g) = {}
  BY DEF AnswerFine
<1> HIDE DEF Seen
<1> QED
  BY <1>1, <1>2

\* Nothing is shown in the reply to a call that reads no value.
LEMMA NothingSeen ==
  ASSUME NEW d, NEW call, call \notin {"read", "dump"}, NEW p, NEW value,
         Reply(d, call, p, value)
  PROVE  Seen' = {}
  BY DEF Reply, Seen

LEMMA ReadFine ==
  ASSUME TextsTold, TypeInv, NEW g \in Guests, FineInv(g), NEW q \in Paths,
         IsPrefix(OwnHome(g), q)
  PROVE  /\ Reply(g, "read", q, ReadAnswer(tree, q)) => Seen' \cap Others(g) = {}
         /\ Reply(g, "dump", q, DumpAnswer(tree, q)) => Seen' \cap Others(g) = {}
<1>1. ASSUME NEW r, r = Object \/ r = Null PROVE ReadText(r) \notin Others(g)
  BY <1>1, FineTexts DEF Fine
<1>2. ASSUME Reply(g, "read", q, ReadAnswer(tree, q)) PROVE Seen' \cap Others(g) = {}
  <2>1. Seen' = {ReadAnswer(tree, q)}
    BY <1>2 DEF Reply, Seen
  <2>2. ReadAnswer(tree, q) \notin Others(g)
    BY FineTexts DEF ReadAnswer, Found, FineInv, TreeFine, Fine
  <2> QED
    BY <2>1, <2>2
<1>3. ASSUME Reply(g, "dump", q, DumpAnswer(tree, q)) PROVE Seen' \cap Others(g) = {}
  <2> DEFINE x == DumpAnswer(tree, q)
  <2>1. Seen' = {ReadText(v) : v \in Range(x)}
    BY <1>3 DEF Reply, Seen
  <2>2. ASSUME NEW r \in DOMAIN x PROVE ReadText(x[r]) \notin Others(g)
    <3>1. CASE q \in DOMAIN tree
      <4>1. x = At(tree, q)
        BY <3>1 DEF DumpAnswer, Found
      <4>2. r \in Paths /\ q \o r \in DOMAIN tree /\ x[r] = tree[q \o r]
        BY <3>1, <4>1, AtIs DEF TypeInv, TreeInv, IsObject
      <4>3. OwnHome(g) \in Paths
        BY OwnHomeIs
      <4>4. IsPrefix(q, q \o r) /\ q \o r \in Paths
        BY <4>2, Concat
      <4>5. IsPrefix(OwnHome(g), q \o r)
        BY <4>3, <4>4, PrefixOrder
      <4> QED
        BY <4>2, <4>5 DEF FineInv, TreeFine, Fine
    <3>2. CASE q \notin DOMAIN tree
      <4>1. x = Leaf(Null)
        BY <3>2 DEF DumpAnswer, Found
      <4>2. x[r] = Null
        BY <4>1 DEF Leaf
      <4> QED
        BY <1>1, <4>2
    <3> QED
      BY <3>1, <3>2
  <2> HIDE DEF x
  <2>3. \A v \in Range(x) : \E r \in DOMAIN x : v = x[r]
    BY DEF Range
  <2> QED
    BY <2>1, <2>2, <2>3
<1> QED
  BY <1>2, <1>3

LEMMA AnswerStep ==
  ASSUME TextsTold, TypeInv, NEW g \in Guests, LookupSenderId => FineInv(g), AnswerFine(g),
         [DbNext]_dbVars
  PROVE  AnswerFine(g)'
<1>1. ASSUME answer' = answer PROVE AnswerFine(g)'
  BY <1>1 DEF AnswerFine, Seen
<1>2. ASSUME Seen' = {} PROVE AnswerFine(g)'
  BY <1>2 DEF AnswerFine
<1>3. CASE Serve
  <2>1. Seen' = {}
    BY <1>3 DEF Serve, NoAnswer, Seen
  <2> QED
    BY <1>2, <2>1
<1>4. ASSUME NEW d \in Domains, Reads(d) PROVE AnswerFine(g)'
  <2>1. PICK p \in ReadPaths : \E q \in SenderPaths(d, p) :
         \/ Reply(d, "read", q, ReadAnswer(tree, q))
         \/ Reply(d, "list", q, ListAnswer(tree, q))
         \/ Reply(d, "dump", q, DumpAnswer(tree, q))
         \/ Reply(d, "exists", q, Found(tree, q))
    BY <1>4 DEF Reads
  <2>2. PICK q \in SenderPaths(d, p) :
         \/ Reply(d, "read", q, ReadAnswer(tree, q))
         \/ Reply(d, "list", q, ListAnswer(tree, q))
         \/ Reply(d, "dump", q, DumpAnswer(tree, q))
         \/ Reply(d, "exists", q, Found(tree, q))
    BY <2>1
  <2>3. CASE Reply(d, "list", q, ListAnswer(tree, q)) \/ Reply(d, "exists", q, Found(tree, q))
    BY <1>2, <2>3, NothingSeen
  <2>4. CASE Reply(d, "read", q, ReadAnswer(tree, q)) \/ Reply(d, "dump", q, DumpAnswer(tree, q))
    <3>1. answer'.to = d /\ answer'.at = q
      BY <2>4 DEF Reply
    <3>2. SUFFICES ASSUME LookupSenderId, d = g, ~IsPrefix(Home(NoName), q)
                   PROVE  Seen' \cap Others(g) = {}
      BY <3>1 DEF AnswerFine
    <3>3. g # 0
      BY GuestsAssumption
    <3>4. PICK name \in {UuidOf[g], NoName} : q = Home(name) \o p
      BY <3>2, <3>3 DEF SenderPaths, Home
    <3>5. p \in Paths /\ Home(name) \in Paths
      BY ReadPathsAssumption, UuidIs, HomeIs, DbPathIs
    <3>6. q \in Paths /\ IsPrefix(Home(name), q)
      BY <3>4, <3>5, Concat
    <3>7. IsPrefix(OwnHome(g), q)
      BY <3>2, <3>6 DEF OwnHome
    <3> QED
      BY <2>4, <3>2, <3>6, <3>7, ReadFine
  <2> QED
    BY <2>2, <2>3, <2>4
<1>5. ASSUME NEW d \in Domains, Call(d), ~Reads(d) PROVE AnswerFine(g)'
  <2>1. Done(d) \/ Refused(d)
    BY <1>5 DEF Call, NoDomId, ReadBinary, Write, Inject, InvalidJson, Rm
  <2> QED
    BY <1>2, <2>1, NothingSeen DEF Done, Refused
<1>6. CASE UNCHANGED dbVars
  BY <1>1, <1>6 DEF dbVars
<1> QED
  BY <1>1, <1>3, <1>4, <1>5, <1>6 DEF DbNext

(***************************************************************************)
(* A guest is never told what only another guest has written: neither the  *)
(* tree, nor an object that was taken out of it, nor a file ever holds     *)
(* such a value in the part a guest's uuid names, whatever the guests and  *)
(* domain 0 call, whichever lookup fails, and across restarts and crashes. *)
(***************************************************************************)
THEOREM AnswersAreTheirOwn ==
  ASSUME TextsTold
  PROVE  DbSpec => []AnswersAreOwn
<1> DEFINE Inv == /\ TypeInv
                  /\ \A g \in Guests : (LookupSenderId => FineInv(g)) /\ AnswerFine(g)
<1>1. DbInit => Inv
  <2>1. DbInit => \A g \in Guests : AnswerFine(g)
    <3>1. NoAnswer.call = "none"
      BY DEF NoAnswer
    <3>2. DbInit => answer = NoAnswer
      BY DEF DbInit
    <3>3. DbInit => Seen = {}
      BY <3>1, <3>2 DEF Seen
    <3> QED
      BY <3>3 DEF AnswerFine
  <2> QED
    BY <2>1, FineInit, TypeInit DEF DbInit
<1>2. Inv /\ [DbNext]_dbVars => Inv'
  <2> SUFFICES ASSUME Inv, [DbNext]_dbVars PROVE Inv'
    OBVIOUS
  <2>1. TypeInv'
    BY DbTypeStep
  <2>2. ASSUME NEW g \in Guests PROVE (LookupSenderId => FineInv(g)') /\ AnswerFine(g)'
    BY <2>1, FineStep, AnswerStep
  <2> QED
    BY <2>1, <2>2
<1>3. Inv => AnswersAreOwn
  BY AnswersFine
<1> QED
  BY <1>1, <1>2, <1>3, PTL DEF DbSpec

-----------------------------------------------------------------------------
(* One map for all domains                                                 *)

\* UsualRequests of the paths that calls have in the tree.
UsualCalls ==
    /\ \A d \in Domains : \A p \in WritePaths : \A q \in SenderPaths(d, p) :
         q \notin TopPaths \cup DbPaths
    /\ \A d \in Domains : \A p \in RmPaths : \A q \in SenderPaths(d, p) : q \notin TopPaths
    /\ \A d \in Domains : \A i \in Injections : \A q \in SenderPaths(d, i.path) :
         q \notin TopPaths

\* What a call that reaches the tree is.
LEMMA CallIsUsual ==
  ASSUME UsualCalls, NEW d \in Domains
  PROVE  /\ \A p \in WritePaths : \A v \in ValuesOf[d] : \A q \in SenderPaths(d, p) :
              WriteStep(d, q, v) =>
                /\ q \in Paths /\ q # <<>> /\ q \notin TopPaths \cup DbPaths
                /\ DbOf(q) \in AllDbs /\ IsValue(v) /\ SetValue(q, v)
         /\ \A i \in Injections : \A q \in SenderPaths(d, i.path) :
              InjectStep(i, q) =>
                /\ q \in Paths /\ q # <<>> /\ q \notin TopPaths
                /\ DbOf(q) \in AllDbs /\ IsObject(i.value) /\ MergeValue(q, i.value)
         /\ \A p \in RmPaths : \A q \in SenderPaths(d, p) :
              RmStep(q) =>
                /\ q \in Paths /\ q # <<>> /\ q \notin TopPaths /\ RmValue(q)
<1>1. ASSUME NEW p \in Paths, DbOf(p) \in AllDbs, NEW q \in SenderPaths(d, p)
      PROVE  q \in Paths /\ DbOf(q) \in AllDbs
  BY <1>1, SenderPathIs
<1>2. ASSUME NEW p \in WritePaths, NEW v \in ValuesOf[d], NEW q \in SenderPaths(d, p),
             WriteStep(d, q, v)
      PROVE  /\ q \in Paths /\ q # <<>> /\ q \notin TopPaths \cup DbPaths
             /\ DbOf(q) \in AllDbs /\ IsValue(v) /\ SetValue(q, v)
  BY <1>1, <1>2, PathsAssumption, ValueIs DEF WriteStep, UsualCalls
<1>3. ASSUME NEW i \in Injections, NEW q \in SenderPaths(d, i.path), InjectStep(i, q)
      PROVE  /\ q \in Paths /\ q # <<>> /\ q \notin TopPaths
             /\ DbOf(q) \in AllDbs /\ IsObject(i.value) /\ MergeValue(q, i.value)
  BY <1>1, <1>3, PathsAssumption DEF InjectStep, UsualCalls
<1>4. ASSUME NEW p \in RmPaths, NEW q \in SenderPaths(d, p), RmStep(q)
      PROVE  q \in Paths /\ q # <<>> /\ q \notin TopPaths /\ RmValue(q)
  BY <1>1, <1>4, PathsAssumption DEF RmStep, UsualCalls
<1> QED
  BY <1>2, <1>3, <1>4

LEMMA DbHashStep == UsualCalls /\ TypeInv /\ HashInv /\ [DbNext]_dbVars => HashInv'
<1> SUFFICES ASSUME UsualCalls, TypeInv, HashInv, [DbNext]_dbVars PROVE HashInv'
  OBVIOUS
<1>1. TreeInv /\ FilesInv
  BY DEF TypeInv, DiskInv
<1>2. ASSUME UNCHANGED <<tree, dbs, attached, own>> PROVE HashInv'
  BY <1>2 DEF HashInv
<1>3. CASE Serve
  BY <1>1, <1>3, StartHash DEF Serve
<1>4. CASE Stop \/ Crash
  BY <1>4, NothingHash DEF Stop, Crash
<1>5. ASSUME NEW d \in AllDbs, Save(d) PROVE HashInv'
  BY <1>2, <1>5 DEF Save
<1>6. ASSUME NEW d \in Domains, Call(d) PROVE HashInv'
  <2>1. CASE UNCHANGED treeVars
    BY <1>2, <2>1 DEF treeVars, memVars
  <2>2. ASSUME NEW p \in WritePaths, NEW v \in ValuesOf[d], NEW q \in SenderPaths(d, p),
               WriteStep(d, q, v)
        PROVE  HashInv'
    BY <1>1, <2>2, CallIsUsual, HashSetValue
  <2>3. ASSUME NEW i \in Injections, NEW q \in SenderPaths(d, i.path), InjectStep(i, q)
        PROVE  HashInv'
    BY <1>1, <2>3, CallIsUsual, HashMergeValue
  <2>4. ASSUME NEW p \in RmPaths, NEW q \in SenderPaths(d, p), RmStep(q) PROVE HashInv'
    BY <1>1, <2>4, CallIsUsual, HashRmValue
  <2> QED
    BY <1>6, <2>1, <2>2, <2>3, <2>4, CallSteps
<1>7. CASE UNCHANGED dbVars
  BY <1>2, <1>7 DEF dbVars, treeVars, memVars
<1> QED
  BY <1>3, <1>4, <1>5, <1>6, <1>7 DEF DbNext

\* The store of all domains takes the same steps as that of DBTree, at other paths.
LEMMA SameOpen ==
  /\ DbStore!Open <=> Store!Open
  /\ DbStore!Close <=> Store!Close
  /\ DbStore!storeVars = Store!storeVars
  BY DEF Store!Open, DbStore!Open, Store!Close, DbStore!Close,
         Store!storeVars, DbStore!storeVars,
         Store!TreeOf, DbStore!TreeOf, Store!AllDbs, DbStore!AllDbs,
         Store!EmptyObject, DbStore!EmptyObject, Store!DbPaths, DbStore!DbPaths,
         Store!Lasting, DbStore!Lasting, Store!Content, DbStore!Content,
         Store!Main, DbStore!Main, Store!DbOf, DbStore!DbOf, Store!Rest, DbStore!Rest,
         Store!Object, DbStore!Object

LEMMA SameSave ==
  ASSUME NEW d
  PROVE  DbStore!Save(d) <=> Store!Save(d)
  BY DEF Store!Save, DbStore!Save, Store!FileOf, DbStore!FileOf, Store!Part, DbStore!Part,
         Store!MainPart, DbStore!MainPart, Store!At, DbStore!At, Store!Below, DbStore!Below,
         Store!Rest, DbStore!Rest, Store!IsPrefix, DbStore!IsPrefix, Store!Main, DbStore!Main,
         Store!EmptyObject, DbStore!EmptyObject, Store!Object, DbStore!Object

LEMMA SameMidway ==
  ASSUME NEW d, NEW trees
  PROVE  DbStore!SavedMidway(d, trees) <=> Store!SavedMidway(d, trees)
  BY DEF Store!SavedMidway, DbStore!SavedMidway,
         Store!FileOf, DbStore!FileOf, Store!Part, DbStore!Part,
         Store!MainPart, DbStore!MainPart, Store!At, DbStore!At, Store!Below, DbStore!Below,
         Store!Rest, DbStore!Rest, Store!IsPrefix, DbStore!IsPrefix, Store!Main, DbStore!Main,
         Store!EmptyObject, DbStore!EmptyObject, Store!Object, DbStore!Object

LEMMA SameOperators ==
  ASSUME NEW t, NEW p, NEW x
  PROVE  /\ DbStore!DbOf(p) = Store!DbOf(p) /\ DbStore!Front(p) = Store!Front(p)
         /\ DbStore!OnTheWay(t, p) = Store!OnTheWay(t, p)
         /\ DbStore!Written(t, p, x) = Store!Written(t, p, x)
         /\ DbStore!Merged(t, p, x) = Store!Merged(t, p, x)
         /\ DbStore!Cut(t, p) = Store!Cut(t, p) /\ DbStore!Emptied(t, p) = Store!Emptied(t, p)
         /\ DbStore!DbPaths = Store!DbPaths /\ DbStore!AllDbs = Store!AllDbs
         /\ DbStore!EmptyObject = Store!EmptyObject
  BY DEF Store!DbOf, DbStore!DbOf, Store!Front, DbStore!Front,
         Store!OnTheWay, DbStore!OnTheWay, Store!Begun, DbStore!Begun,
         Store!Written, DbStore!Written, Store!Merged, DbStore!Merged,
         Store!Cut, DbStore!Cut, Store!Emptied, DbStore!Emptied,
         Store!Blocked, DbStore!Blocked, Store!PathsTo, DbStore!PathsTo,
         Store!Missing, DbStore!Missing, Store!WithObjects, DbStore!WithObjects,
         Store!Put, DbStore!Put, Store!Leaf, DbStore!Leaf, Store!Unite, DbStore!Unite,
         Store!Replaced, DbStore!Replaced, Store!Joined, DbStore!Joined,
         Store!IsArray, DbStore!IsArray, Store!Kind, DbStore!Kind,
         Store!Below, DbStore!Below, Store!Rest, DbStore!Rest,
         Store!IsPrefix, DbStore!IsPrefix, Store!Object, DbStore!Object,
         Store!Main, DbStore!Main, Store!DbPaths, DbStore!DbPaths,
         Store!AllDbs, DbStore!AllDbs, Store!EmptyObject, DbStore!EmptyObject

LEMMA SameRequests ==
  ASSUME NEW p, NEW x
  PROVE  /\ DbStore!Write(p, x) <=> Store!Write(p, x)
         /\ DbStore!Inject(p, x) <=> Store!Inject(p, x)
         /\ DbStore!Rm(p) <=> Store!Rm(p)
  BY SameMidway, SameOperators
  DEF Store!Write, DbStore!Write, Store!Inject, DbStore!Inject, Store!Rm, DbStore!Rm

DbStoreStep == DbStore!Next \/ Stutters

LEMMA DbStoreNext ==
  ASSUME UsualCalls, ContentsTold, TypeInv, HashInv, [DbNext]_dbVars
  PROVE  DbStoreStep
<1>1. TreeInv /\ FilesInv
  BY DEF TypeInv, DiskInv
<1>2. ASSUME UNCHANGED treeVars PROVE Stutters
  BY <1>2, SavedSame, Quiet DEF treeVars, memVars, diskVars
<1>3. CASE Serve
  <2>1. Store!Open
    BY <1>1, <1>3, StartOpens DEF Serve
  <2> QED
    BY <2>1, SameOpen DEF DbStoreStep, DbStore!Next
<1>4. CASE Stop \/ Crash
  BY <1>4, EndCloses, SameOpen DEF DbStoreStep, DbStore!Next
<1>5. ASSUME NEW d \in AllDbs, Save(d) PROVE DbStoreStep
  <2>1. Store!Save(d) \/ Stutters
    BY <1>1, <1>5, SaveSaves
  <2>2. d \in DbStore!AllDbs
    BY SameDbs, SameOperators
  <2> QED
    BY <2>1, <2>2, SameSave DEF DbStoreStep, DbStore!Next
<1>6. ASSUME NEW d \in Domains, NEW p \in WritePaths, NEW v \in ValuesOf[d],
             NEW q \in SenderPaths(d, p), WriteStep(d, q, v)
      PROVE  DbStoreStep
  <2>1. Store!Write(q, v) \/ Stutters
    BY <1>1, <1>6, CallIsUsual, SetValueWrites
  <2>2. q \in UNION {SenderPaths(e, r) : e \in Domains, r \in WritePaths} /\ v \in Values
    BY ValueIs
  <2> QED
    BY <2>1, <2>2, SameRequests DEF DbStoreStep, DbStore!Next
<1>7. ASSUME NEW d \in Domains, NEW i \in Injections, NEW q \in SenderPaths(d, i.path),
             InjectStep(i, q)
      PROVE  DbStoreStep
  <2> DEFINE j == [path |-> q, value |-> i.value]
  <2>1. Store!Inject(q, i.value) \/ Stutters
    BY <1>1, <1>7, CallIsUsual, MergeValueInjects
  <2>2. j \in UNION {{[path |-> r, value |-> k.value] : r \in SenderPaths(e, k.path)} :
                     e \in Domains, k \in Injections}
    <3> DEFINE Of(e, k) == {[path |-> r, value |-> k.value] : r \in SenderPaths(e, k.path)}
    <3>1. j \in Of(d, i)
      OBVIOUS
    <3> HIDE DEF Of, j
    <3>2. j \in UNION {Of(e, k) : e \in Domains, k \in Injections}
      BY <3>1
    <3> QED
      BY <3>2 DEF Of
  <2>3. j.path = q /\ j.value = i.value
    OBVIOUS
  <2> HIDE DEF j
  <2>4. DbStore!Inject(j.path, j.value) \/ Stutters
    BY <2>1, <2>3, SameRequests
  <2> QED
    BY <2>2, <2>4 DEF DbStoreStep, DbStore!Next
<1>8. ASSUME NEW d \in Domains, NEW p \in RmPaths, NEW q \in SenderPaths(d, p), RmStep(q)
      PROVE  DbStoreStep
  <2>1. Store!Rm(q)
    BY <1>1, <1>8, CallIsUsual, RmValueRms
  <2>2. q \in UNION {SenderPaths(e, r) : e \in Domains, r \in RmPaths}
    OBVIOUS
  <2> QED
    BY <2>1, <2>2, SameRequests DEF DbStoreStep, DbStore!Next
<1>9. ASSUME NEW d \in Domains, Call(d) PROVE DbStoreStep
  BY <1>2, <1>6, <1>7, <1>8, <1>9, CallSteps DEF DbStoreStep
<1>10. CASE UNCHANGED dbVars
  BY <1>2, <1>10 DEF dbVars, DbStoreStep
<1> QED
  BY <1>3, <1>4, <1>5, <1>9, <1>10 DEF DbNext

(***************************************************************************)
(* The calls of all domains together work on the one map: each does to it  *)
(* at the path the caller's lookup gives it what the call says, and        *)
(* nothing a guest or a lost lookup can do parts what is shown from what   *)
(* is saved.                                                               *)
(***************************************************************************)
THEOREM CallsServeTreeStore ==
  ASSUME UsualCalls, ContentsTold
  PROVE  DbSpec => ServesTreeStore
<1>1. DbInit => TypeInv /\ HashInv
  BY TypeInit, HashInit DEF DbInit
<1>2. TypeInv /\ HashInv /\ [DbNext]_dbVars => TypeInv' /\ HashInv'
  BY DbTypeStep, DbHashStep
<1>3. TypeInv /\ HashInv /\ [DbNext]_dbVars =>
        [DbStore!storeVars' # DbStore!storeVars /\ DbStore!Next]_(DbStore!storeVars)
  <2>1. Stutters => UNCHANGED DbStore!storeVars
    BY DEF Stutters, Store!storeVars, DbStore!storeVars
  <2> QED
    BY <2>1, DbStoreNext DEF DbStoreStep
<1>4. DbInit => DbStore!Init
  <2>1. DbInit => Store!Init
    BY StoreInit DEF DbInit
  <2>2. Store!Init => DbStore!Init
    BY SameOperators DEF Store!Init, DbStore!Init
  <2> QED
    BY <2>1, <2>2
<1> QED
  BY <1>1, <1>2, <1>3, <1>4, PTL DEF DbSpec, ServesTreeStore, DbStore!Spec

=============================================================================
