------------------------------ MODULE ToolsProofs ------------------------------
(***************************************************************************)
(* Theorems about Tools: for any processes, texts, paths and values, what  *)
(* the tools show agrees, an injection that is repeated changes nothing    *)
(* but arrays, what db-write has reported stays, and an answer is that of  *)
(* one's own call.                                                         *)
(***************************************************************************)
EXTENDS Tools, DbdProofs, TreesProofs

\* A tree is told from no file.
FilesTold == ~IsTree(NoFile)

-----------------------------------------------------------------------------
(* What is printed of a value                                              *)

\* db-ls words a value as Db does for db-read.
LEMMA LsTextIsReadText ==
  ASSUME NEW v, IsValue(v), ~IsArray(v)
  PROVE  LsText(v)[2] = ReadText(v)
<1>1. \A s : Text(s)[2] = s /\ Quoted(s)[2] = s
  BY DEF Text, Quoted
<1>2. Kind(v) \in {"object", "null", "string", "bool", "number"}
  BY DEF IsValue, IsArray
<1>3. CASE Kind(v) = "object"
  <2>1. Kind(v) # "null" /\ Kind(v) # "string" /\ Kind(v) # "bool" /\ Kind(v) # "number"
    BY <1>3
  <2> QED
    BY <1>1, <1>3, <2>1, Zenon DEF LsText, ReadText
<1>4. CASE Kind(v) = "null"
  <2>1. Kind(v) # "object" /\ Kind(v) # "string" /\ Kind(v) # "bool" /\ Kind(v) # "number"
    BY <1>4
  <2> QED
    BY <1>1, <1>4, <2>1, Zenon DEF LsText, ReadText
<1>5. CASE Kind(v) = "string"
  <2>1. Kind(v) # "object" /\ Kind(v) # "null" /\ Kind(v) # "bool" /\ Kind(v) # "number"
    BY <1>5
  <2> QED
    BY <1>1, <1>5, <2>1, Zenon DEF LsText, ReadText
<1>6. CASE Kind(v) = "bool"
  <2>1. Kind(v) # "object" /\ Kind(v) # "null" /\ Kind(v) # "string" /\ Kind(v) # "number"
    BY <1>6
  <2> QED
    BY <1>1, <1>6, <2>1, Zenon DEF LsText, ReadText
<1>7. CASE Kind(v) = "number"
  <2>1. Kind(v) # "object" /\ Kind(v) # "null" /\ Kind(v) # "string" /\ Kind(v) # "bool"
    BY <1>7
  <2> QED
    BY <1>1, <1>7, <2>1, Zenon DEF LsText, ReadText
<1> QED
  BY <1>2, <1>3, <1>4, <1>5, <1>6, <1>7

LEMMA StringReads == \A s : ReadText(String(s)) = s
<1> SUFFICES ASSUME NEW s PROVE ReadText(String(s)) = s
  OBVIOUS
<1>1. Kind(String(s)) = "string" /\ String(s)[2] = s
  BY DEF String, Kind
<1>2. Kind(String(s)) # "bool" /\ Kind(String(s)) # "number" /\ Kind(String(s)) # "null"
  BY <1>1
<1> QED
  BY <1>1, <1>2, Zenon DEF ReadText

LEMMA NullIs == Null # Object /\ ~IsArray(Null) /\ LsText(Null) = Text("null")
  BY Zenon DEF Null, Object, IsArray, Kind, LsText

-----------------------------------------------------------------------------
(* Lists and dumps                                                         *)

LEMMA OneKey ==
  ASSUME NEW r \in Paths, Len(r) = 1
  PROVE  r # <<>> /\ Front(r) = <<>>
<1>1. r # <<>>
  BY EmptyPath
<1>2. Len(Front(r)) = Len(r) - 1 /\ Front(r) \in Paths
  BY <1>1, FrontOf
<1>3. Len(Front(r)) = 0 /\ <<>> \in Paths /\ Len(<<>>) = 0
  BY <1>2, EmptyPath
<1> DEFINE f == Front(r)
<1> HIDE DEF f
<1>4. f = <<>>
  BY <1>2, <1>3, PathsEqual DEF f
<1> QED
  BY <1>1, <1>4 DEF f

\* The keys that are listed at p, as paths below it.
LEMMA ListIs ==
  ASSUME NEW t, IsTree(t), NEW p \in Paths
  PROVE  ListAnswer(t, p) = {Last(r) : r \in {r \in Paths : Len(r) = 1 /\ p \o r \in DOMAIN t}}
<1> DEFINE R == {r \in Paths : Len(r) = 1 /\ p \o r \in DOMAIN t}
           Q == {q \in DOMAIN t : q # <<>> /\ Front(q) = p}
<1>1. ASSUME NEW q \in Q PROVE \E r \in R : Last(r) = Last(q)
  <2> DEFINE r == Rest(p, q)
  <2>1. q \in DOMAIN t /\ q # <<>> /\ Front(q) = p
    OBVIOUS
  <2>2. q \in Paths
    BY <2>1, RestOfTree
  <2>3. IsPrefix(p, q) /\ Len(p) = Len(q) - 1 /\ Len(q) \in Nat \ {0}
    BY <2>1, <2>2, FrontOf
  <2>4. /\ r \in Paths /\ Len(r) = Len(q) - Len(p) /\ p \o r = q
        /\ \A i \in 1 .. Len(q) - Len(p) : r[i] = q[Len(p) + i]
    BY <2>2, <2>3, RestOf
  <2> HIDE DEF r
  <2>5. Len(r) = 1 /\ r[1] = q[Len(q)]
    BY <2>3, <2>4
  <2> QED
    BY <2>1, <2>4, <2>5 DEF Last
<1>2. ASSUME NEW r \in R PROVE \E q \in Q : Last(q) = Last(r)
  <2> DEFINE q == p \o r
  <2>1. r \in Paths /\ Len(r) = 1 /\ q \in DOMAIN t
    OBVIOUS
  <2>2. r # <<>> /\ Front(r) = <<>>
    BY <2>1, OneKey
  <2>3. /\ q \in Paths /\ Len(q) = Len(p) + 1 /\ p \o <<>> = p /\ q # p
        /\ q[Len(p) + 1] = r[1]
    <3>1. Len(p) \in Nat
      BY DEF Paths
    <3>2. /\ q \in Paths /\ Len(q) = Len(p) + Len(r) /\ p \o <<>> = p /\ (q = p <=> r = <<>>)
          /\ \A i \in 1 .. Len(p) + Len(r) : q[i] = IF i <= Len(p) THEN p[i] ELSE r[i - Len(p)]
      BY <2>1, Concat
    <3> HIDE DEF q
    <3>3. q[Len(p) + 1] = r[Len(p) + 1 - Len(p)]
      BY <2>1, <3>1, <3>2
    <3> QED
      BY <2>1, <2>2, <3>1, <3>2, <3>3
  <2>4. Front(q) = p
    BY <2>1, <2>2, <2>3, FrontOfConcat
  <2> HIDE DEF q
  <2>5. q # <<>> /\ Last(q) = Last(r)
    <3>1. Len(p) \in Nat
      BY DEF Paths
    <3> QED
      BY <2>1, <2>3, <3>1, EmptyPath DEF Last
  <2> QED
    BY <2>1, <2>4, <2>5
<1> HIDE DEF R, Q
<1>3. {Last(q) : q \in Q} = {Last(r) : r \in R}
  BY <1>1, <1>2
<1> QED
  BY <1>3 DEF ListAnswer, R, Q

LEMMA AppendedKey ==
  ASSUME NEW p \in Paths, NEW r \in Paths, Len(r) = 1
  PROVE  Append(p, Last(r)) = p \o r
<1>1. r[1] \in Keys /\ Last(r) = r[1] /\ Len(p) \in Nat
  BY DEF Last, Paths
<1> DEFINE q == Append(p, r[1])
           u == p \o r
<1>2. /\ q \in Paths /\ Len(q) = Len(p) + 1 /\ q[Len(p) + 1] = r[1]
      /\ \A i \in 1 .. Len(p) : q[i] = p[i]
  BY <1>1, AppendProperties DEF Paths
<1>3. /\ u \in Paths /\ Len(u) = Len(p) + Len(r)
      /\ \A i \in 1 .. Len(p) + Len(r) : u[i] = IF i <= Len(p) THEN p[i] ELSE r[i - Len(p)]
  BY Concat
<1> HIDE DEF q, u
<1>4. \A i \in 1 .. Len(q) : q[i] = u[i]
  BY <1>1, <1>2, <1>3
<1>5. q = u
  BY <1>1, <1>2, <1>3, <1>4, PathsEqual
<1> QED
  BY <1>1, <1>5 DEF q, u

\* What each tool shows of what is at p.
LEMMA LinesOfNothing ==
  /\ LsPrints(Leaf(Null)) = Leaf(Quoted(""))
  /\ DOMAIN Leaf(Quoted("")) = {<<>>} /\ Leaf(Quoted(""))[<<>>][2] = ""
<1>1. Leaf(Null)[<<>>] = Null
  BY DEF Leaf
<1>2. LsPrints(Leaf(Null)) = Leaf(Quoted(""))
  BY <1>1, Zenon DEF LsPrints
<1>3. Quoted("")[2] = ""
  BY DEF Quoted
<1> QED
  BY <1>2, <1>3 DEF Leaf

LEMMA NoKeys ==
  ASSUME NEW t, IsTree(t), NEW p \in Paths, p \in DOMAIN t => t[p] # Object
  PROVE  ListAnswer(t, p) = {}
<1>1. \A q \in DOMAIN t : q # <<>> => Front(q) # p
  BY RestOfTree
<1> QED
  BY <1>1 DEF ListAnswer

LEMMA AgreeOnNothing ==
  ASSUME NEW t, IsTree(t), NEW p \in Paths, p \notin DOMAIN t
  PROVE  /\ LsPrints(DumpAnswer(t, p)) = Leaf(Quoted(""))
         /\ ListAnswer(t, p) = {} /\ ReadAnswer(t, p \o <<>>) = ""
<1>1. p \o <<>> = p
  BY Concat, EmptyPath
<1>2. DumpAnswer(t, p) = Leaf(Null) /\ ReadAnswer(t, p) = ""
  BY DEF DumpAnswer, ReadAnswer, Found
<1> QED
  BY <1>1, <1>2, LinesOfNothing, NoKeys

LEMMA AgreeOnNull ==
  ASSUME NEW t, IsTree(t), NEW p \in DOMAIN t, t[p] = Null
  PROVE  /\ LsPrints(DumpAnswer(t, p)) = Leaf(Quoted("")) /\ ListAnswer(t, p) = {}
<1>1. p \in Paths /\ At(t, p)[<<>>] = Null
  BY RestOfTree, AtIs
<1>2. DumpAnswer(t, p) = At(t, p)
  BY DEF DumpAnswer, Found
<1>3. LsPrints(At(t, p)) = Leaf(Quoted(""))
  BY <1>1, Zenon DEF LsPrints
<1> QED
  BY <1>1, <1>2, <1>3, NoKeys, NullIs

LEMMA AgreeOnValue ==
  ASSUME NEW t, IsTree(t), NEW p \in DOMAIN t, t[p] # Null
  PROVE  LET lines == LsPrints(DumpAnswer(t, p)) IN
         /\ \A q : q \in DOMAIN lines <=>
              q \in Paths /\ p \o q \in DOMAIN t /\ ~IsArray(t[p \o q])
         /\ \A q \in DOMAIN lines : lines[q][2] = ReadAnswer(t, p \o q)
<1> DEFINE a == At(t, p)
           lines == [q \in {q \in DOMAIN a : ~IsArray(a[q])} |-> LsText(a[q])]
<1>1. /\ a[<<>>] # Null
      /\ \A r : r \in DOMAIN a <=> r \in Paths /\ p \o r \in DOMAIN t
      /\ \A r \in DOMAIN a : a[r] = t[p \o r]
  BY AtIs
<1>2. LsPrints(DumpAnswer(t, p)) = lines
  <2>1. DumpAnswer(t, p) = a
    BY DEF DumpAnswer, Found
  <2> QED
    BY <1>1, <2>1, Zenon DEF LsPrints
<1> HIDE DEF a
<1>3. DOMAIN lines = {q \in DOMAIN a : ~IsArray(a[q])}
  OBVIOUS
<1>4. ASSUME NEW q \in DOMAIN lines PROVE lines[q][2] = ReadAnswer(t, p \o q)
  <2> DEFINE v == t[p \o q]
  <2>1. p \o q \in DOMAIN t /\ a[q] = v /\ ~IsArray(v) /\ lines[q] = LsText(v)
    BY <1>1, <1>3
  <2>2. IsValue(v)
    BY <2>1, RestOfTree
  <2> HIDE DEF v, lines
  <2>3. LsText(v)[2] = ReadText(v)
    BY <2>1, <2>2, LsTextIsReadText
  <2> QED
    BY <2>1, <2>3, Zenon DEF ReadAnswer, Found, v
<1>5. \A q : q \in DOMAIN lines <=> q \in Paths /\ p \o q \in DOMAIN t /\ ~IsArray(t[p \o q])
  BY <1>1, <1>3
<1> HIDE DEF lines
<1> QED
  BY <1>2, <1>4, <1>5

\* ToolsAgree of a tree, and at one path.
LEMMA AgreeAt ==
  ASSUME NEW t, IsTree(t), NEW p \in Paths
  PROVE  LET lines == LsPrints(DumpAnswer(t, p)) IN
         /\ \A q \in DOMAIN lines :
              lines[q][2] = ReadAnswer(t, p \o q) \/ (q = <<>> /\ t[p] = Null)
         /\ ListAnswer(t, p) =
              {Last(q) : q \in {q \in DOMAIN lines : Len(q) = 1}} \cup
              {k \in ListAnswer(t, p) : IsArray(t[Append(p, k)])}
         /\ ~Found(t, p) => lines = Leaf(Quoted(""))
<1> DEFINE lines == LsPrints(DumpAnswer(t, p))
           listed == {Last(q) : q \in {q \in DOMAIN lines : Len(q) = 1}}
           arrays == {k \in ListAnswer(t, p) : IsArray(t[Append(p, k)])}
<1>1. CASE p \notin DOMAIN t \/ t[p] = Null
  <2>1. lines = Leaf(Quoted("")) /\ ListAnswer(t, p) = {}
        /\ (p \notin DOMAIN t => ReadAnswer(t, p \o <<>>) = "")
    BY <1>1, AgreeOnNothing, AgreeOnNull
  <2> HIDE DEF lines
  <2>2. DOMAIN lines = {<<>>} /\ lines[<<>>][2] = "" /\ Len(<<>>) = 0
    BY <2>1, LinesOfNothing
  <2>3. listed = {}
    <3>1. {q \in DOMAIN lines : Len(q) = 1} = {}
      <4>1. \A q \in DOMAIN lines : Len(q) = 0
        BY <2>2
      <4> QED
        BY <4>1
    <3> QED
      BY <3>1
  <2>4. \A q \in DOMAIN lines :
          lines[q][2] = ReadAnswer(t, p \o q) \/ (q = <<>> /\ t[p] = Null)
    BY <1>1, <2>1, <2>2
  <2> QED
    BY <2>1, <2>3, <2>4 DEF lines
<1>2. CASE p \in DOMAIN t /\ t[p] # Null
  <2> DEFINE R == {r \in Paths : Len(r) = 1 /\ p \o r \in DOMAIN t}
  <2>1. /\ \A q : q \in DOMAIN lines <=>
             q \in Paths /\ p \o q \in DOMAIN t /\ ~IsArray(t[p \o q])
        /\ \A q \in DOMAIN lines : lines[q][2] = ReadAnswer(t, p \o q)
    BY <1>2, AgreeOnValue
  <2>2. ListAnswer(t, p) = {Last(r) : r \in R}
    BY ListIs
  <2> HIDE DEF lines
  <2>3. listed \subseteq ListAnswer(t, p)
    BY <2>1, <2>2
  <2>4. ASSUME NEW r \in R PROVE Last(r) \in listed \/ IsArray(t[Append(p, Last(r))])
    <3>1. r \in Paths /\ Len(r) = 1 /\ p \o r \in DOMAIN t
      OBVIOUS
    <3>2. Append(p, Last(r)) = p \o r
      BY <3>1, AppendedKey
    <3> QED
      BY <2>1, <3>1, <3>2
  <2> HIDE DEF R
  <2>5. ListAnswer(t, p) = listed \cup arrays
    BY <2>2, <2>3, <2>4
  <2> QED
    BY <1>2, <2>1, <2>5 DEF lines, Found
<1> QED
  BY <1>1, <1>2

-----------------------------------------------------------------------------
(* Trees and files stay trees                                              *)

\* What is at the paths of databases, and above them, is an object.
Divided(t) == \A q \in (TopPaths \cup DbPaths) \cap DOMAIN t : t[q] = Object

IsGoodFile(b, x) ==
    x # NoFile => IsObject(x) /\ IsMap(x) /\ (b = Main => NoTops(x))

TreesInv ==
    /\ \A d \in Daemons : IsObject(mem[d]) /\ Divided(mem[d])
    /\ \A b \in AllDbs : IsGoodFile(b, files[b])

LEMMA RequestIs ==
  ASSUME NEW r \in Requests
  PROVE  /\ r.at \in Paths
         /\ r.method \in Changing => r.at \notin TopPaths /\ DbOf(r.at) \in AllDbs
         /\ r.method = "write" => r.at \notin DbPaths
  BY RequestsAssumption DEF TopPaths

LEMMA DividedWritten ==
  ASSUME NEW t, IsObject(t), Divided(t), NEW p \in Paths, p # <<>>,
         p \notin TopPaths \cup DbPaths, NEW v, IsValue(v)
  PROVE  IsObject(Written(t, p, v)) /\ Divided(Written(t, p, v))
<1>1. CASE Blocked(t, Front(p))
  BY <1>1 DEF Written
<1>2. CASE ~Blocked(t, Front(p))
  <2> DEFINE u == Written(t, p, v)
  <2>1. /\ IsObject(u)
        /\ \A q : q \in DOMAIN u <=> \/ q = p
                                     \/ q \in DOMAIN t /\ ~IsPrefix(p, q)
                                     \/ q \in Missing(t, Front(p))
        /\ \A q \in DOMAIN t : ~IsPrefix(p, q) => u[q] = t[q]
        /\ \A q \in Missing(t, Front(p)) : u[q] = Object
    BY <1>2, WrittenIs
  <2> HIDE DEF u
  <2>2. Divided(u)
    BY <2>1 DEF Divided
  <2> QED
    BY <2>1, <2>2 DEF u
<1> QED
  BY <1>1, <1>2

\* Above the database's own path there is only that of vm or dom-store.
LEMMA AtDatabase ==
  ASSUME NEW p \in Paths, p # <<>>, p \notin TopPaths,
         NEW q \in TopPaths \cup DbPaths, IsPrefix(p, q)
  PROVE  q = p
<1>1. q \in Paths /\ q # <<>> /\ (Front(q) = <<>> \/ Front(q) \in TopPaths)
  BY TopPathIs, DbPathIs
<1>2. ASSUME q # p PROVE FALSE
  <2>1. IsPrefix(p, Front(q))
    BY <1>1, <1>2, PrefixOfFront
  <2>2. CASE Front(q) = <<>>
    BY <2>1, <2>2, PrefixOrder
  <2>3. CASE Front(q) \in TopPaths
    <3> DEFINE f == Front(q)
    <3>1. f \in Paths /\ f # <<>> /\ Front(f) = <<>> /\ f # p /\ IsPrefix(p, f)
      BY <2>1, <2>3, TopPathIs
    <3> HIDE DEF f
    <3>2. IsPrefix(p, <<>>)
      BY <3>1, PrefixOfFront
    <3> QED
      BY <3>2, PrefixOrder
  <2> QED
    BY <1>1, <2>2, <2>3
<1> QED
  BY <1>2

LEMMA DividedMerged ==
  ASSUME NEW t, IsObject(t), Divided(t), NEW p \in Paths, p # <<>>,
         p \notin TopPaths, NEW sub, IsObject(sub)
  PROVE  IsObject(Merged(t, p, sub)) /\ Divided(Merged(t, p, sub))
<1>1. CASE Blocked(t, p)
  BY <1>1 DEF Merged
<1>2. CASE ~Blocked(t, p)
  <2> DEFINE u == Merged(t, p, sub)
             New(q) == q \in Paths /\ IsPrefix(p, q) /\ Rest(p, q) \in DOMAIN sub
  <2>1. /\ IsObject(u)
        /\ \A q : q \in DOMAIN u <=> \/ New(q)
                                     \/ q \in DOMAIN t /\ ~Replaced(p, sub, q)
                                     \/ q \in Missing(t, p)
        /\ p \in DOMAIN u /\ u[p] = Object
        /\ \A q \in DOMAIN t : ~Replaced(p, sub, q) /\ ~New(q) => u[q] = t[q]
        /\ \A q \in Missing(t, p) : u[q] = Object
    BY <1>2, MergedIs
  <2>2. \A q \in TopPaths \cup DbPaths : IsPrefix(p, q) => q = p
    BY AtDatabase
  <2> HIDE DEF u
  <2>3. Divided(u)
    BY <2>1, <2>2 DEF Divided
  <2> QED
    BY <2>1, <2>3 DEF u
<1> QED
  BY <1>1, <1>2

LEMMA DividedCut ==
  ASSUME NEW t, IsObject(t), Divided(t), NEW p \in Paths, p # <<>>
  PROVE  IsObject(Cut(t, p)) /\ Divided(Cut(t, p))
  BY CutIs DEF IsObject, Divided

\* What a request leaves.
LEMMA AfterIs ==
  ASSUME NEW r \in Requests, Doable(r), NEW t, IsObject(t), Divided(t)
  PROVE  IsObject(After(r, t)) /\ Divided(After(r, t))
<1> USE RequestIs DEF Changing
<1>1. CASE r.at = <<>> \/ r.method \notin Changing
  <2>1. r.at = <<>> \/ (r.method # "write" /\ r.method # "inject" /\ r.method # "rm")
    BY <1>1
  <2>2. After(r, t) = t
    BY <2>1, Zenon DEF After
  <2> QED
    BY <2>2
<1>2. CASE r.at # <<>> /\ r.method = "write"
  <2>1. After(r, t) = Written(t, r.at, String(r.value))
    BY <1>2, Zenon DEF After
  <2> QED
    BY <1>2, <2>1, StringIsValue, DividedWritten
<1>3. CASE r.at # <<>> /\ r.method = "inject"
  <2>1. After(r, t) = Merged(t, r.at, FromJson[r.value])
    BY <1>3, Zenon DEF After
  <2>2. IsObject(FromJson[r.value])
    BY <1>3, JsonAssumption DEF Doable
  <2> QED
    BY <1>3, <2>1, <2>2, DividedMerged
<1>4. CASE r.at # <<>> /\ r.method = "rm"
  <2>1. After(r, t) = Cut(t, r.at)
    BY <1>4, Zenon DEF After
  <2> QED
    BY <1>4, <2>1, DividedCut
<1> QED
  BY <1>1, <1>2, <1>3, <1>4

\* What there is while a request is under way, and may be saved of it.
LEMMA OnTheWayIs ==
  ASSUME NEW t, IsObject(t), Divided(t), NEW p \in Paths, NEW m \in OnTheWay(t, p)
  PROVE  IsObject(m) /\ Divided(m)
<1>1. ~Blocked(t, p)
  BY DEF OnTheWay
<1>2. PICK made \in Begun(t, p) : m = WithObjects(t, made)
  BY <1>1 DEF OnTheWay
<1>3. Fits(t, made) /\ made \cap DOMAIN t = {}
  BY <1>1, MissingFits
<1>4. /\ IsTree(m) /\ m[<<>>] = t[<<>>]
      /\ \A q : q \in DOMAIN m <=> q \in DOMAIN t \/ q \in made
      /\ \A q \in DOMAIN t : m[q] = t[q]
      /\ \A q \in made : m[q] = Object
  BY <1>2, <1>3, WithObjectsIs DEF IsObject
<1> QED
  BY <1>4 DEF IsObject, Divided

LEMMA MidwayIs ==
  ASSUME NEW r \in Requests, NEW t, IsObject(t), Divided(t), NEW m \in Midway(r, t)
  PROVE  /\ IsObject(m) /\ Divided(m) /\ Changed(r) \in AllDbs
         /\ r.at # <<>> /\ r.method \in Changing
<1>1. r.at # <<>>
  BY Zenon DEF Midway
<1>2. r.method = "write" \/ r.method = "inject" \/ r.method = "rm"
  BY <1>1, Zenon DEF Midway
<1>3. /\ r.at \in Paths /\ r.at \notin TopPaths /\ DbOf(r.at) \in AllDbs
      /\ Front(r.at) \in Paths /\ IsPrefix(Front(r.at), r.at)
  BY <1>1, <1>2, RequestIs, FrontOf DEF Changing
<1>4. CASE r.method = "write"
  <2>1. Midway(r, t) = OnTheWay(t, Front(r.at)) /\ Changed(r) = DbOf(Front(r.at))
    BY <1>1, <1>4, Zenon DEF Midway, Changed
  <2>2. Changed(r) \in AllDbs
    BY <1>3, <2>1, DbOfPrefix DEF AllDbs
  <2> QED
    BY <1>1, <1>2, <1>3, <2>1, <2>2, OnTheWayIs DEF Changing
<1>5. CASE r.method = "inject"
  <2>1. Midway(r, t) = OnTheWay(t, r.at) /\ Changed(r) = DbOf(r.at)
    BY <1>1, <1>5 DEF Midway, Changed
  <2> QED
    BY <1>1, <1>2, <1>3, <2>1, OnTheWayIs DEF Changing
<1>6. CASE r.method = "rm"
  <2>1. Midway(r, t) \subseteq {Emptied(t, r.at)} /\ Changed(r) = DbOf(r.at)
    BY <1>1, <1>6 DEF Midway, Changed
  <2>2. /\ IsTree(m) /\ m[<<>>] = t[<<>>]
        /\ \A q : q \in DOMAIN m <=> q \in DOMAIN t /\ (q = r.at \/ ~IsPrefix(r.at, q))
        /\ \A q \in DOMAIN m : m[q] = t[q]
    BY <1>3, <2>1, EmptiedIs DEF IsObject
  <2>3. IsObject(m) /\ Divided(m)
    BY <2>2 DEF IsObject, Divided
  <2> QED
    BY <1>1, <1>2, <1>3, <2>1, <2>3 DEF Changing
<1> QED
  BY <1>2, <1>4, <1>5, <1>6

LEMMA SavedFile ==
  ASSUME NEW t, IsObject(t), Divided(t), NEW b \in AllDbs
  PROVE  IsGoodFile(b, FileOf(Part(t, b)))
<1>1. b # Main /\ b \in DOMAIN t => t[b] = Object
  BY DEF Divided, AllDbs
<1>2. /\ IsObject(Part(t, b)) /\ IsMap(Part(t, b))
      /\ b = Main => NoTops(Part(t, b))
  BY <1>1, PartIs
<1> DEFINE f == Part(t, b)
<1> HIDE DEF f
<1>3. IsGoodFile(b, FileOf(f))
  BY <1>2 DEF FileOf, IsGoodFile, f
<1> QED
  BY <1>3 DEF f

LEMMA GoodFilesLoad ==
  ASSUME Functions, TreesInv
  PROVE  Loadable(files)
<1>1. Lasting \subseteq AllDbs /\ Main \in AllDbs
  BY DEF Lasting, AllDbs
<1> QED
  BY <1>1 DEF TreesInv, IsGoodFile, Loadable

\* One file at a time is replaced, by a good one.
LEMMA GoodFileSaved ==
  ASSUME Functions, TreesInv, NEW b \in AllDbs, NEW x, IsGoodFile(b, x),
         files' = [files EXCEPT ![b] = x]
  PROVE  \A e \in AllDbs : IsGoodFile(e, files'[e])
<1>1. \A e \in AllDbs : files'[e] = IF e = b THEN x ELSE files[e]
  BY DEF Functions
<1> QED
  BY <1>1 DEF TreesInv

LEMMA NoKeyIsDivided == IsObject(EmptyObject) /\ Divided(EmptyObject)
  BY EmptyTree, TopPathIs, DbPathIs DEF Divided

LEMMA LoadedIsDivided ==
  ASSUME Functions, TreesInv
  PROVE  IsObject(TreeOf(files)) /\ Divided(TreeOf(files))
<1> DEFINE u == TreeOf(files)
<1>1. /\ IsObject(u)
      /\ \A d \in DbPaths : d \in DOMAIN u => u[d] = Object
      /\ \A q \in TopPaths \cap DOMAIN u : u[q] = Object
  BY GoodFilesLoad, TreeOfIs
<1> HIDE DEF u
<1>2. Divided(u)
  BY <1>1 DEF Divided
<1> QED
  BY <1>1, <1>2 DEF u

\* The call that is handled, and what becomes of tree and files.
LEMMA HandledCall ==
  ASSUME Calls, NEW d \in Daemons, Handle(d)
  PROVE  /\ calls # <<>> /\ calls[1] \in Call /\ calls[1].request \in Requests
         /\ Reachable(d) /\ Loaded(d) /\ Loaded(d)' /\ stage' = stage /\ calls' = Tail(calls)
         /\ LET r == calls[1].request IN
            \/ /\ reply' = Replies(calls[1].from, Failed) /\ UNCHANGED <<mem, files>>
            \/ /\ reply' = Replies(calls[1].from, Value(Answer(r, mem[d]))) /\ Doable(r)
               /\ mem' = [mem EXCEPT ![d] = After(r, mem[d])]
               /\ \/ files' = FilesAfter(r, mem[d])
                  \/ \E m \in Midway(r, mem[d]) :
                       files' = [files EXCEPT ![Changed(r)] = FileOf(Part(m, Changed(r)))]
<1>1. calls # <<>> /\ calls' = Tail(calls)
  BY DEF Handle
<1>2. calls[1] \in Call /\ Head(calls) = calls[1]
  BY <1>1, LaterCalls
<1>3. Reachable(d) /\ Loaded(d) /\ Loaded(d)' /\ stage' = stage
  BY DEF Handle, Reachable, Loaded
<1> DEFINE r == calls[1].request
           t == mem[d]
<1>4. \/ reply' = Replies(calls[1].from, Failed) /\ UNCHANGED <<mem, files>>
      \/ /\ reply' = Replies(calls[1].from, Value(Answer(r, t))) /\ Doable(r)
         /\ mem' = [mem EXCEPT ![d] = After(r, t)]
         /\ files' \in {FilesAfter(r, t)} \cup FilesMeanwhile(r, t)
  BY <1>2 DEF Handle
<1>5. files' \in {FilesAfter(r, t)} \cup FilesMeanwhile(r, t) =>
        \/ files' = FilesAfter(r, t)
        \/ \E m \in Midway(r, t) :
             files' = [files EXCEPT ![Changed(r)] = FileOf(Part(m, Changed(r)))]
  BY DEF FilesMeanwhile
<1>6. calls[1].request \in Requests
  BY <1>2 DEF Call
<1> HIDE DEF r, t
<1>7. \/ reply' = Replies(calls[1].from, Failed) /\ UNCHANGED <<mem, files>>
      \/ /\ reply' = Replies(calls[1].from, Value(Answer(r, t))) /\ Doable(r)
         /\ mem' = [mem EXCEPT ![d] = After(r, t)]
         /\ \/ files' = FilesAfter(r, t)
            \/ \E m \in Midway(r, t) :
                 files' = [files EXCEPT ![Changed(r)] = FileOf(Part(m, Changed(r)))]
  BY <1>4, <1>5
<1> QED
  BY <1>1, <1>2, <1>3, <1>6, <1>7 DEF r, t

LEMMA HandleKeepsTrees ==
  ASSUME Functions, Calls, TreesInv, NEW d \in Daemons, Handle(d)
  PROVE  TreesInv'
<1> DEFINE r == calls[1].request
           t == mem[d]
           b == Changed(r)
<1>1. /\ r \in Requests
      /\ \/ UNCHANGED <<mem, files>>
         \/ /\ Doable(r) /\ mem' = [mem EXCEPT ![d] = After(r, t)]
            /\ \/ files' = FilesAfter(r, t)
               \/ \E m \in Midway(r, t) : files' = [files EXCEPT ![b] = FileOf(Part(m, b))]
  BY HandledCall
<1>2. IsObject(t) /\ Divided(t)
  BY DEF TreesInv
<1> HIDE DEF r, t, b
<1>3. CASE UNCHANGED <<mem, files>>
  BY <1>3 DEF TreesInv
<1>4. ASSUME Doable(r), mem' = [mem EXCEPT ![d] = After(r, t)]
      PROVE  \A e \in Daemons : IsObject(mem'[e]) /\ Divided(mem'[e])
  <2>1. IsObject(After(r, t)) /\ Divided(After(r, t))
    BY <1>1, <1>2, <1>4, AfterIs
  <2>2. \A e \in Daemons : mem'[e] = IF e = d THEN After(r, t) ELSE mem[e]
    BY <1>4 DEF Functions
  <2> QED
    BY <2>1, <2>2 DEF TreesInv
<1>5. ASSUME files' = FilesAfter(r, t)
      PROVE  \A e \in AllDbs : IsGoodFile(e, files'[e])
  <2>1. CASE files' = files
    BY <2>1 DEF TreesInv
  <2>2. CASE r.at \in DbPaths /\ files' = [files EXCEPT ![r.at] = NoFile]
    BY <2>2, DbPathIs, GoodFileSaved DEF IsGoodFile
  <2> QED
    BY <1>5, <2>1, <2>2 DEF FilesAfter
<1>6. ASSUME NEW m \in Midway(r, t), files' = [files EXCEPT ![b] = FileOf(Part(m, b))]
      PROVE  \A e \in AllDbs : IsGoodFile(e, files'[e])
  <2>1. IsObject(m) /\ Divided(m) /\ b \in AllDbs
    BY <1>1, <1>2, MidwayIs DEF b
  <2>2. IsGoodFile(b, FileOf(Part(m, b)))
    BY <2>1, SavedFile
  <2> QED
    BY <1>6, <2>1, <2>2, GoodFileSaved
<1> QED
  BY <1>1, <1>3, <1>4, <1>5, <1>6 DEF TreesInv

LEMMA ToolTreesStep == DbdInv /\ TreesInv /\ [DbdNext]_dbdVars => TreesInv'
<1> SUFFICES ASSUME DbdInv, TreesInv, [DbdNext]_dbdVars PROVE TreesInv'
  OBVIOUS
<1> USE DEF DbdInv
<1>1. ASSUME UNCHANGED <<mem, files>> PROVE TreesInv'
  BY <1>1 DEF TreesInv
<1>2. ASSUME NEW d \in Daemons, NEW t, IsObject(t), Divided(t),
             mem' = [mem EXCEPT ![d] = t], UNCHANGED files
      PROVE  TreesInv'
  <2>1. \A e \in Daemons : mem'[e] = IF e = d THEN t ELSE mem[e]
    BY <1>2 DEF Functions
  <2> QED
    BY <1>2, <2>1 DEF TreesInv
<1>3. ASSUME NEW d \in Daemons, Ends(d), UNCHANGED files PROVE TreesInv'
  BY <1>2, <1>3, NoKeyIsDivided DEF Ends
<1>4. ASSUME NEW d \in Daemons, DbdStep(d) PROVE TreesInv'
  <2>1. CASE Launch(d) \/ RegisterService(d) \/ Listen(d) \/ Signal(d) \/ Exit(d)
    BY <1>1, <2>1 DEF Launch, RegisterService, Listen, Signal, Exit
  <2>2. CASE NoBus(d) \/ AlreadyRunning(d) \/ End(d)
    BY <1>3, <2>2 DEF NoBus, AlreadyRunning, End
  <2>3. CASE LoadTree(d)
    BY <1>2, <2>3, LoadedIsDivided DEF LoadTree
  <2>4. CASE Handle(d)
    BY <2>4, HandleKeepsTrees
  <2>5. ASSUME NEW b \in AllDbs, Save(d, b) \/ ForcePendingFlush(d, b) PROVE TreesInv'
    <3>1. files' = [files EXCEPT ![b] = FileOf(Part(mem[d], b))] /\ UNCHANGED mem
      BY <2>5 DEF Save, ForcePendingFlush, Forces
    <3>2. IsGoodFile(b, FileOf(Part(mem[d], b)))
      BY SavedFile DEF TreesInv
    <3>3. \A e \in AllDbs : IsGoodFile(e, files'[e])
      BY <3>1, <3>2, GoodFileSaved
    <3> QED
      BY <3>1, <3>3 DEF TreesInv
  <2> QED
    BY <1>4, <2>1, <2>2, <2>3, <2>4, <2>5 DEF DbdStep, StartsUp
<1>5. ASSUME NEW d \in Daemons, Loses(d) PROVE TreesInv'
  BY <1>1, <1>3, <1>5 DEF Loses, Crash, ForceInVain, Forces
<1>6. ASSUME NEW c \in Clients, Timeout(c) \/ \E r \in Requests : Send(c, r)
      PROVE  TreesInv'
  BY <1>1, <1>6 DEF Timeout, Send
<1>7. CASE UNCHANGED dbdVars
  BY <1>1, <1>7 DEF dbdVars
<1> QED
  BY <1>4, <1>5, <1>6, <1>7 DEF DbdNext

-----------------------------------------------------------------------------
(* The files and the hashes                                                *)

\* What a start would load is in the hashes; else it would survive the exit of
\* a process that does not show it.
Hashed(t, f) == \A b \in DbPaths \cap Lasting : b \notin DOMAIN t => f[b] = NoFile
FilesInHashes == \A d \in Daemons : Loaded(d) => Hashed(mem[d], files)

LEMMA NotInHashes ==
  ASSUME NEW t, NEW b \in DbPaths, b \notin DOMAIN t
  PROVE  FileOf(Part(t, b)) = NoFile
  BY DbPathIs DEF Part, FileOf

\* Only its removal takes a database from the hashes.
LEMMA DatabasesStay ==
  ASSUME NEW r \in Requests, Doable(r), NEW t, IsObject(t),
         NEW b \in DbPaths, b \in DOMAIN t, b \notin DOMAIN After(r, t)
  PROVE  r.method = "rm" /\ r.at = b
<1>1. r.at # <<>> /\ r.method \in {"write", "inject", "rm"}
  <2>1. CASE r.at = <<>> \/ r.method \notin {"write", "inject", "rm"}
    <3>1. r.at = <<>> \/ (r.method # "write" /\ r.method # "inject" /\ r.method # "rm")
      BY <2>1
    <3>2. After(r, t) = t
      BY <3>1, Zenon DEF After
    <3> QED
      BY <3>2
  <2> QED
    BY <2>1
<1>2. /\ r.at \in Paths /\ r.at \notin TopPaths
      /\ r.method = "write" => r.at \notin DbPaths
  BY <1>1, RequestIs DEF Changing
<1>3. b \in Paths /\ (IsPrefix(r.at, b) => b = r.at)
  BY <1>1, <1>2, AtDatabase, DbPathIs
<1>4. CASE r.method = "write"
  <2> DEFINE u == Written(t, r.at, String(r.value))
  <2>1. After(r, t) = u
    BY <1>1, <1>4, Zenon DEF After
  <2>2. ~Blocked(t, Front(r.at)) => (~IsPrefix(r.at, b) => b \in DOMAIN u)
    BY <1>1, <1>2, StringIsValue, WrittenIs
  <2>3. Blocked(t, Front(r.at)) => u = t
    BY DEF Written
  <2> QED
    BY <1>2, <1>3, <1>4, <2>1, <2>2, <2>3
<1>5. CASE r.method = "inject"
  <2> DEFINE sub == FromJson[r.value]
             u == Merged(t, r.at, sub)
  <2>1. After(r, t) = u
    BY <1>1, <1>5, Zenon DEF After
  <2>2. IsObject(sub)
    BY <1>5, JsonAssumption DEF Doable
  <2> HIDE DEF sub
  <2>3. ~Replaced(r.at, sub, b)
    BY <1>2, <1>3, <2>2, ReplacedIs
  <2>4. ~Blocked(t, r.at) => (~Replaced(r.at, sub, b) => b \in DOMAIN u)
    BY <1>2, <2>2, MergedIs
  <2>5. Blocked(t, r.at) => u = t
    BY DEF Merged
  <2> QED
    BY <2>1, <2>3, <2>4, <2>5
<1>6. CASE r.method = "rm"
  <2>1. After(r, t) = Cut(t, r.at)
    BY <1>1, <1>6, Zenon DEF After
  <2>2. ~IsPrefix(r.at, b) => b \in DOMAIN Cut(t, r.at)
    BY <1>1, <1>2, CutIs DEF IsObject
  <2> QED
    BY <1>3, <1>6, <2>1, <2>2
<1> QED
  BY <1>1, <1>4, <1>5, <1>6

\* A database that is there midway was before, or will be after.
LEMMA DatabasesMidway ==
  ASSUME NEW r \in Requests, Doable(r), NEW t, IsObject(t), NEW m \in Midway(r, t),
         NEW b \in DbPaths, b \in DOMAIN m
  PROVE  b \in DOMAIN t \/ b \in DOMAIN After(r, t)
<1>1. r.at # <<>>
  BY Zenon DEF Midway
<1>2. r.method = "write" \/ r.method = "inject" \/ r.method = "rm"
  BY <1>1, Zenon DEF Midway
<1>3. r.at \in Paths /\ Front(r.at) \in Paths
  BY <1>1, RequestIs, FrontOf
<1>4. ASSUME NEW p \in Paths, m \in OnTheWay(t, p)
      PROVE  ~Blocked(t, p) /\ (b \in DOMAIN t \/ b \in Missing(t, p))
  <2>1. ~Blocked(t, p)
    BY <1>4 DEF OnTheWay
  <2>2. PICK made \in Begun(t, p) : m = WithObjects(t, made)
    BY <1>4, <2>1 DEF OnTheWay
  <2>3. made \subseteq Missing(t, p)
    BY DEF Begun
  <2>4. b \in DOMAIN t \/ b \in made
    BY <2>2 DEF WithObjects
  <2> QED
    BY <2>1, <2>3, <2>4
<1>5. CASE r.method = "write"
  <2> DEFINE u == Written(t, r.at, String(r.value))
  <2>1. m \in OnTheWay(t, Front(r.at)) /\ After(r, t) = u
    BY <1>1, <1>5, Zenon DEF Midway, After
  <2>2. ~Blocked(t, Front(r.at)) => \A q \in Missing(t, Front(r.at)) : q \in DOMAIN u
    BY <1>1, <1>3, StringIsValue, WrittenIs
  <2> QED
    BY <1>3, <1>4, <2>1, <2>2
<1>6. CASE r.method = "inject"
  <2> DEFINE u == Merged(t, r.at, FromJson[r.value])
  <2>1. m \in OnTheWay(t, r.at)
    BY <1>1, <1>6 DEF Midway
  <2>2. After(r, t) = u
    BY <1>1, <1>6, Zenon DEF After
  <2>3. IsObject(FromJson[r.value])
    BY <1>6, JsonAssumption DEF Doable
  <2>4. ~Blocked(t, r.at) => \A q \in Missing(t, r.at) : q \in DOMAIN u
    BY <1>3, <2>3, MergedIs
  <2> QED
    BY <1>3, <1>4, <2>1, <2>2, <2>4
<1>7. CASE r.method = "rm"
  <2>1. m = Emptied(t, r.at)
    BY <1>1, <1>7 DEF Midway
  <2> QED
    BY <2>1 DEF Emptied
<1> QED
  BY <1>2, <1>5, <1>6, <1>7

LEMMA HashedHandled ==
  ASSUME Functions, NEW r \in Requests, Doable(r), NEW t, IsObject(t), Divided(t),
         Hashed(t, files),
         \/ files' = FilesAfter(r, t)
         \/ \E m \in Midway(r, t) :
              files' = [files EXCEPT ![Changed(r)] = FileOf(Part(m, Changed(r)))]
  PROVE  Hashed(After(r, t), files')
<1> SUFFICES ASSUME NEW b \in DbPaths \cap Lasting, b \notin DOMAIN After(r, t)
             PROVE  files'[b] = NoFile
  BY DEF Hashed
<1>1. b \in AllDbs /\ b \in DbPaths
  BY DbPathIs
<1>2. b \in DOMAIN t => r.method = "rm" /\ r.at = b
  BY <1>1, DatabasesStay
<1>3. b \notin DOMAIN t => files[b] = NoFile
  BY DEF Hashed
<1>4. CASE files' = FilesAfter(r, t)
  <2>1. \A x : \A a \in AllDbs : [files EXCEPT ![a] = x][b] = IF b = a THEN x ELSE files[b]
    BY <1>1 DEF Functions
  <2>2. CASE b \in DOMAIN t
    <3>1. files' = [files EXCEPT ![b] = NoFile]
      BY <1>1, <1>2, <1>4, <2>2 DEF FilesAfter
    <3> QED
      BY <1>1, <2>1, <3>1
  <2>3. CASE b \notin DOMAIN t
    <3> DEFINE a == r.at
    <3>1. files' = files \/ (a \in AllDbs /\ files' = [files EXCEPT ![a] = NoFile])
      BY <1>4, DbPathIs DEF FilesAfter
    <3> HIDE DEF a
    <3>2. files'[b] = files[b] \/ files'[b] = NoFile
      BY <1>1, <3>1 DEF Functions
    <3> QED
      BY <1>3, <2>3, <3>2
  <2> QED
    BY <2>2, <2>3
<1>5. ASSUME NEW m \in Midway(r, t),
             files' = [files EXCEPT ![Changed(r)] = FileOf(Part(m, Changed(r)))]
      PROVE  files'[b] = NoFile
  <2>1. b \notin DOMAIN t
    <3>1. r.method = "rm" /\ r.at = b => Midway(r, t) = {}
      <4>1. b # <<>>
        BY <1>1, DbPathIs
      <4> QED
        BY <1>1, <4>1 DEF Midway
    <3> QED
      BY <1>2, <3>1
  <2>2. b \notin DOMAIN m
    BY <1>1, <2>1, DatabasesMidway
  <2>3. FileOf(Part(m, b)) = NoFile
    BY <1>1, <2>2, NotInHashes
  <2> DEFINE a == Changed(r)
  <2>4. a \in AllDbs
    BY MidwayIs
  <2> HIDE DEF a
  <2>5. files'[b] = IF b = a THEN FileOf(Part(m, a)) ELSE files[b]
    BY <1>1, <1>5, <2>4 DEF Functions, a
  <2> QED
    BY <1>3, <2>1, <2>3, <2>5
<1> QED
  BY <1>4, <1>5

LEMMA FilesInHashesStep ==
  ASSUME DbdInv, NameInv', TreesInv, FilesInHashes, [DbdNext]_dbdVars
  PROVE  FilesInHashes'
<1> USE DEF DbdInv
<1>1. \A d, e \in Daemons : (Loaded(d) /\ Loaded(e)) => d = e
  BY DEF NameInv, Named, Loaded
<1>2. ASSUME UNCHANGED files,
             \A e \in Daemons : Loaded(e)' => Loaded(e) /\ mem'[e] = mem[e]
      PROVE  FilesInHashes'
  BY <1>2 DEF FilesInHashes, Hashed
<1>3. ASSUME NEW d \in Daemons, Ends(d), UNCHANGED files PROVE FilesInHashes'
  <2>1. \A e \in Daemons : Loaded(e)' => Loaded(e) /\ mem'[e] = mem[e]
    BY <1>3 DEF Ends, Goes, NameInv, Loaded, Functions
  <2> QED
    BY <1>2, <1>3, <2>1
<1>4. ASSUME NEW d \in Daemons, DbdStep(d) PROVE FilesInHashes'
  <2>1. CASE Launch(d) \/ RegisterService(d) \/ Listen(d) \/ Signal(d) \/ Exit(d)
    BY <1>2, <2>1 DEF Launch, RegisterService, Listen, Signal, Exit, Goes, NameInv, Loaded
  <2>2. CASE NoBus(d) \/ AlreadyRunning(d) \/ End(d)
    BY <1>3, <2>2 DEF NoBus, AlreadyRunning, End
  <2>3. CASE LoadTree(d)
    <3>1. /\ mem' = [mem EXCEPT ![d] = TreeOf(files)] /\ UNCHANGED files
          /\ \A e \in Daemons : Loaded(e)' => e = d
      BY <2>3 DEF LoadTree, Goes, NameInv, Named, Loaded
    <3>2. Hashed(TreeOf(files), files)
      BY GoodFilesLoad, TreeOfIs DEF Hashed
    <3> QED
      BY <3>1, <3>2 DEF FilesInHashes, Functions
  <2>4. CASE Handle(d)
    <3> DEFINE r == calls[1].request
               t == mem[d]
    <3>1. /\ r \in Requests /\ Loaded(d) /\ stage' = stage
          /\ \/ UNCHANGED <<mem, files>>
             \/ /\ Doable(r) /\ mem' = [mem EXCEPT ![d] = After(r, t)]
                /\ \/ files' = FilesAfter(r, t)
                   \/ \E m \in Midway(r, t) :
                        files' = [files EXCEPT ![Changed(r)] = FileOf(Part(m, Changed(r)))]
      BY <2>4, HandledCall
    <3>2. IsObject(t) /\ Divided(t) /\ Hashed(t, files)
      BY <3>1 DEF TreesInv, FilesInHashes
    <3> HIDE DEF r, t
    <3>3. CASE UNCHANGED <<mem, files>>
      BY <1>2, <3>1, <3>3 DEF Loaded
    <3>4. CASE ~UNCHANGED <<mem, files>>
      <4>1. Hashed(After(r, t), files') /\ mem' = [mem EXCEPT ![d] = After(r, t)]
        BY <3>1, <3>2, <3>4, HashedHandled
      <4>2. mem'[d] = After(r, t) /\ \A e \in Daemons : Loaded(e)' => e = d
        BY <1>1, <3>1, <4>1 DEF Functions, Loaded
      <4> QED
        BY <4>1, <4>2 DEF FilesInHashes
    <3> QED
      BY <3>3, <3>4
  <2>5. ASSUME NEW b \in AllDbs, Save(d, b) \/ ForcePendingFlush(d, b) PROVE FilesInHashes'
    <3>1. /\ files' = [files EXCEPT ![b] = FileOf(Part(mem[d], b))]
          /\ Loaded(d) /\ UNCHANGED <<stage, mem>>
      BY <2>5 DEF Save, ForcePendingFlush, Forces, Loaded
    <3>2. \A e \in Daemons : Loaded(e)' => e = d
      BY <1>1, <3>1 DEF Loaded
    <3>3. ASSUME NEW a \in DbPaths \cap Lasting, a \notin DOMAIN mem[d]
          PROVE  files'[a] = NoFile
      <4>1. files[a] = NoFile /\ FileOf(Part(mem[d], a)) = NoFile /\ a \in AllDbs
        BY <3>1, <3>3, NotInHashes, DbPathIs DEF FilesInHashes, Hashed
      <4>2. files'[a] = IF a = b THEN FileOf(Part(mem[d], b)) ELSE files[a]
        BY <3>1, <4>1 DEF Functions
      <4> QED
        BY <4>1, <4>2
    <3> QED
      BY <3>1, <3>2, <3>3 DEF FilesInHashes, Hashed
  <2> QED
    BY <1>4, <2>1, <2>2, <2>3, <2>4, <2>5 DEF DbdStep, StartsUp
<1>5. ASSUME NEW d \in Daemons, Loses(d) PROVE FilesInHashes'
  BY <1>2, <1>3, <1>5 DEF Loses, Crash, ForceInVain, Forces, Loaded
<1>6. ASSUME NEW c \in Clients, Timeout(c) \/ \E r \in Requests : Send(c, r)
      PROVE  FilesInHashes'
  BY <1>2, <1>6 DEF Timeout, Send, Loaded
<1>7. CASE UNCHANGED dbdVars
  BY <1>2, <1>7 DEF dbdVars, Loaded
<1> QED
  BY <1>4, <1>5, <1>6, <1>7 DEF DbdNext

-----------------------------------------------------------------------------
(* The tools take the steps of Dbd                                         *)

\* A tool that has got its reply is no longer known to Dbd.
Forgets == UNCHANGED <<stage, signalled, owner, mem, files, toForce, calls>>

LEMMA ToolSteps ==
  [ToolsNext]_toolVars => [DbdNext]_dbdVars \/ (Forgets /\ \E c \in Clients : Finish(c))
<1> SUFFICES ASSUME [ToolsNext]_toolVars
             PROVE  [DbdNext]_dbdVars \/ (Forgets /\ \E c \in Clients : Finish(c))
  OBVIOUS
<1>1. ASSUME NEW d \in Daemons, Process(d) PROVE [DbdNext]_dbdVars
  BY <1>1 DEF Process, DbdNext
<1>2. ASSUME NEW c \in Clients, NEW name, NEW S, Invoke(c, name, S) PROVE [DbdNext]_dbdVars
  BY <1>2 DEF Invoke, DbdNext
<1>3. ASSUME NEW c \in Clients, Tool(c) PROVE [DbdNext]_dbdVars \/ (Forgets /\ Finish(c))
  <2>1. CASE Finish(c)
    BY <2>1 DEF Finish, Forgets
  <2>2. CASE Timeout(c)
    BY <2>2 DEF DbdNext
  <2>3. CASE NoCall(c)
    BY <2>3 DEF NoCall
  <2>4. CASE ~Finish(c) /\ ~Timeout(c) /\ ~NoCall(c)
    BY <1>2, <1>3, <2>4 DEF Tool, DbCat, DbDump, DbExists, DbInject, DbLs, DbNodes, DbRead,
                            DbRm, DbWrite
  <2> QED
    BY <2>1, <2>2, <2>3, <2>4
<1>4. CASE UNCHANGED toolVars
  BY <1>4 DEF toolVars, dbdVars
<1> QED
  BY <1>1, <1>3, <1>4 DEF ToolsNext

ShownInv == DbdInv /\ TreesInv /\ FilesInHashes

LEMMA ShownInit == ToolsInit => ShownInv
<1> SUFFICES ASSUME DbdInit PROVE ShownInv
  BY DEF ToolsInit
<1>1. TreesInv
  BY NoKeyIsDivided DEF DbdInit, TreesInv, IsGoodFile
<1>2. FilesInHashes
  BY DEF DbdInit, FilesInHashes, Loaded
<1> QED
  BY <1>1, <1>2, DbdInitInv DEF ShownInv

LEMMA ShownStep == ShownInv /\ [ToolsNext]_toolVars => ShownInv'
<1> SUFFICES ASSUME ShownInv, [ToolsNext]_toolVars PROVE ShownInv'
  OBVIOUS
<1>1. CASE [DbdNext]_dbdVars
  <2>1. DbdInv' /\ TreesInv'
    BY <1>1, DbdInvStep, ToolTreesStep DEF ShownInv
  <2>2. FilesInHashes'
    BY <1>1, <2>1, FilesInHashesStep DEF ShownInv, DbdInv
  <2> QED
    BY <2>1, <2>2 DEF ShownInv
<1>2. CASE Forgets
  BY <1>2 DEF Forgets, ShownInv, DbdInv, NameInv, Named, Functions, Calls, Unloaded,
              Loaded, TreesInv, FilesInHashes
<1> QED
  BY <1>1, <1>2, ToolSteps

LEMMA ShownIs ==
  ASSUME ShownInv
  PROVE  IsObject(Shown) /\ Divided(Shown)
<1>1. CASE Up
  <2>1. PICK d \in Daemons : Loaded(d)
    BY <1>1 DEF Up
  <2>2. Shown = mem[d]
    BY <1>1, <2>1, ServedBy DEF Shown, Up, ShownInv, DbdInv
  <2> QED
    BY <2>2 DEF ShownInv, TreesInv
<1>2. CASE ~Up
  BY <1>2, LoadedIsDivided DEF Shown, Up, ShownInv, DbdInv
<1> QED
  BY <1>1, <1>2

(***************************************************************************)
(* Whatever has been written, injected and removed, and by whom, db-ls     *)
(* shows of each path what db-read, db-nodes and db-exists do, though it   *)
(* asks for a dump and words the values itself (db-ls/main.cpp).           *)
(***************************************************************************)
THEOREM ToolsShowTheSame == ToolsSpec => []ToolsAgree
<1>1. ShownInv => ToolsAgree
  <2> SUFFICES ASSUME ShownInv PROVE ToolsAgree
    OBVIOUS
  <2> DEFINE t == Shown
  <2>1. IsTree(t)
    BY ShownIs DEF IsObject
  <2>2. DOMAIN t \cup {r.at : r \in Requests} \subseteq Paths
    BY <2>1, RestOfTree, RequestIs
  <2> HIDE DEF t
  <2>3. \A p \in DOMAIN t \cup {r.at : r \in Requests} :
          LET lines == LsPrints(DumpAnswer(t, p)) IN
          /\ \A q \in DOMAIN lines :
               lines[q][2] = ReadAnswer(t, p \o q) \/ (q = <<>> /\ t[p] = Null)
          /\ ListAnswer(t, p) =
               {Last(q) : q \in {q \in DOMAIN lines : Len(q) = 1}} \cup
               {k \in ListAnswer(t, p) : IsArray(t[Append(p, k)])}
          /\ ~Found(t, p) => lines = Leaf(Quoted(""))
    BY <2>1, <2>2, AgreeAt
  <2> QED
    BY <2>3 DEF ToolsAgree, t
<1> QED
  BY <1>1, ShownInit, ShownStep, PTL DEF ToolsSpec

-----------------------------------------------------------------------------
(* Injecting again                                                         *)

LEMMA MergedTwice ==
  ASSUME NEW t, IsObject(t), NEW p \in Paths, NEW sub, IsObject(sub), ~Blocked(t, p)
  PROVE  LET once == Merged(t, p, sub)
             twice == Merged(once, p, sub) IN
         /\ DOMAIN twice = DOMAIN once
         /\ \A q \in DOMAIN once : twice[q] = once[q] \/ IsArray(once[q])
<1> DEFINE u == Merged(t, p, sub)
           w == Merged(u, p, sub)
           New(q) == q \in Paths /\ IsPrefix(p, q) /\ Rest(p, q) \in DOMAIN sub
<1>1. /\ IsObject(u)
      /\ \A q : q \in DOMAIN u <=> \/ New(q)
                                   \/ q \in DOMAIN t /\ ~Replaced(p, sub, q)
                                   \/ q \in Missing(t, p)
      /\ p \in DOMAIN u /\ u[p] = Object
      /\ \A q \in DOMAIN t : New(q) => u[q] = Joined(t[q], sub[Rest(p, q)])
      /\ \A q : New(q) /\ q \notin DOMAIN t => u[q] = sub[Rest(p, q)]
      /\ \A q \in Missing(t, p) : q \in Paths /\ IsPrefix(q, p)
  BY MergedIs
<1> HIDE DEF u
<1>2. PathsTo(p) \subseteq DOMAIN u /\ \A q \in PathsTo(p) : u[q] = Object
  <2> SUFFICES ASSUME NEW q \in PathsTo(p) PROVE q \in DOMAIN u /\ u[q] = Object
    OBVIOUS
  <2>1. q \in Paths /\ IsPrefix(q, p)
    BY PathsToIff
  <2> QED
    BY <1>1, <2>1, PrefixOfTree DEF IsObject
<1>3. ~Blocked(u, p) /\ Missing(u, p) = {}
  BY <1>2 DEF Blocked, Missing
<1>4. /\ \A q : q \in DOMAIN w <=> New(q) \/ (q \in DOMAIN u /\ ~Replaced(p, sub, q))
      /\ \A q \in DOMAIN u : ~Replaced(p, sub, q) /\ ~New(q) => w[q] = u[q]
      /\ \A q \in DOMAIN u : New(q) => w[q] = Joined(u[q], sub[Rest(p, q)])
  BY <1>1, <1>3, MergedIs
<1> HIDE DEF w
<1>5. ASSUME NEW q \in DOMAIN u, ~New(q) PROVE ~Replaced(p, sub, q)
  <2>1. CASE q \in DOMAIN t /\ ~Replaced(p, sub, q)
    BY <2>1
  <2>2. CASE q \in Missing(t, p)
    <3>1. q \in Paths /\ IsPrefix(q, p)
      BY <1>1, <2>2
    <3>2. ASSUME Replaced(p, sub, q) PROVE FALSE
      <4>1. IsPrefix(p, q) /\ p # q
        BY <3>1, <3>2, ReplacedIs
      <4> QED
        BY <3>1, <4>1, PrefixOrder
    <3> QED
      BY <3>2
  <2> QED
    BY <1>1, <1>5, <2>1, <2>2
<1>6. DOMAIN w = DOMAIN u
  BY <1>1, <1>4, <1>5
<1>7. ASSUME NEW q \in DOMAIN u, New(q), ~IsArray(u[q]) PROVE w[q] = u[q]
  <2> DEFINE s == sub[Rest(p, q)]
  <2>1. w[q] = Joined(u[q], s) /\ IsValue(s)
    BY <1>4, <1>7, RestOfTree DEF IsObject
  <2>2. w[q] = s
    BY <1>7, <2>1 DEF Joined
  <2>3. CASE q \notin DOMAIN t
    BY <1>1, <1>7, <2>2, <2>3
  <2>4. CASE q \in DOMAIN t
    <3>1. u[q] = Joined(t[q], s) /\ IsValue(t[q])
      BY <1>1, <1>7, <2>4, RestOfTree DEF IsObject
    <3>2. ~(IsArray(t[q]) /\ IsArray(s))
      BY <1>7, <2>1, <3>1, JoinedArray
    <3> QED
      BY <2>2, <3>1, <3>2 DEF Joined
  <2> QED
    BY <2>3, <2>4
<1>8. \A q \in DOMAIN u : w[q] = u[q] \/ IsArray(u[q])
  BY <1>4, <1>5, <1>7
<1> QED
  BY <1>6, <1>8 DEF u, w

(***************************************************************************)
(* A user who runs a db-inject again that exited 1 gets the same tree,     *)
(* whatever is in it by then, but for the arrays, which mergeValue appends *)
(* to each other (dbtree.cpp:422).                                         *)
(***************************************************************************)
THEOREM InjectingTwiceIsSafe == ToolsSpec => []InjectingAgainIsSafe
<1>1. ShownInv => InjectingAgainIsSafe
  <2> SUFFICES ASSUME ShownInv, NEW r \in Requests, r.method = "inject", Doable(r)
               PROVE  LET once == After(r, Shown)
                          twice == After(r, once) IN
                      /\ DOMAIN twice = DOMAIN once
                      /\ \A q \in DOMAIN once : twice[q] = once[q] \/ IsArray(once[q])
    BY DEF InjectingAgainIsSafe
  <2> DEFINE t == Shown
             sub == FromJson[r.value]
  <2>1. r.at \in Paths /\ IsObject(t) /\ IsObject(sub)
    BY RequestIs, ShownIs, JsonAssumption DEF Doable
  <2> HIDE DEF t, sub
  <2>2. CASE r.at = <<>>
    <3>1. \A u : After(r, u) = u
      BY <2>2 DEF After
    <3> QED
      BY <3>1
  <2>3. CASE r.at # <<>>
    <3>1. \A u : After(r, u) = Merged(u, r.at, sub)
      BY <2>3, Zenon DEF After, sub
    <3>2. LET once == Merged(t, r.at, sub)
              twice == Merged(once, r.at, sub) IN
          /\ DOMAIN twice = DOMAIN once
          /\ \A q \in DOMAIN once : twice[q] = once[q] \/ IsArray(once[q])
      <4>1. CASE Blocked(t, r.at)
        BY <4>1 DEF Merged
      <4>2. CASE ~Blocked(t, r.at)
        BY <2>1, <4>2, MergedTwice
      <4> QED
        BY <4>1, <4>2
    <3> QED
      BY <3>1, <3>2 DEF t
  <2> QED
    BY <2>2, <2>3
<1> QED
  BY <1>1, ShownInit, ShownStep, PTL DEF ToolsSpec

-----------------------------------------------------------------------------
(* What is written is kept                                                 *)

\* What is written is loaded again at the next start.
WritesLast == \A r \in Requests : r.method = "write" => DbOf(r.at) \in Lasting

Kept(t, r) ==
    r.at = <<>> \/ Blocked(t, Front(r.at)) \/ ReadAnswer(t, r.at) = r.value

\* The part of a database shows what is in it.
LEMMA PartShows ==
  ASSUME NEW t, IsObject(t), NEW q \in Paths, q # <<>>, q \notin TopPaths \cup DbPaths,
         DbOf(q) \in AllDbs
  PROVE  LET b == DbOf(q)
             x == IF b = Main THEN q ELSE Rest(b, q) IN
         /\ q \in DOMAIN t <=> x \in DOMAIN Part(t, b)
         /\ q \in DOMAIN t => Part(t, b)[x] = t[q]
<1> DEFINE b == DbOf(q)
<1>1. CASE b = Main
  <2>1. q[1] \notin Tops
    <3>1. CASE Len(q) < 2
      <4>1. Len(q) \in Nat /\ (Len(q) = 0 => q = <<>>)
        BY PathsEqual, EmptyPath DEF Paths
      <4>2. Len(q) = 1 /\ q[1] \in Keys
        BY <3>1, <4>1 DEF Paths
      <4>3. <<q[1]>> \in Paths /\ Len(<<q[1]>>) = 1 /\ <<q[1]>>[1] = q[1]
        BY <4>2 DEF Paths
      <4>4. q = <<q[1]>>
        BY <4>2, <4>3, PathsEqual
      <4> QED
        BY <4>4 DEF TopPaths
    <3>2. CASE ~(Len(q) < 2)
      BY <1>1, <3>2, DbOfIs
    <3> QED
      BY <3>1, <3>2
  <2>2. q \in DOMAIN t <=> q \in DOMAIN MainPart(t)
    BY <2>1 DEF MainPart
  <2>3. q \in DOMAIN t => MainPart(t)[q] = t[q]
    BY <2>1 DEF MainPart
  <2> QED
    BY <1>1, <2>2, <2>3 DEF Part
<1>2. CASE b \in DbPaths
  <2> DEFINE x == Rest(b, q)
  <2>1. b # Main /\ b \in Paths /\ IsPrefix(b, q) /\ b # q
    BY <1>2, DbPathIs, InDatabase
  <2> HIDE DEF b
  <2>2. x \in Paths /\ b \o x = q /\ x # <<>>
    BY <2>1, RestOf
  <2> HIDE DEF x
  <2>3. CASE b \in DOMAIN t
    <3>1. /\ \A r : r \in DOMAIN At(t, b) <=> r \in Paths /\ b \o r \in DOMAIN t
          /\ \A r \in DOMAIN At(t, b) : At(t, b)[r] = t[b \o r]
      BY <2>3, AtIs DEF IsObject
    <3>2. Part(t, b) = At(t, b)
      BY <2>1, <2>3 DEF Part
    <3>3. (q \in DOMAIN t <=> x \in DOMAIN Part(t, b)) /\ (q \in DOMAIN t => Part(t, b)[x] = t[q])
      BY <2>2, <3>1, <3>2
    <3> QED
      BY <2>1, <3>3 DEF b, x
  <2>4. CASE b \notin DOMAIN t
    <3>1. q \notin DOMAIN t
      BY <2>1, <2>4, PrefixOfTree DEF IsObject
    <3>2. Part(t, b) = EmptyObject
      BY <2>1, <2>4 DEF Part
    <3>3. x \notin DOMAIN Part(t, b)
      BY <2>2, <3>2, EmptyTree
    <3> QED
      BY <2>1, <3>1, <3>3 DEF b, x
  <2> QED
    BY <2>3, <2>4
<1> QED
  BY <1>1, <1>2 DEF AllDbs

LEMMA PartTells ==
  ASSUME NEW t, IsObject(t), NEW u, IsObject(u), NEW q \in Paths, q # <<>>,
         q \notin TopPaths \cup DbPaths, DbOf(q) \in AllDbs,
         Part(t, DbOf(q)) = Part(u, DbOf(q))
  PROVE  Same(t, u, q)
  BY PartShows DEF Same

LEMMA KeptInParts ==
  ASSUME NEW t, IsObject(t), Divided(t), NEW u, IsObject(u),
         \A b \in Lasting : Part(t, b) = Part(u, b),
         NEW r \in Requests, r.method = "write", DbOf(r.at) \in Lasting, Kept(t, r)
  PROVE  Kept(u, r)
<1>1. /\ r.at \in Paths /\ r.at \notin TopPaths \cup DbPaths /\ DbOf(r.at) \in AllDbs
  BY RequestIs DEF Changing
<1>2. Main \in Lasting /\ Lasting \subseteq AllDbs
  BY DEF Lasting, AllDbs
<1>3. CASE r.at # <<>> /\ ReadAnswer(t, r.at) = r.value
  <2>1. Same(t, u, r.at)
    BY <1>1, <1>3, PartTells
  <2>2. ReadAnswer(u, r.at) = ReadAnswer(t, r.at)
    BY <2>1, Zenon DEF Same, ReadAnswer, Found
  <2> QED
    BY <1>3, <2>2 DEF Kept
<1>4. CASE r.at # <<>> /\ Blocked(t, Front(r.at))
  <2>1. Front(r.at) \in Paths
    BY <1>1, <1>4, FrontOf
  <2>2. PICK q \in PathsTo(Front(r.at)) : q \in DOMAIN t /\ t[q] # Object
    BY <1>4 DEF Blocked
  <2>3. q \in Paths /\ q # <<>> /\ IsPrefix(q, Front(r.at))
    BY <2>1, <2>2, PathsToIff
  <2>4. IsPrefix(q, r.at)
    BY <1>1, <1>4, <2>3, FrontPrefix
  <2>5. q \notin TopPaths \cup DbPaths
    BY <2>2 DEF Divided
  <2>6. DbOf(q) \in Lasting
    BY <1>1, <1>2, <2>3, <2>4, DbOfPrefix
  <2>7. Same(t, u, q)
    BY <1>2, <2>3, <2>5, <2>6, PartTells
  <2>8. Blocked(u, Front(r.at))
    BY <2>2, <2>7 DEF Same, Blocked
  <2> QED
    BY <2>8 DEF Kept
<1> QED
  BY <1>3, <1>4 DEF Kept

\* Db has written it when it answers.
LEMMA KeptAfter ==
  ASSUME NEW r \in Requests, r.method = "write", NEW t, IsObject(t)
  PROVE  Kept(After(r, t), r)
<1>1. r.at \in Paths
  BY RequestIs
<1>2. CASE r.at # <<>>
  <2> DEFINE u == Written(t, r.at, String(r.value))
  <2>1. After(r, t) = u
    BY <1>2, Zenon DEF After
  <2>2. CASE Blocked(t, Front(r.at))
    <3>1. u = t
      BY <2>2 DEF Written
    <3> QED
      BY <2>1, <2>2, <3>1 DEF Kept
  <2>3. CASE ~Blocked(t, Front(r.at))
    <3>1. r.at \in DOMAIN u /\ u[r.at] = String(r.value)
      BY <1>1, <1>2, <2>3, StringIsValue, WrittenIs
    <3> HIDE DEF u
    <3>2. ReadAnswer(u, r.at) = r.value
      BY <3>1, StringReads, Zenon DEF ReadAnswer, Found
    <3> QED
      BY <2>1, <3>2 DEF Kept
  <2> QED
    BY <2>2, <2>3
<1> QED
  BY <1>2 DEF Kept

-----------------------------------------------------------------------------
(* What becomes of what is shown                                           *)

LEMMA ShownBy ==
  ASSUME NameInv, NEW d \in Daemons, Loaded(d)
  PROVE  Shown = mem[d] /\ Up
  BY ServedBy DEF Shown, Up

LEMMA ShownByNext ==
  ASSUME NameInv', NEW d \in Daemons, Loaded(d)'
  PROVE  Shown' = mem'[d]
  BY ServedNext DEF Shown, Up

\* Whoever has the tree keeps it, and what nobody has loaded is not touched.
LEMMA ShownSame ==
  ASSUME NameInv, NameInv', Up \/ UNCHANGED files,
         \A d \in Daemons : Loaded(d)' = Loaded(d) /\ (Loaded(d) => mem'[d] = mem[d])
  PROVE  Shown' = Shown
<1>1. CASE Up
  <2>1. PICK d \in Daemons : Loaded(d)
    BY <1>1 DEF Up
  <2> QED
    BY <2>1, ShownBy, ShownByNext
<1>2. CASE ~Up
  BY <1>2 DEF Up, Shown
<1> QED
  BY <1>1, <1>2

\* A start shows what would have been shown after it.
LEMMA ShownLoaded ==
  ASSUME NameInv, NameInv', Functions, NEW d \in Daemons, LoadTree(d)
  PROVE  Shown' = Shown
<1>1. ~Up
  BY DEF LoadTree, NameInv, Named, Loaded, Up
<1>2. Loaded(d)' /\ mem'[d] = TreeOf(files)
  BY DEF LoadTree, NameInv, Loaded, Goes, Functions
<1> QED
  BY <1>1, <1>2, ShownByNext DEF Shown, Up

\* A process that has nothing loaded goes.
LEMMA ShownWithout ==
  ASSUME NameInv, NameInv', Functions, NEW d \in Daemons, ~Loaded(d), Ends(d), UNCHANGED files
  PROVE  Shown' = Shown
<1>1. \A e \in Daemons : Loaded(e)' = Loaded(e) /\ (Loaded(e) => mem'[e] = mem[e])
  BY DEF NameInv, Ends, Goes, Loaded, Functions
<1> QED
  BY <1>1, ShownSame

\* What is shown after an end is shown of each database as it was before, if
\* those in the hashes are saved.
LEMMA ShownAfterEnd ==
  ASSUME FilesTold, ShownInv, ShownInv', NEW d \in Daemons, End(d),
         \A b \in Dbs(d) : Saved(d, b),
         NEW r \in Requests, r.method = "write", DbOf(r.at) \in Lasting, Kept(Shown, r)
  PROVE  Kept(Shown', r)
<1>1. Loaded(d) /\ Ends(d) /\ files' = files
  BY DEF End, Loaded
<1>0. ASSUME NEW b \in Lasting PROVE files[b] = FileOf(Part(mem[d], b))
  <2>1. CASE b \in Dbs(d)
    BY <2>1 DEF Saved
  <2>2. CASE b \notin Dbs(d)
    <3>1. b \in DbPaths \cap Lasting /\ b \notin DOMAIN mem[d]
      BY <2>2 DEF Dbs, Lasting, AllDbs
    <3>2. files[b] = NoFile
      BY <1>1, <3>1 DEF ShownInv, FilesInHashes, Hashed
    <3> QED
      BY <3>1, <3>2, NotInHashes
  <2> QED
    BY <2>1, <2>2
<1> DEFINE t == mem[d]
           u == TreeOf(files)
<1>2. /\ NameInv /\ NameInv' /\ Functions /\ TreesInv
      /\ IsObject(t) /\ Divided(t)
  BY DEF ShownInv, DbdInv, TreesInv
<1>3. Shown = t /\ \A e \in Daemons : Loaded(e) => e = d
  BY <1>1, <1>2, ShownBy, ServedBy
<1>4. Shown' = u
  <2>1. \A e \in Daemons : ~Loaded(e)'
    BY <1>1, <1>2, <1>3 DEF Ends, Goes, NameInv, Loaded
  <2> QED
    BY <1>1, <2>1 DEF Shown
<1>5. IsObject(u) /\ \A b \in Lasting : Part(u, b) = Content(files[b])
  BY <1>2, GoodFilesLoad, TreeOfIs
<1> HIDE DEF t, u
<1>6. ASSUME NEW b \in Lasting PROVE Part(t, b) = Part(u, b)
  <2>1. b \in AllDbs
    BY DEF Lasting
  <2>2. b # Main /\ b \in DOMAIN t => t[b] = Object
    BY <1>2, <2>1 DEF Divided, AllDbs
  <2>3. IsObject(Part(t, b))
    BY <1>2, <2>1, <2>2, PartIs
  <2>4. Content(FileOf(Part(t, b))) = Part(t, b)
    BY <2>3, FileIs DEF FilesTold
  <2> QED
    BY <1>0, <1>5, <2>1, <2>4 DEF t
<1>7. Kept(u, r)
  BY <1>2, <1>3, <1>5, <1>6, KeptInParts
<1> QED
  BY <1>4, <1>7 DEF Kept

\* Nothing but a request, a crash and a save that fails takes from what is kept.
LEMMA KeptByProcess ==
  ASSUME FilesTold, ShownInv, ShownInv', NEW d \in Daemons,
         (DbdStep(d) /\ ~Handle(d)) \/ (Crash(d) /\ ~Loaded(d)),
         End(d) => \A b \in Dbs(d) : Saved(d, b),
         NEW r \in Requests, r.method = "write", DbOf(r.at) \in Lasting, Kept(Shown, r)
  PROVE  Kept(Shown', r)
<1> USE DEF ShownInv, DbdInv
<1>1. CASE Shown' = Shown
  BY <1>1 DEF Kept
<1>2. ASSUME Up \/ UNCHANGED files,
             \A e \in Daemons : Loaded(e)' = Loaded(e) /\ (Loaded(e) => mem'[e] = mem[e])
      PROVE  Shown' = Shown
  BY <1>2, ShownSame
<1>3. CASE Launch(d) \/ RegisterService(d) \/ Listen(d) \/ Signal(d) \/ Exit(d)
  BY <1>1, <1>2, <1>3 DEF Launch, RegisterService, Listen, Signal, Exit, Goes, NameInv, Loaded
<1>4. ASSUME NEW b \in AllDbs, Save(d, b) \/ ForcePendingFlush(d, b) PROVE Kept(Shown', r)
  <2>1. Up /\ UNCHANGED <<stage, mem>>
    BY <1>4 DEF Save, ForcePendingFlush, Forces, Loaded, Up
  <2> QED
    BY <1>1, <1>2, <2>1 DEF Loaded
<1>5. CASE LoadTree(d)
  BY <1>1, <1>5, ShownLoaded
<1>6. CASE NoBus(d) \/ AlreadyRunning(d) \/ (Crash(d) /\ ~Loaded(d))
  <2>1. ~Loaded(d) /\ Ends(d) /\ UNCHANGED files
    BY <1>6 DEF NoBus, AlreadyRunning, Crash, Loaded
  <2> QED
    BY <1>1, <2>1, ShownWithout
<1>7. CASE End(d)
  BY <1>7, ShownAfterEnd
<1> QED
  BY <1>3, <1>4, <1>5, <1>6, <1>7 DEF DbdStep, StartsUp

\* A request that is not for a change changes nothing.
LEMMA ReadsChangeNothing ==
  ASSUME NEW r, r.method \notin Changing, NEW t
  PROVE  After(r, t) = t /\ FilesAfter(r, t) = files /\ Midway(r, t) = {}
<1>1. r.method # "write" /\ r.method # "inject" /\ r.method # "rm"
  BY DEF Changing
<1>2. After(r, t) = t
  BY <1>1, Zenon DEF After
<1>3. Midway(r, t) = {}
  BY <1>1, Zenon DEF Midway
<1> QED
  BY <1>1, <1>2, <1>3 DEF FilesAfter

-----------------------------------------------------------------------------
(* What is reported, to the one user there is                              *)

\* The user's call is the last in the queue.
Queued(c) ==
    \A i \in DOMAIN calls :
        calls[i].from = c =>
            /\ i = Len(calls) /\ reply[c] = Waiting
            /\ tool[c].exit = Running /\ calls[i].request = tool[c].call

\* When db-write gets its answer, no call is left that could undo it.
Writing(c) == tool[c].exit = Running /\ tool[c].name = "db-write"
Answered(c) ==
    Writing(c) =>
        /\ tool[c].call \in Requests /\ tool[c].call.method = "write"
        /\ (HasAnswer(c) /\ reported # Lost) => (calls = <<>> /\ Kept(Shown, tool[c].call))

\* Nor is there one when it has exited, until the next is made.
Reported ==
    reported.is = "write" =>
        /\ reported.call \in Requests /\ reported.call.method = "write"
        /\ Kept(Shown, reported.call)
        /\ \A i \in DOMAIN calls : calls[i].request.method \notin Changing

UserInv(c) ==
    /\ tool = [e \in Clients |-> tool[e]]
    /\ Queued(c) /\ Answered(c) /\ Reported

\* There is a report that an exit could belie, or there will be one when the
\* tool exits.
AtStake(c) == reported.is = "write" \/ (Writing(c) /\ HasAnswer(c) /\ reported # Lost)

\* Then every flush that was forced has saved its database: no call is answered
\* any more that would change it.
Forced(c) ==
    \A d \in Daemons :
        stage[d] = "exiting" =>
            \A b \in Dbs(d) \ toForce[d] : Saved(d, b) \/ ~AtStake(c)

AllKept == \A r \in Requests : (r.method = "write" /\ Kept(Shown, r)) => Kept(Shown', r)

\* The tools go on, and the bus at most gives up the calls.
LEMMA UserWaits ==
  ASSUME NEW c \in Clients, UserInv(c), AtStake(c) => AllKept, UNCHANGED <<tool, reported>>,
         \/ UNCHANGED <<calls, reply>>
         \/ calls' = <<>> /\ reply'[c] \in {reply[c], Failed}
  PROVE  UserInv(c)'
<1>1. DOMAIN <<>> = {}
  OBVIOUS
<1>2. Queued(c)'
  BY <1>1 DEF UserInv, Queued
<1>3. HasAnswer(c)' => HasAnswer(c)
  BY DEF HasAnswer, Failed
<1>4. Answered(c)'
  <2> SUFFICES ASSUME Writing(c) PROVE Answered(c)'
    BY DEF Answered, Writing
  <2>1. PICK r \in Requests : r = tool[c].call /\ tool'[c].call = r /\ r.method = "write"
    BY DEF UserInv, Answered
  <2>2. (HasAnswer(c) /\ reported # Lost) => (calls = <<>> /\ Kept(Shown, r))
    BY <2>1 DEF UserInv, Answered
  <2>3. (HasAnswer(c)' /\ reported' # Lost) => (calls' = <<>> /\ Kept(Shown', r))
    BY <1>3, <2>1, <2>2 DEF AtStake, AllKept, Lost
  <2> QED
    BY <2>1, <2>3 DEF Answered, Writing, Lost
<1>5. Reported'
  <2> SUFFICES ASSUME reported.is = "write" PROVE Reported'
    BY DEF Reported
  <2>1. PICK r \in Requests : r = reported.call /\ reported'.call = r /\ r.method = "write"
    BY DEF UserInv, Reported
  <2>2. Kept(Shown', r)
    BY <2>1 DEF UserInv, Reported, AtStake, AllKept
  <2>3. \A i \in DOMAIN calls' : calls'[i].request.method \notin Changing
    BY <1>1 DEF UserInv, Reported
  <2> QED
    BY <2>1, <2>2, <2>3 DEF Reported
<1>6. tool' = [e \in Clients |-> tool'[e]]
  BY DEF UserInv
<1> QED
  BY <1>2, <1>4, <1>5, <1>6 DEF UserInv

LEMMA OthersGetNoAnswer ==
  ASSUME NEW c \in Clients, NEW d \in Daemons, (DbdStep(d) /\ ~Handle(d)) \/ Loses(d)
  PROVE  \/ UNCHANGED <<calls, reply>>
         \/ calls' = <<>> /\ reply'[c] \in {reply[c], Failed}
<1>1. OwnerGone(d) => \/ UNCHANGED <<calls, reply>>
                      \/ calls' = <<>> /\ reply'[c] \in {reply[c], Failed}
  BY DEF OwnerGone
<1> QED
  BY <1>1 DEF DbdStep, StartsUp, Launch, NoBus, AlreadyRunning, RegisterService, LoadTree,
              Listen, Save, Signal, Exit, ForcePendingFlush, Forces, End, Loses, ForceInVain,
              Crash

LEMMA UserAndProcess ==
  ASSUME FilesTold, WritesLast, ShownInv, ShownInv', NEW c \in Clients, UserInv(c), Forced(c),
         NEW d \in Daemons, (DbdStep(d) /\ ~Handle(d)) \/ (Crash(d) /\ ~Loaded(d)),
         UNCHANGED <<tool, reported>>
  PROVE  UserInv(c)'
<1>1. AtStake(c) => AllKept
  <2> SUFFICES ASSUME AtStake(c) PROVE AllKept
    OBVIOUS
  <2>1. End(d) => \A b \in Dbs(d) : Saved(d, b)
    BY DEF End, Forced
  <2> QED
    BY <2>1, KeptByProcess DEF AllKept, WritesLast
<1>2. \/ UNCHANGED <<calls, reply>>
      \/ calls' = <<>> /\ reply'[c] \in {reply[c], Failed}
  BY OthersGetNoAnswer DEF Loses
<1> QED
  BY <1>1, <1>2, UserWaits

\* Who crashes with the tree loaded, or cannot save it, takes the report along.
LEMMA UserAndLoss ==
  ASSUME NEW c \in Clients, UserInv(c), NEW d \in Daemons, Loses(d), reported' = Lost,
         UNCHANGED tool
  PROVE  UserInv(c)'
<1>1. DOMAIN <<>> = {}
  OBVIOUS
<1>2. UNCHANGED <<calls, reply>> \/ calls' = <<>>
  BY OthersGetNoAnswer
<1>3. Queued(c)'
  BY <1>1, <1>2 DEF UserInv, Queued
<1>4. Answered(c)' /\ Reported'
  BY DEF UserInv, Answered, Writing, Reported, Lost
<1>5. tool' = [e \in Clients |-> tool'[e]]
  BY DEF UserInv
<1> QED
  BY <1>3, <1>4, <1>5 DEF UserInv

\* A call is handled.
LEMMA UserAndHandle ==
  ASSUME ShownInv, ShownInv', NEW c \in Clients, UserInv(c), NEW d \in Daemons, Handle(d),
         UNCHANGED <<tool, reported>>
  PROVE  UserInv(c)'
<1> DEFINE r == calls[1].request
           t == mem[d]
<1>1. /\ calls # <<>> /\ r \in Requests /\ Loaded(d) /\ Loaded(d)'
      /\ calls' = Tail(calls)
      /\ \/ reply' = Replies(calls[1].from, Failed) /\ UNCHANGED mem
         \/ /\ reply' = Replies(calls[1].from, Value(Answer(r, t))) /\ Doable(r)
            /\ mem' = [mem EXCEPT ![d] = After(r, t)]
  BY HandledCall DEF ShownInv, DbdInv
<1>2. /\ Shown = t /\ Shown' = mem'[d] /\ IsObject(t)
      /\ \A u : mem' = [mem EXCEPT ![d] = u] => mem'[d] = u
  BY <1>1, ShownBy, ShownByNext DEF ShownInv, DbdInv, Functions, TreesInv
<1>3. /\ Len(calls) \in Nat \ {0} /\ DOMAIN calls = 1 .. Len(calls)
      /\ Len(calls') = Len(calls) - 1 /\ DOMAIN calls' = 1 .. (Len(calls) - 1)
      /\ \A i \in 1 .. (Len(calls) - 1) : calls'[i] = calls[i + 1]
      /\ Len(calls) = 1 => calls' = <<>>
  <2>1. calls \in Seq(Call)
    BY DEF ShownInv, DbdInv, Calls
  <2>2. Len(calls) \in Nat \ {0} /\ DOMAIN calls = 1 .. Len(calls)
    BY <1>1, <2>1, EmptySeq
  <2>3. /\ Tail(calls) \in Seq(Call) /\ Len(Tail(calls)) = Len(calls) - 1
        /\ \A i \in 1 .. Len(Tail(calls)) : Tail(calls)[i] = calls[i + 1]
    BY <1>1, <2>1, HeadTailProperties
  <2>4. DOMAIN calls' = 1 .. (Len(calls) - 1)
    BY <1>1, <2>3
  <2>5. Len(calls') = 0 => calls' = <<>>
    BY <1>1, <2>3, EmptySeq
  <2> QED
    BY <1>1, <2>2, <2>3, <2>4, <2>5
<1>4. \A x : reply' = Replies(calls[1].from, x) =>
               reply'[c] = IF c = calls[1].from THEN x ELSE reply[c]
  BY DEF Replies
<1> HIDE DEF r, t
<1>5. calls[1].from = c => /\ Len(calls) = 1 /\ reply[c] = Waiting /\ tool[c].exit = Running
                           /\ r = tool[c].call
  BY <1>3 DEF UserInv, Queued, r
<1>6. Queued(c)'
  <2> SUFFICES ASSUME NEW i \in DOMAIN calls', calls'[i].from = c
               PROVE  /\ i = Len(calls') /\ reply'[c] = Waiting
                      /\ tool[c].exit = Running /\ calls'[i].request = tool[c].call
    BY DEF Queued
  <2>1. i + 1 \in DOMAIN calls /\ calls'[i] = calls[i + 1] /\ Len(calls) # 1
    BY <1>3
  <2>2. /\ i + 1 = Len(calls) /\ reply[c] = Waiting
        /\ tool[c].exit = Running /\ calls'[i].request = tool[c].call
    BY <2>1 DEF UserInv, Queued
  <2>3. reply'[c] = reply[c]
    BY <1>1, <1>4, <1>5, <2>1
  <2> QED
    BY <1>3, <2>2, <2>3
<1>7. Answered(c)'
  <2> SUFFICES ASSUME Writing(c) PROVE Answered(c)'
    BY DEF Answered, Writing
  <2>1. tool[c].call \in Requests /\ tool[c].call.method = "write"
        /\ (HasAnswer(c) => reported = Lost)
    BY <1>1 DEF UserInv, Answered
  <2>2. CASE calls[1].from # c
    <3>1. reply'[c] = reply[c]
      BY <1>1, <1>4, <2>2
    <3>2. (HasAnswer(c)' /\ reported' # Lost) => FALSE
      BY <2>1, <3>1 DEF HasAnswer, Lost
    <3> QED
      BY <2>1, <3>2 DEF Answered
  <2>3. ASSUME calls[1].from = c, HasAnswer(c)'
        PROVE  calls' = <<>> /\ Kept(Shown', tool'[c].call)
    <3>1. reply'[c] # Failed
      BY <2>3 DEF HasAnswer, Failed
    <3>2. mem'[d] = After(r, t)
      BY <1>1, <1>2, <1>4, <2>3, <3>1
    <3>3. Kept(mem'[d], r) /\ calls' = <<>>
      BY <1>1, <1>2, <1>3, <1>5, <2>1, <2>3, <3>2, KeptAfter
    <3> QED
      BY <1>2, <1>5, <2>3, <3>3
  <2> QED
    BY <2>1, <2>2, <2>3 DEF Answered
<1>8. Reported'
  <2> SUFFICES ASSUME reported.is = "write" PROVE Reported'
    BY DEF Reported
  <2>1. /\ reported.call \in Requests /\ reported.call.method = "write"
        /\ Kept(t, reported.call)
        /\ \A i \in DOMAIN calls : calls[i].request.method \notin Changing
    BY <1>2 DEF UserInv, Reported
  <2>2. r.method \notin Changing
    BY <1>3, <2>1 DEF r
  <2>3. After(r, t) = t
    BY <2>2, ReadsChangeNothing
  <2>4. Shown' = t
    BY <1>1, <1>2, <2>3 DEF t
  <2>5. \A i \in DOMAIN calls' : calls'[i].request.method \notin Changing
    BY <1>3, <2>1
  <2> QED
    BY <2>1, <2>4, <2>5 DEF Reported
<1>9. tool' = [e \in Clients |-> tool'[e]]
  BY DEF UserInv
<1> QED
  BY <1>6, <1>7, <1>8, <1>9 DEF UserInv

\* What db-write calls.
LEMMA WriteCalls ==
  ASSUME NEW args, NEW r \in Needs(2, "write", args)
  PROVE  r.method = "write"
  BY DEF Needs

LEMMA ToolCalls ==
  ASSUME NEW c \in Clients, Tool(c)
  PROVE  \/ NoCall(c) \/ Finish(c)
         \/ Timeout(c) /\ UNCHANGED <<tool, reported>>
         \/ \E name, S : /\ Invoke(c, name, S)
                         /\ name = "db-write" => \A r \in S : r.method = "write"
<1>1. \A args : \A r \in Needs(2, "write", args) : r.method = "write"
  BY WriteCalls
<1> DEFINE Invokes == \E name, S : /\ Invoke(c, name, S)
                                   /\ name = "db-write" => \A r \in S : r.method = "write"
<1>2. ASSUME NEW args, DbWrite(c, args) PROVE Invokes
  BY <1>1, <1>2 DEF DbWrite
<1>3. ASSUME NEW args, \/ DbCat(c, args) \/ DbDump(c, args) \/ DbExists(c, args)
                       \/ DbInject(c, args) \/ DbLs(c, args) \/ DbNodes(c, args)
                       \/ DbRead(c, args) \/ DbRm(c, args)
      PROVE  Invokes
  <2>1. PICK name, S : Invoke(c, name, S) /\ name # "db-write"
    BY <1>3 DEF DbCat, DbDump, DbExists, DbInject, DbLs, DbNodes, DbRead, DbRm
  <2> QED
    BY <2>1
<1> HIDE DEF Invokes
<1>4. NoCall(c) \/ Finish(c) \/ (Timeout(c) /\ UNCHANGED <<tool, reported>>) \/ Invokes
  BY <1>2, <1>3 DEF Tool
<1> QED
  BY <1>4 DEF Invokes

\* The user starts a tool, in vain.
LEMMA UserMakesNoCall ==
  ASSUME NEW c \in Clients, UserInv(c), Shown' = Shown, NoCall(c)
  PROVE  UserInv(c)'
<1>1. /\ tool[c].exit # Running /\ UNCHANGED <<calls, reply, reported>>
      /\ tool' = [tool EXCEPT ![c] = Exited(1, Nothing)]
  BY DEF NoCall, Idles, dbdVars
<1>2. tool'[c].exit # Running /\ tool' = [e \in Clients |-> tool'[e]]
  BY <1>1 DEF UserInv, Exited, Running
<1>3. Queued(c)' /\ Answered(c)'
  BY <1>1, <1>2 DEF UserInv, Queued, Answered, Writing
<1>4. Reported'
  BY <1>1 DEF UserInv, Reported
<1> QED
  BY <1>2, <1>3, <1>4 DEF UserInv

\* The user starts a tool.
LEMMA UserInvokes ==
  ASSUME ShownInv, NEW c \in Clients, UserInv(c), Shown' = Shown,
         NEW name, NEW S, Invoke(c, name, S),
         name = "db-write" => \A r \in S : r.method = "write"
  PROVE  UserInv(c)'
<1>0. tool[c].exit # Running
  BY DEF Invoke, Idles
<1>1. \A i \in DOMAIN calls : calls[i].from # c
  BY <1>0 DEF UserInv, Queued
<1>2. /\ tool = [e \in Clients |-> tool[e]]
      /\ reported.is = "write" =>
           /\ reported.call \in Requests /\ reported.call.method = "write"
           /\ Kept(Shown, reported.call)
           /\ \A i \in DOMAIN calls : calls[i].request.method \notin Changing
  BY DEF UserInv, Reported
<1>4. ASSUME NEW r \in S \cap Requests, Send(c, r),
             tool' = [tool EXCEPT ![c] = [name |-> name, call |-> r, exit |-> Running]],
             reported' = IF r.method \in Changing THEN NoReport ELSE reported
      PROVE  UserInv(c)'
  <2>1. /\ tool'[c].exit = Running /\ tool'[c].call = r /\ tool'[c].name = name
        /\ tool' = [e \in Clients |-> tool'[e]]
    BY <1>2, <1>4
  <2>2. \/ reply'[c] = Failed /\ UNCHANGED calls
        \/ reply'[c] = Waiting /\ calls' = Append(calls, [from |-> c, request |-> r])
    BY <1>4 DEF Send, Replies
  <2>3. ASSUME calls' = Append(calls, [from |-> c, request |-> r])
        PROVE  /\ \A i \in DOMAIN calls' :
                    \/ i \in DOMAIN calls /\ calls'[i] = calls[i]
                    \/ i = Len(calls') /\ calls'[i].from = c /\ calls'[i].request = r
    <3> DEFINE e == [from |-> c, request |-> r]
    <3>1. calls \in Seq(Call) /\ e \in Call /\ e.from = c /\ e.request = r
      BY DEF ShownInv, DbdInv, Calls, Call
    <3> HIDE DEF e
    <3>2. /\ Len(calls') = Len(calls) + 1 /\ calls' \in Seq(Call) /\ calls'[Len(calls) + 1] = e
          /\ \A i \in 1 .. Len(calls) : calls'[i] = calls[i]
      BY <2>3, <3>1, AppendProperties DEF e
    <3>3. DOMAIN calls' = 1 .. Len(calls) + 1 /\ DOMAIN calls = 1 .. Len(calls) /\ Len(calls) \in Nat
      BY <3>1, <3>2
    <3> QED
      BY <3>1, <3>2, <3>3
  <2>4. Queued(c)'
    <3>1. CASE UNCHANGED calls
      BY <1>1, <3>1 DEF Queued
    <3>2. CASE reply'[c] = Waiting /\ calls' = Append(calls, [from |-> c, request |-> r])
      BY <1>1, <2>1, <2>3, <3>2 DEF Queued
    <3> QED
      BY <2>2, <3>1, <3>2
  <2>5. Answered(c)'
    <3>1. ~HasAnswer(c)'
      BY <2>2 DEF HasAnswer, Failed, Waiting
    <3> QED
      BY <1>4, <2>1, <3>1 DEF Answered, Writing
  <2>6. Reported'
    <3> SUFFICES ASSUME reported'.is = "write" PROVE Reported'
      BY DEF Reported
    <3>1. reported' = reported /\ r.method \notin Changing
      BY <1>4 DEF NoReport
    <3>2. \A i \in DOMAIN calls' : calls'[i].request.method \notin Changing
      BY <1>2, <2>2, <2>3, <3>1
    <3> QED
      BY <1>2, <3>1, <3>2 DEF Reported
  <2> QED
    BY <2>1, <2>4, <2>5, <2>6 DEF UserInv
<1> QED
  BY <1>4 DEF Invoke

\* A tool exits.
LEMMA UserFinishes ==
  ASSUME NEW c \in Clients, UserInv(c), Shown' = Shown, Finish(c)
  PROVE  UserInv(c)'
<1>1. /\ tool[c].exit = Running /\ reply[c] # Waiting /\ calls' = calls
      /\ tool' = [tool EXCEPT ![c] =
              IF HasAnswer(c) THEN Exited(0, Prints(tool[c].name, reply[c].value))
              ELSE Exited(1, Nothing)]
      /\ reported' = IF HasAnswer(c) /\ tool[c].name = "db-write" /\ reported # Lost
                     THEN [is |-> "write", call |-> tool[c].call] ELSE reported
  BY DEF Finish
<1>2. tool'[c].exit # Running /\ tool' = [e \in Clients |-> tool'[e]]
  <2>1. tool = [e \in Clients |-> tool[e]]
    BY DEF UserInv
  <2>2. \A x : Exited(0, x).exit # Running /\ Exited(1, x).exit # Running
    BY DEF Exited, Running
  <2> QED
    BY <1>1, <2>1, <2>2
<1>3. Queued(c)'
  BY <1>1 DEF UserInv, Queued
<1>4. Answered(c)'
  BY <1>2 DEF Answered, Writing
<1>5. Reported'
  <2>1. CASE HasAnswer(c) /\ tool[c].name = "db-write" /\ reported # Lost
    <3>1. reported'.call = tool[c].call
      BY <1>1, <2>1
    <3>2. /\ tool[c].call \in Requests /\ tool[c].call.method = "write"
          /\ calls' = <<>> /\ Kept(Shown, tool[c].call)
      BY <1>1, <2>1 DEF UserInv, Answered, Writing
    <3>3. DOMAIN calls' = {}
      BY <3>2
    <3> QED
      BY <3>1, <3>2, <3>3 DEF Reported
  <2>2. CASE reported' = reported
    BY <1>1, <2>2 DEF UserInv, Reported
  <2> QED
    BY <1>1, <2>1, <2>2
<1> QED
  BY <1>2, <1>3, <1>4, <1>5 DEF UserInv

\* A tool gives up; its call stays in the queue.
LEMMA UserGivesUp ==
  ASSUME ShownInv, NEW c \in Clients, UserInv(c), Shown' = Shown, Timeout(c),
         UNCHANGED <<tool, reported>>
  PROVE  UserInv(c)'
<1>1. /\ reply'[c] = Failed /\ reply[c] = Waiting
      /\ calls' = [i \in DOMAIN calls |->
           IF calls[i].from = c THEN [calls[i] EXCEPT !.from = Nobody] ELSE calls[i]]
  BY Zenon DEF Timeout, Replies
<1>2. ASSUME NEW i \in DOMAIN calls
      PROVE  calls'[i].request = calls[i].request /\ calls'[i].from # c
  <2>1. calls[i] \in Call
    BY DEF ShownInv, DbdInv, Calls
  <2>2. \A e \in Call : [e EXCEPT !.from = Nobody].from = Nobody
                        /\ [e EXCEPT !.from = Nobody].request = e.request
    BY DEF Call
  <2>3. Nobody # c
    BY NobodyAssumption
  <2> QED
    BY <1>1, <2>1, <2>2, <2>3
<1>3. DOMAIN calls' = DOMAIN calls
  BY <1>1
<1>4. ~HasAnswer(c)'
  BY <1>1 DEF HasAnswer, Failed
<1>5. Queued(c)'
  BY <1>2, <1>3 DEF Queued
<1>6. Answered(c)'
  BY <1>4 DEF UserInv, Answered, Writing
<1>7. Reported'
  BY <1>2, <1>3 DEF UserInv, Reported
<1>8. tool' = [e \in Clients |-> tool'[e]]
  BY DEF UserInv
<1> QED
  BY <1>5, <1>6, <1>7, <1>8 DEF UserInv

LEMMA UserStep ==
  ASSUME FilesTold, WritesLast, NEW c \in Clients, Clients = {c},
         ShownInv, ShownInv', UserInv(c), Forced(c), [ToolsNext]_toolVars
  PROVE  UserInv(c)'
<1>1. ASSUME UNCHANGED <<stage, mem, files>> PROVE Shown' = Shown
  BY <1>1 DEF Shown, Served, Loaded
<1>2. ASSUME NEW d \in Daemons, Process(d) PROVE UserInv(c)'
  <2>1. CASE Loses(d) /\ reported' = Lost /\ UNCHANGED tool
    BY <2>1, UserAndLoss
  <2>2. CASE Handle(d) /\ UNCHANGED <<tool, reported>>
    BY <2>2, UserAndHandle
  <2>3. ASSUME (DbdStep(d) /\ ~Handle(d)) \/ (Crash(d) /\ ~Loaded(d)),
               UNCHANGED <<tool, reported>>
        PROVE  UserInv(c)'
    BY <2>3, UserAndProcess
  <2>4. Loses(d) /\ ~Loaded(d) => Crash(d)
    BY DEF Loses, ForceInVain, Forces, Loaded
  <2>5. /\ UNCHANGED tool
        /\ \/ DbdStep(d) /\ UNCHANGED reported
           \/ Loses(d) /\ reported' = Lost
           \/ Loses(d) /\ UNCHANGED reported /\ ~Loaded(d)
    BY <1>2 DEF Process
  <2> QED
    BY <2>1, <2>2, <2>3, <2>4, <2>5
<1>3. ASSUME Tool(c) PROVE UserInv(c)'
  <2>1. CASE Finish(c)
    <3>1. Shown' = Shown
      BY <1>1, <2>1 DEF Finish
    <3> QED
      BY <2>1, <3>1, UserFinishes
  <2>2. CASE Timeout(c) /\ UNCHANGED <<tool, reported>>
    <3>1. Shown' = Shown
      BY <1>1, <2>2 DEF Timeout
    <3> QED
      BY <2>2, <3>1, UserGivesUp
  <2>3. CASE NoCall(c)
    <3>1. Shown' = Shown
      BY <1>1, <2>3 DEF NoCall, dbdVars
    <3> QED
      BY <2>3, <3>1, UserMakesNoCall
  <2>4. ASSUME NEW name, NEW S, Invoke(c, name, S),
               name = "db-write" => \A r \in S : r.method = "write"
        PROVE  UserInv(c)'
    <3>1. UNCHANGED <<stage, mem, files>>
      BY <2>4 DEF Invoke, Send
    <3> QED
      BY <1>1, <2>4, <3>1, UserInvokes
  <2> QED
    BY <1>3, <2>1, <2>2, <2>3, <2>4, ToolCalls
<1>4. CASE UNCHANGED toolVars
  <2>1. AllKept
    BY <1>1, <1>4 DEF toolVars, dbdVars, AllKept
  <2> QED
    BY <1>4, <2>1, UserWaits DEF toolVars, dbdVars
<1> QED
  BY <1>2, <1>3, <1>4 DEF ToolsNext

-----------------------------------------------------------------------------
(* An exit saves what is at stake                                          *)

\* A flush that has been forced has saved its database, or was already.
LEMMA ForcedBy ==
  ASSUME DbdInv, DbdInv', NEW d \in Daemons, DbdStep(d) \/ Crash(d),
         NEW e \in Daemons, stage'[e] = "exiting", NEW b \in Dbs(e)' \ toForce'[e]
  PROVE  \/ Saved(e, b)'
         \/ /\ stage[e] = "exiting" /\ b \in Dbs(e) \ toForce[e]
            /\ Saved(e, b) => Saved(e, b)'
<1> DEFINE Goal == \/ Saved(e, b)'
                   \/ /\ stage[e] = "exiting" /\ b \in Dbs(e) \ toForce[e]
                      /\ Saved(e, b) => Saved(e, b)'
<1> SUFFICES Goal
  OBVIOUS
<1> USE DEF DbdInv
<1>1. b \in AllDbs
  BY DEF Dbs, AllDbs
<1>2. \A x \in Daemons : Named(x) /\ Named(e) => x = e
  BY DEF NameInv
<1>3. Named(e)' /\ \A x \in Daemons : Named(x)' => x = e
  BY DEF NameInv, Named
<1>4. ASSUME stage[e] = "exiting", mem'[e] = mem[e], files'[b] = files[b],
             toForce'[e] = toForce[e]
      PROVE  Goal
  BY <1>4 DEF Dbs, Saved
<1>5. CASE Launch(d) \/ RegisterService(d) \/ Listen(d) \/ Signal(d)
  <2>1. UNCHANGED <<mem, files, toForce>>
    BY <1>5 DEF Launch, RegisterService, Listen, Signal
  <2>2. stage[e] = "exiting"
    BY <1>5 DEF Launch, RegisterService, Listen, Signal, Goes, NameInv
  <2> QED
    BY <1>4, <2>1, <2>2
<1>6. CASE NoBus(d) \/ AlreadyRunning(d) \/ End(d) \/ Crash(d)
  <2>1. Ends(d) /\ UNCHANGED files
    BY <1>6 DEF NoBus, AlreadyRunning, End, Crash
  <2>2. stage[e] = "exiting" /\ mem'[e] = mem[e] /\ toForce'[e] = toForce[e]
    BY <2>1 DEF Ends, Goes, NameInv, Functions
  <2> QED
    BY <1>4, <2>1, <2>2
<1>7. CASE LoadTree(d)
  <2>1. Named(d)' /\ stage'[d] # "exiting"
    BY <1>7 DEF LoadTree, Goes, NameInv, Named
  <2> QED
    BY <1>3, <2>1
<1>8. CASE Handle(d)
  <2>1. Reachable(d) /\ stage' = stage
    BY <1>8, HandledCall
  <2>2. Named(d)' /\ stage'[d] # "exiting"
    BY <2>1 DEF Reachable, Named
  <2> QED
    BY <1>3, <2>2
<1>9. ASSUME NEW a \in AllDbs, Save(d, a) \/ ForcePendingFlush(d, a) PROVE Goal
  <2>1. /\ files' = [files EXCEPT ![a] = FileOf(Part(mem[d], a))]
        /\ UNCHANGED <<stage, mem>> /\ Named(d)
        /\ toForce' = toForce \/ toForce' = [toForce EXCEPT ![d] = @ \ {a}]
    BY <1>9 DEF Save, ForcePendingFlush, Forces, Named
  <2>2. d = e /\ stage[e] = "exiting" /\ b \in Dbs(e)
    BY <1>2, <2>1 DEF Dbs, Named
  <2>3. files'[b] = IF b = a THEN FileOf(Part(mem[e], a)) ELSE files[b]
    BY <1>1, <2>1, <2>2 DEF Functions
  <2>4. CASE b = a
    BY <2>1, <2>3, <2>4 DEF Saved
  <2>5. CASE b # a
    <3>1. b \notin toForce[e]
      BY <2>1, <2>2, <2>5 DEF Functions
    <3> QED
      BY <2>1, <2>2, <2>3, <2>5, <3>1 DEF Saved
  <2> QED
    BY <2>4, <2>5
<1>10. CASE Exit(d)
  <2>1. /\ toForce' = [toForce EXCEPT ![d] = ToForce(d)] /\ UNCHANGED <<mem, files>>
        /\ Goes(d, "exiting")
    BY <1>10 DEF Exit
  <2>2. CASE d = e
    <3>1. toForce'[e] = Dbs(e) /\ Dbs(e)' = Dbs(e)
      BY <2>1, <2>2 DEF Functions, ToForce, Dbs
    <3> QED
      BY <3>1
  <2>3. CASE d # e
    BY <1>4, <2>1, <2>3 DEF Goes, NameInv, Functions
  <2> QED
    BY <2>2, <2>3
<1> HIDE DEF Goal
<1> QED
  BY <1>5, <1>6, <1>7, <1>8, <1>9, <1>10 DEF DbdStep, StartsUp

\* Nothing is put at stake but by an answer.
LEMMA StakesByTool ==
  ASSUME NEW c \in Clients, UserInv(c), AtStake(c)',
         \/ NoCall(c) \/ Finish(c)
         \/ Timeout(c) /\ UNCHANGED <<tool, reported>>
         \/ \E name, S : Invoke(c, name, S)
         \/ UNCHANGED toolVars
  PROVE  AtStake(c) /\ UNCHANGED <<stage, mem, files, toForce>>
<1>1. tool = [e \in Clients |-> tool[e]]
  BY DEF UserInv
<1>2. CASE NoCall(c)
  <2>1. tool'[c].exit # Running /\ UNCHANGED <<dbdVars, reported>>
    BY <1>1, <1>2 DEF NoCall, Exited, Running
  <2> QED
    BY <2>1 DEF AtStake, Writing, dbdVars
<1>3. CASE Finish(c)
  <2>1. /\ tool'[c].exit # Running /\ UNCHANGED <<stage, mem, files, toForce>>
        /\ \/ reported' = reported
           \/ tool[c].exit = Running /\ HasAnswer(c) /\ tool[c].name = "db-write" /\ reported # Lost
    BY <1>1, <1>3 DEF Finish, Exited, Running
  <2> QED
    BY <2>1 DEF AtStake, Writing
<1>4. CASE Timeout(c) /\ UNCHANGED <<tool, reported>>
  <2>1. reply'[c] = Failed /\ UNCHANGED <<stage, mem, files, toForce>>
    BY <1>4, Zenon DEF Timeout, Replies
  <2> QED
    BY <1>4, <2>1 DEF AtStake, HasAnswer, Failed
<1>5. ASSUME NEW name, NEW S, Invoke(c, name, S)
      PROVE  AtStake(c) /\ UNCHANGED <<stage, mem, files, toForce>>
  <2>1. PICK r \in S \cap Requests :
            Send(c, r) /\ reported' = IF r.method \in Changing THEN NoReport ELSE reported
    BY <1>5 DEF Invoke
  <2>2. (reply'[c] = Failed \/ reply'[c] = Waiting) /\ UNCHANGED <<stage, mem, files, toForce>>
    BY <2>1 DEF Send, Replies
  <2> QED
    BY <2>1, <2>2 DEF AtStake, HasAnswer, Failed, Waiting, NoReport
<1>6. CASE UNCHANGED toolVars
  BY <1>6 DEF toolVars, dbdVars, AtStake, Writing, HasAnswer
<1> QED
  BY <1>2, <1>3, <1>4, <1>5, <1>6

LEMMA ForcedStep ==
  ASSUME NEW c \in Clients, Clients = {c}, ShownInv, ShownInv', UserInv(c), Forced(c),
         [ToolsNext]_toolVars
  PROVE  Forced(c)'
<1> SUFFICES ASSUME NEW e \in Daemons, stage'[e] = "exiting",
                    NEW b \in Dbs(e)' \ toForce'[e], AtStake(c)'
             PROVE  Saved(e, b)'
  BY DEF Forced
<1> USE DEF ShownInv
<1>1. ASSUME NEW d \in Daemons, Process(d) PROVE Saved(e, b)'
  <2>1. reported' # Lost /\ UNCHANGED tool
    BY <1>1 DEF AtStake, Lost, Process
  <2>2. /\ UNCHANGED reported
        /\ DbdStep(d) \/ Crash(d)
    BY <1>1, <2>1 DEF Process, Loses, ForceInVain, Forces, Loaded
  <2>3. \/ Saved(e, b)'
        \/ /\ stage[e] = "exiting" /\ b \in Dbs(e) \ toForce[e]
           /\ Saved(e, b) => Saved(e, b)'
    BY <2>2, ForcedBy
  <2>4. CASE Handle(d)
    <3>1. Reachable(d) /\ stage' = stage
      BY <2>4, HandledCall DEF DbdInv
    <3>2. FALSE
      BY <3>1 DEF Reachable, DbdInv, NameInv, Named
    <3> QED
      BY <3>2
  <2>5. CASE ~Handle(d)
    <3>1. reply' = reply \/ reply'[c] \in {reply[c], Failed}
      BY <2>2, <2>5, OthersGetNoAnswer DEF Loses
    <3>2. AtStake(c)
      BY <2>1, <2>2, <3>1 DEF AtStake, Writing, HasAnswer, Failed
    <3> QED
      BY <2>3, <3>2 DEF Forced
  <2> QED
    BY <2>4, <2>5
<1>2. CASE Tool(c) \/ UNCHANGED toolVars
  <2>1. AtStake(c) /\ UNCHANGED <<stage, mem, files, toForce>>
    BY <1>2, ToolCalls, StakesByTool
  <2> QED
    BY <2>1 DEF Forced, Dbs, Saved
<1> QED
  BY <1>1, <1>2 DEF ToolsNext

LEMMA UserInit ==
  ASSUME NEW c \in Clients, ToolsInit
  PROVE  UserInv(c) /\ Forced(c)
<1>1. calls = <<>> /\ tool = [e \in Clients |-> Exited(0, Nothing)] /\ reported = NoReport
  BY DEF ToolsInit, DbdInit
<1>2. tool[c].exit # Running /\ tool = [e \in Clients |-> tool[e]] /\ DOMAIN calls = {}
  BY <1>1 DEF Exited, Running
<1>3. Forced(c)
  BY DEF ToolsInit, DbdInit, Forced
<1> QED
  BY <1>1, <1>2, <1>3 DEF UserInv, Queued, Answered, Writing, Reported, NoReport

(***************************************************************************)
(* What db-write has reported to a user who runs one command after another *)
(* stays until the next that changes something: calls given up on have     *)
(* been served before it, a save in between leaves what is in memory, an   *)
(* exit saves each database that is in a hash, unless a save fails, and    *)
(* those are all that the next start loads.  (Of the names of databases    *)
(* this takes that they are uuids: the files of others are not loaded,     *)
(* dbtree.cpp:93.)                                                         *)
(***************************************************************************)
THEOREM ReportedStays ==
  ASSUME FilesTold, WritesLast, IsFiniteSet(Clients)
  PROVE  ToolsSpec => []ReportedIsShown
<1>1. CASE Cardinality(Clients) # 1
  <2>1. ReportedIsShown
    BY <1>1 DEF ReportedIsShown
  <2> QED
    BY <2>1, PTL
<1>2. CASE Cardinality(Clients) = 1
  <2>1. \E c : Clients = {c}
    BY <1>2, FS_Singleton
  <2>2. ASSUME NEW c, Clients = {c} PROVE ToolsSpec => []ReportedIsShown
    <3> USE <2>2
    <3>1. c \in Clients
      OBVIOUS
    <3>2. ToolsInit => ShownInv /\ UserInv(c) /\ Forced(c)
      BY <3>1, ShownInit, UserInit
    <3>3. /\ ShownInv /\ UserInv(c) /\ Forced(c) /\ [ToolsNext]_toolVars
          => (ShownInv /\ UserInv(c) /\ Forced(c))'
      <4> SUFFICES ASSUME ShownInv, UserInv(c), Forced(c), [ToolsNext]_toolVars
                   PROVE  ShownInv' /\ UserInv(c)' /\ Forced(c)'
        OBVIOUS
      <4>1. ShownInv'
        BY ShownStep
      <4>2. UserInv(c)' /\ Forced(c)'
        BY <3>1, <4>1, UserStep, ForcedStep
      <4> QED
        BY <4>1, <4>2
    <3>4. UserInv(c) => ReportedIsShown
      BY DEF UserInv, Reported, Kept, ReportedIsShown
    <3> QED
      BY <3>2, <3>3, <3>4, PTL DEF ToolsSpec
  <2> QED
    BY <2>1, <2>2
<1> QED
  BY <1>1, <1>2

-----------------------------------------------------------------------------
(* Whose answer it is                                                      *)

\* A tool waits for the one call that it has made.
OwnCalls ==
    /\ tool = [c \in Clients |-> tool[c]]
    /\ \A i \in DOMAIN calls :
         calls[i].from \in Clients =>
             /\ tool[calls[i].from].exit = Running
             /\ tool[calls[i].from].call = calls[i].request

AnswerInv == ShownInv /\ QueueInv /\ OwnCalls

LEMMA OwnCallsByProcess ==
  ASSUME Calls, OwnCalls, NEW d \in Daemons, DbdStep(d) \/ Loses(d), UNCHANGED tool
  PROVE  OwnCalls'
<1>1. CASE Handle(d)
  <2>1. calls # <<>> /\ calls' = Tail(calls)
    BY <1>1 DEF Handle
  <2>2. \A i \in DOMAIN calls' : i + 1 \in DOMAIN calls /\ calls'[i] = calls[i + 1]
    BY <2>1, LaterCalls
  <2> QED
    BY <2>2 DEF OwnCalls
<1>2. CASE ~Handle(d)
  <2>1. calls' = calls \/ calls' = <<>>
    BY <1>2 DEF DbdStep, StartsUp, Launch, NoBus, AlreadyRunning, RegisterService, LoadTree,
                Listen, Save, Signal, Exit, ForcePendingFlush, Forces, End, Loses,
                ForceInVain, Crash, OwnerGone
  <2>2. DOMAIN <<>> = {}
    OBVIOUS
  <2> QED
    BY <2>1, <2>2 DEF OwnCalls
<1> QED
  BY <1>1, <1>2

LEMMA OwnCallsByTool ==
  ASSUME Calls, QueueInv, OwnCalls, NEW c \in Clients, Tool(c)
  PROVE  OwnCalls'
<1>1. ASSUME NEW x, tool' = [tool EXCEPT ![c] = x]
      PROVE  /\ tool' = [e \in Clients |-> tool'[e]] /\ tool'[c] = x
             /\ \A e \in Clients : e # c => tool'[e] = tool[e]
  BY <1>1 DEF OwnCalls
<1>2. ASSUME UNCHANGED calls, NEW x, tool' = [tool EXCEPT ![c] = x],
             \A i \in DOMAIN calls : calls[i].from # c
      PROVE  OwnCalls'
  <2>1. /\ tool' = [e \in Clients |-> tool'[e]]
        /\ \A e \in Clients : e # c => tool'[e] = tool[e]
    BY <1>1, <1>2
  <2> QED
    BY <1>2, <2>1 DEF OwnCalls
<1>3. tool[c].exit # Running => \A i \in DOMAIN calls : calls[i].from # c
  BY DEF OwnCalls
<1>4. CASE NoCall(c)
  BY <1>2, <1>3, <1>4 DEF NoCall, Idles, dbdVars
<1>5. CASE Finish(c)
  <2>1. /\ UNCHANGED calls /\ \A i \in DOMAIN calls : calls[i].from # c
        /\ \E x : tool' = [tool EXCEPT ![c] = x]
    BY <1>5 DEF Finish, QueueInv
  <2> QED
    BY <1>2, <2>1
<1>6. CASE Timeout(c) /\ UNCHANGED <<tool, reported>>
  BY <1>6, GivenUp, NobodyAssumption DEF OwnCalls
<1>7. ASSUME NEW name, NEW S, Invoke(c, name, S) PROVE OwnCalls'
  <2>1. PICK r \in S \cap Requests :
            /\ tool[c].exit # Running /\ Send(c, r)
            /\ tool' = [tool EXCEPT ![c] = [name |-> name, call |-> r, exit |-> Running]]
    BY <1>7 DEF Invoke, Idles
  <2>2. /\ tool' = [e \in Clients |-> tool'[e]] /\ tool'[c].exit = Running /\ tool'[c].call = r
        /\ \A e \in Clients : e # c => tool'[e] = tool[e]
    BY <1>1, <2>1
  <2>3. \A i \in DOMAIN calls : calls[i].from # c
    BY <1>3, <2>1
  <2>4. CASE UNCHANGED calls
    BY <2>2, <2>3, <2>4 DEF OwnCalls
  <2>5. CASE calls' = Append(calls, [from |-> c, request |-> r])
    <3> DEFINE e == [from |-> c, request |-> r]
    <3>1. calls \in Seq(Call) /\ e \in Call /\ e.from = c /\ e.request = r
      BY DEF Calls, Call
    <3> HIDE DEF e
    <3>2. /\ Len(calls') = Len(calls) + 1 /\ calls' \in Seq(Call) /\ calls'[Len(calls) + 1] = e
          /\ \A i \in 1 .. Len(calls) : calls'[i] = calls[i]
      BY <2>5, <3>1, AppendProperties DEF e
    <3>3. DOMAIN calls' = 1 .. Len(calls) + 1 /\ DOMAIN calls = 1 .. Len(calls) /\ Len(calls) \in Nat
      BY <3>1, <3>2
    <3>4. \A i \in DOMAIN calls' : \/ i \in DOMAIN calls /\ calls'[i] = calls[i]
                                   \/ calls'[i].from = c /\ calls'[i].request = r
      BY <3>1, <3>2, <3>3
    <3> QED
      BY <2>2, <2>3, <3>4 DEF OwnCalls
  <2> QED
    BY <2>1, <2>4, <2>5 DEF Send
<1> QED
  BY <1>4, <1>5, <1>6, <1>7, ToolCalls

LEMMA AnswerInit == ToolsInit => AnswerInv
<1> SUFFICES ASSUME ToolsInit PROVE AnswerInv
  OBVIOUS
<1>1. DOMAIN calls = {} /\ tool = [c \in Clients |-> Exited(0, Nothing)] /\ DbdInit
  BY DEF ToolsInit, DbdInit
<1>2. OwnCalls
  BY <1>1 DEF OwnCalls
<1> QED
  BY <1>1, <1>2, ShownInit, QueueInit DEF AnswerInv

LEMMA AnswerStep == AnswerInv /\ [ToolsNext]_toolVars => AnswerInv'
<1> SUFFICES ASSUME AnswerInv, [ToolsNext]_toolVars PROVE AnswerInv'
  OBVIOUS
<1> USE DEF AnswerInv
<1>1. Calls
  BY DEF ShownInv, DbdInv
<1>2. QueueInv'
  <2>1. CASE [DbdNext]_dbdVars
    BY <1>1, <2>1, QueueStep
  <2>2. ASSUME NEW c \in Clients, Finish(c) PROVE QueueInv'
    <3>1. /\ reply[c] # Waiting /\ UNCHANGED calls
          /\ reply' = [e \in Clients |-> IF e = c THEN Idle ELSE reply[e]]
      BY <2>2 DEF Finish, Replies
    <3> QED
      BY <3>1 DEF QueueInv
  <2> QED
    BY <2>1, <2>2, ToolSteps
<1>3. OwnCalls'
  <2>1. ASSUME NEW d \in Daemons, Process(d) PROVE OwnCalls'
    BY <1>1, <2>1, OwnCallsByProcess DEF Process
  <2>2. ASSUME NEW c \in Clients, Tool(c) PROVE OwnCalls'
    BY <1>1, <2>2, OwnCallsByTool
  <2>3. CASE UNCHANGED toolVars
    BY <2>3 DEF toolVars, dbdVars, OwnCalls
  <2> QED
    BY <2>1, <2>2, <2>3 DEF ToolsNext
<1> QED
  BY <1>2, <1>3, ShownStep

\* The answer is put in the reply when the call is handled, and then only.
LEMMA AnsweredNow ==
  ASSUME AnswerInv, AnswerInv', [ToolsNext]_toolVars, NEW c \in Clients,
         ~HasAnswer(c), HasAnswer(c)'
  PROVE  /\ reply'[c].value = Answer(tool[c].call, Shown)
         /\ Shown' = After(tool[c].call, Shown)
<1>1. reply'[c] \notin {reply[c], Failed, Waiting, Idle}
  BY DEF HasAnswer, Failed, Waiting, Idle
<1>2. ASSUME NEW e \in Clients, Tool(e) PROVE FALSE
  <2>1. NoCall(e) \/ Finish(e) \/ Timeout(e) \/ \E r \in Requests : Send(e, r)
    BY <1>2, ToolCalls DEF Invoke
  <2>2. reply' = reply \/ \E x \in {Failed, Waiting, Idle} : reply' = Replies(e, x)
    BY <2>1 DEF NoCall, dbdVars, Finish, Timeout, Send
  <2> QED
    BY <1>1, <2>2 DEF Replies
<1>3. ASSUME NEW d \in Daemons, Process(d)
      PROVE  /\ reply'[c].value = Answer(tool[c].call, Shown)
             /\ Shown' = After(tool[c].call, Shown)
  <2>1. Handle(d)
    <3>1. ~((DbdStep(d) /\ ~Handle(d)) \/ Loses(d))
      BY <1>1, OthersGetNoAnswer
    <3> QED
      BY <1>3, <3>1 DEF Process
  <2> DEFINE r == calls[1].request
             t == mem[d]
  <2>2. /\ calls # <<>> /\ Loaded(d) /\ Loaded(d)'
        /\ \/ reply' = Replies(calls[1].from, Failed)
           \/ /\ reply' = Replies(calls[1].from, Value(Answer(r, t)))
              /\ mem' = [mem EXCEPT ![d] = After(r, t)]
    BY <2>1, HandledCall DEF AnswerInv, ShownInv, DbdInv
  <2>3. Shown = t /\ Shown' = mem'[d]
    BY <2>2, ShownBy, ShownByNext DEF AnswerInv, ShownInv, DbdInv
  <2>4. 1 \in DOMAIN calls
    BY <2>2, LaterCalls DEF AnswerInv, ShownInv, DbdInv
  <2> HIDE DEF r, t
  <2>5. \A x : reply' = Replies(calls[1].from, x) =>
                 reply'[c] = IF c = calls[1].from THEN x ELSE reply[c]
    BY DEF Replies
  <2>6. /\ c = calls[1].from /\ reply'[c] = Value(Answer(r, t))
        /\ mem' = [mem EXCEPT ![d] = After(r, t)]
    BY <1>1, <2>2, <2>5
  <2>7. tool[c].call = r
    BY <2>4, <2>6 DEF AnswerInv, OwnCalls, r
  <2>8. mem'[d] = After(r, t) /\ Value(Answer(r, t)).value = Answer(r, t)
    BY <2>6 DEF AnswerInv, ShownInv, DbdInv, Functions, Value
  <2> QED
    BY <2>3, <2>6, <2>7, <2>8
<1>4. ~UNCHANGED toolVars
  BY <1>1 DEF toolVars, dbdVars
<1> QED
  BY <1>2, <1>3, <1>4 DEF ToolsNext

(***************************************************************************)
(* Of any number of tools at once, each that gets an answer gets that of   *)
(* its own call, made to the tree that is shown when it is handled, and    *)
(* that call has its whole effect on that tree: whoever handles it has     *)
(* loaded the tree (main.cpp:161, main.cpp:171), a call that was given up  *)
(* on answers nobody, and a process that ends or dies takes the calls      *)
(* along.                                                                  *)
(***************************************************************************)
THEOREM AnswersStayCurrent == ToolsSpec => AnswersAreCurrent
<1>1. AnswerInv /\ AnswerInv' /\ [ToolsNext]_toolVars =>
        [\A c \in Clients : (~HasAnswer(c) /\ HasAnswer(c)') =>
           /\ reply'[c].value = Answer(tool[c].call, Shown)
           /\ Shown' = After(tool[c].call, Shown)]_toolVars
  BY AnsweredNow
<1> QED
  BY <1>1, AnswerInit, AnswerStep, PTL DEF ToolsSpec, AnswersAreCurrent
=============================================================================
