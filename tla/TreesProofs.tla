----------------------------- MODULE TreesProofs -----------------------------
(***************************************************************************)
(* Lemmas about Trees: paths and their prefixes, and what the operators on *)
(* trees do to a tree.                                                     *)
(***************************************************************************)
EXTENDS Trees, SequenceTheorems, WellFoundedInduction, TLAPS

-----------------------------------------------------------------------------
(* Paths                                                                   *)

LEMMA EmptyPath == <<>> \in Paths /\ Len(<<>>) = 0
  BY DEF Paths

LEMMA PrefixIff ==
  ASSUME NEW p \in Paths, NEW q \in Paths
  PROVE  IsPrefix(p, q) <=> Len(p) <= Len(q) /\ \A i \in 1 .. Len(p) : p[i] = q[i]
<1>1. Len(p) \in Nat /\ Len(q) \in Nat
  BY DEF Paths
<1>2. SubSeq(p, 1, Len(p)) = p
  BY SubSeqFull DEF Paths
<1>3. ASSUME Len(p) <= Len(q)
      PROVE  SubSeq(q, 1, Len(p)) = p <=> \A i \in 1 .. Len(p) : p[i] = q[i]
  <2> DEFINE s == SubSeq(q, 1, Len(p))
  <2>1. s \in Paths /\ Len(s) = Len(p) /\ \A i \in 1 .. Len(p) : s[i] = q[i]
    <3>1. \A i \in 1 .. Len(p) : q[i] \in Keys
      BY <1>1, <1>3, ElementOfSeq DEF Paths
    <3> QED
      BY <1>1, <3>1, SubSeqProperties DEF Paths
  <2> HIDE DEF s
  <2>2. (\A i \in 1 .. Len(p) : p[i] = q[i]) => s = p
    BY <2>1, SeqEqual DEF Paths
  <2> QED
    BY <2>1, <2>2 DEF s
<1> QED
  BY <1>2, <1>3 DEF IsPrefix

LEMMA PathsEqual ==
  ASSUME NEW p \in Paths, NEW q \in Paths, Len(p) = Len(q),
         \A i \in 1 .. Len(p) : p[i] = q[i]
  PROVE  p = q
  BY SeqEqual DEF Paths

LEMMA PrefixOrder ==
  /\ \A p \in Paths : IsPrefix(p, p) /\ IsPrefix(<<>>, p)
  /\ \A p \in Paths : IsPrefix(p, <<>>) => p = <<>>
  /\ \A p, q \in Paths : IsPrefix(p, q) /\ IsPrefix(q, p) => p = q
  /\ \A p, q, r \in Paths : IsPrefix(p, q) /\ IsPrefix(q, r) => IsPrefix(p, r)
  /\ \A p, q, r \in Paths :
       IsPrefix(p, r) /\ IsPrefix(q, r) => IsPrefix(p, q) \/ IsPrefix(q, p)
<1>1. \A p \in Paths : Len(p) \in Nat
  BY DEF Paths
<1>2. ASSUME NEW p \in Paths PROVE IsPrefix(p, p) /\ IsPrefix(<<>>, p)
  BY <1>1, EmptyPath, PrefixIff
<1>3. ASSUME NEW p \in Paths, IsPrefix(p, <<>>) PROVE p = <<>>
  BY <1>1, <1>3, EmptyPath, PrefixIff, PathsEqual
<1>4. ASSUME NEW p \in Paths, NEW q \in Paths, IsPrefix(p, q), IsPrefix(q, p) PROVE p = q
  BY <1>1, <1>4, PrefixIff, PathsEqual
<1>5. ASSUME NEW p \in Paths, NEW q \in Paths, NEW r \in Paths,
             IsPrefix(p, q), IsPrefix(q, r)
      PROVE  IsPrefix(p, r)
  <2>1. /\ Len(p) <= Len(q) /\ \A i \in 1 .. Len(p) : p[i] = q[i]
        /\ Len(q) <= Len(r) /\ \A i \in 1 .. Len(q) : q[i] = r[i]
    BY <1>5, PrefixIff
  <2>2. Len(p) <= Len(r) /\ \A i \in 1 .. Len(p) : p[i] = r[i]
    BY <1>1, <2>1
  <2> QED
    BY <2>2, PrefixIff
<1>6. ASSUME NEW p \in Paths, NEW q \in Paths, NEW r \in Paths,
             IsPrefix(p, r), IsPrefix(q, r)
      PROVE  IsPrefix(p, q) \/ IsPrefix(q, p)
  <2>1. /\ Len(p) <= Len(r) /\ \A i \in 1 .. Len(p) : p[i] = r[i]
        /\ Len(q) <= Len(r) /\ \A i \in 1 .. Len(q) : q[i] = r[i]
    BY <1>6, PrefixIff
  <2>2. CASE Len(p) <= Len(q)
    BY <1>1, <2>1, <2>2, PrefixIff
  <2>3. CASE Len(q) <= Len(p)
    BY <1>1, <2>1, <2>3, PrefixIff
  <2> QED
    BY <1>1, <2>2, <2>3
<1> QED
  BY <1>2, <1>3, <1>4, <1>5, <1>6

LEMMA FrontOf ==
  ASSUME NEW q \in Paths, q # <<>>
  PROVE  /\ Front(q) \in Paths /\ Len(Front(q)) = Len(q) - 1 /\ Len(q) \in Nat \ {0}
         /\ \A i \in 1 .. Len(q) - 1 : Front(q)[i] = q[i]
         /\ IsPrefix(Front(q), q) /\ Front(q) # q
<1>1. Len(q) \in Nat \ {0}
  BY EmptySeq DEF Paths
<1>2. \A i \in 1 .. Len(q) - 1 : q[i] \in Keys
  BY <1>1, ElementOfSeq DEF Paths
<1>3. /\ Front(q) \in Paths /\ Len(Front(q)) = Len(q) - 1
      /\ \A i \in 1 .. Len(q) - 1 : Front(q)[i] = q[i]
  <2> DEFINE n == Len(q) - 1
  <2>1. n \in Nat /\ Front(q) = SubSeq(q, 1, n)
    BY <1>1 DEF Front
  <2> HIDE DEF n
  <2>2. \A i \in 1 .. n : q[i] \in Keys
    BY <1>2 DEF n
  <2>3. /\ SubSeq(q, 1, n) \in Seq(Keys)
        /\ Len(SubSeq(q, 1, n)) = IF 1 <= n THEN n - 1 + 1 ELSE 0
        /\ \A i \in 1 .. n - 1 + 1 : SubSeq(q, 1, n)[i] = q[1 + i - 1]
    BY <2>1, <2>2, SubSeqProperties
  <2>4. /\ Front(q) \in Paths /\ Len(Front(q)) = n /\ \A i \in 1 .. n : Front(q)[i] = q[i]
    BY <2>1, <2>3 DEF Paths
  <2> QED
    BY <2>4 DEF n
<1> QED
  BY <1>1, <1>3, PrefixIff

LEMMA PrefixOfFront ==
  ASSUME NEW p \in Paths, NEW q \in Paths, IsPrefix(p, q), p # q
  PROVE  q # <<>> /\ IsPrefix(p, Front(q))
<1>1. q # <<>>
  BY PrefixOrder
<1>2. Len(p) \in Nat /\ Len(q) \in Nat
  BY DEF Paths
<1>3. Len(p) <= Len(q) /\ \A i \in 1 .. Len(p) : p[i] = q[i]
  BY PrefixIff
<1>4. Len(p) # Len(q)
  BY <1>2, <1>3, PathsEqual
<1>5. Len(p) <= Len(Front(q)) /\ \A i \in 1 .. Len(p) : p[i] = Front(q)[i]
  BY <1>1, <1>2, <1>3, <1>4, FrontOf
<1> QED
  BY <1>1, <1>5, FrontOf, PrefixIff

LEMMA FrontPrefix ==
  ASSUME NEW p \in Paths, NEW q \in Paths, q # <<>>, IsPrefix(p, Front(q))
  PROVE  IsPrefix(p, q) /\ p # q
<1>1. Front(q) \in Paths /\ IsPrefix(Front(q), q) /\ Front(q) # q
  BY FrontOf
<1> QED
  BY <1>1, PrefixOrder

LEMMA PathsToIff ==
  ASSUME NEW p \in Paths, NEW q
  PROVE  q \in PathsTo(p) <=> q \in Paths /\ q # <<>> /\ IsPrefix(q, p)
<1>1. Len(p) \in Nat
  BY DEF Paths
<1>2. ASSUME NEW i \in 1 .. Len(p)
      PROVE  /\ SubSeq(p, 1, i) \in Paths /\ Len(SubSeq(p, 1, i)) = i
             /\ \A j \in 1 .. i : SubSeq(p, 1, i)[j] = p[j]
  <2>1. \A j \in 1 .. i : p[j] \in Keys
    BY <1>1, ElementOfSeq DEF Paths
  <2> QED
    BY <1>1, <2>1, SubSeqProperties DEF Paths
<1>3. ASSUME q \in PathsTo(p) PROVE q \in Paths /\ q # <<>> /\ IsPrefix(q, p)
  <2>1. PICK i \in 1 .. Len(p) : q = SubSeq(p, 1, i)
    BY <1>3 DEF PathsTo
  <2>2. q \in Paths /\ Len(q) = i /\ \A j \in 1 .. i : q[j] = p[j]
    BY <1>2, <2>1
  <2> QED
    BY <1>1, <2>2, PrefixIff, EmptyPath
<1>4. ASSUME q \in Paths, q # <<>>, IsPrefix(q, p) PROVE q \in PathsTo(p)
  <2>1. Len(q) \in 1 .. Len(p) /\ \A i \in 1 .. Len(q) : q[i] = p[i]
    BY <1>1, <1>4, PrefixIff, EmptySeq DEF Paths
  <2>2. q = SubSeq(p, 1, Len(q))
    <3> DEFINE s == SubSeq(p, 1, Len(q))
    <3>1. s \in Paths /\ Len(s) = Len(q) /\ \A j \in 1 .. Len(q) : s[j] = p[j]
      BY <1>2, <2>1
    <3> HIDE DEF s
    <3>2. s = q
      BY <1>4, <2>1, <3>1, PathsEqual
    <3> QED
      BY <3>2 DEF s
  <2> QED
    BY <2>1, <2>2 DEF PathsTo
<1> QED
  BY <1>3, <1>4

LEMMA RestOf ==
  ASSUME NEW p \in Paths, NEW q \in Paths, IsPrefix(p, q)
  PROVE  /\ Rest(p, q) \in Paths /\ Len(Rest(p, q)) = Len(q) - Len(p)
         /\ \A i \in 1 .. Len(q) - Len(p) : Rest(p, q)[i] = q[Len(p) + i]
         /\ p \o Rest(p, q) = q
         /\ Rest(p, q) = <<>> <=> p = q
<1>1. Len(p) \in Nat /\ Len(q) \in Nat /\ Len(p) <= Len(q)
      /\ \A i \in 1 .. Len(p) : p[i] = q[i]
  BY PrefixIff DEF Paths
<1> DEFINE r == Rest(p, q)
<1>2. r \in Paths /\ Len(r) = Len(q) - Len(p)
      /\ \A i \in 1 .. Len(q) - Len(p) : r[i] = q[Len(p) + i]
  <2>1. \A i \in Len(p) + 1 .. Len(q) : q[i] \in Keys
    BY <1>1, ElementOfSeq DEF Paths
  <2> QED
    BY <1>1, <2>1, SubSeqProperties DEF Paths, Rest
<1> HIDE DEF r
<1>3. p \o r \in Paths /\ Len(p \o r) = Len(q)
      /\ \A i \in 1 .. Len(q) : (p \o r)[i] = IF i <= Len(p) THEN p[i] ELSE r[i - Len(p)]
  BY <1>1, <1>2, ConcatProperties DEF Paths
<1>4. p \o r = q
  <2> DEFINE s == p \o r
  <2>1. s \in Paths /\ Len(s) = Len(q) /\ \A i \in 1 .. Len(s) : s[i] = q[i]
    BY <1>1, <1>2, <1>3
  <2> HIDE DEF s
  <2>2. s = q
    BY <2>1, PathsEqual
  <2> QED
    BY <2>2 DEF s
<1>5. r = <<>> <=> p = q
  <2>1. r = <<>> => p = q
    BY <1>4, ConcatEmptySeq DEF Paths
  <2>2. p = q => r = <<>>
    BY <1>1, <1>2, EmptySeq DEF Paths
  <2> QED
    BY <2>1, <2>2
<1> QED
  BY <1>2, <1>4, <1>5 DEF r

LEMMA Concat ==
  ASSUME NEW p \in Paths, NEW r \in Paths
  PROVE  /\ p \o r \in Paths /\ Len(p \o r) = Len(p) + Len(r)
         /\ \A i \in 1 .. Len(p) + Len(r) :
              (p \o r)[i] = IF i <= Len(p) THEN p[i] ELSE r[i - Len(p)]
         /\ IsPrefix(p, p \o r) /\ Rest(p, p \o r) = r
         /\ p \o <<>> = p /\ (p \o r = p <=> r = <<>>)
<1> DEFINE q == p \o r
<1>1. Len(p) \in Nat /\ Len(r) \in Nat
  BY DEF Paths
<1>2. q \in Paths /\ Len(q) = Len(p) + Len(r)
      /\ \A i \in 1 .. Len(p) + Len(r) :
           q[i] = IF i <= Len(p) THEN p[i] ELSE r[i - Len(p)]
  BY ConcatProperties DEF Paths
<1>3. p \o <<>> = p /\ (q = p <=> r = <<>>)
  BY ConcatEmptySeq, ConcatEqualIffEmpty DEF Paths
<1> HIDE DEF q
<1>4. IsPrefix(p, q)
  BY <1>1, <1>2, PrefixIff
<1>5. Rest(p, q) = r
  <2> DEFINE s == Rest(p, q)
  <2>1. s \in Paths /\ Len(s) = Len(q) - Len(p)
        /\ \A i \in 1 .. Len(q) - Len(p) : s[i] = q[Len(p) + i]
    BY <1>2, <1>4, RestOf
  <2> HIDE DEF s
  <2>2. Len(s) = Len(r)
    BY <1>1, <1>2, <2>1
  <2>3. ASSUME NEW i \in 1 .. Len(s) PROVE s[i] = r[i]
    <3> DEFINE j == Len(p) + i
    <3>1. j \in 1 .. Len(p) + Len(r) /\ ~(j <= Len(p)) /\ j - Len(p) = i
      BY <1>1, <2>2
    <3>2. s[i] = q[j]
      BY <1>1, <1>2, <2>1, <2>2
    <3> HIDE DEF j
    <3> QED
      BY <1>2, <3>1, <3>2
  <2> QED
    BY <2>1, <2>2, <2>3, PathsEqual DEF s
<1> QED
  BY <1>2, <1>3, <1>4, <1>5 DEF q

LEMMA FrontOfConcat ==
  ASSUME NEW p \in Paths, NEW r \in Paths, r # <<>>
  PROVE  Front(p \o r) = p \o Front(r)
<1> DEFINE f == Front(r)
           q == p \o r
           g == p \o f
           h == Front(q)
<1>1. Len(p) \in Nat /\ Len(r) \in Nat \ {0} /\ f \in Paths
      /\ Len(f) = Len(r) - 1 /\ \A i \in 1 .. Len(r) - 1 : f[i] = r[i]
  BY FrontOf DEF Paths
<1> HIDE DEF f
<1>2. q \in Paths /\ Len(q) = Len(p) + Len(r)
      /\ \A i \in 1 .. Len(p) + Len(r) :
           q[i] = IF i <= Len(p) THEN p[i] ELSE r[i - Len(p)]
  BY Concat
<1>3. g \in Paths /\ Len(g) = Len(p) + Len(f)
      /\ \A i \in 1 .. Len(p) + Len(f) :
           g[i] = IF i <= Len(p) THEN p[i] ELSE f[i - Len(p)]
  BY <1>1, Concat
<1> HIDE DEF q, g
<1>4. q # <<>>
  BY <1>1, <1>2, EmptyPath
<1>5. h \in Paths /\ Len(h) = Len(q) - 1 /\ \A i \in 1 .. Len(q) - 1 : h[i] = q[i]
  BY <1>2, <1>4, FrontOf
<1> HIDE DEF h
<1>6. Len(h) = Len(g) /\ \A i \in 1 .. Len(h) : h[i] = g[i]
  <2>1. Len(h) = Len(g) /\ Len(h) = Len(p) + Len(r) - 1
    BY <1>1, <1>2, <1>3, <1>5
  <2>2. ASSUME NEW i \in 1 .. Len(h) PROVE h[i] = g[i]
    <3>1. i \in 1 .. Len(p) + Len(r) /\ i \in 1 .. Len(q) - 1 /\ i \in 1 .. Len(p) + Len(f)
      BY <1>1, <1>2, <2>1
    <3>2. /\ h[i] = IF i <= Len(p) THEN p[i] ELSE r[i - Len(p)]
          /\ g[i] = IF i <= Len(p) THEN p[i] ELSE f[i - Len(p)]
      BY <1>2, <1>3, <1>5, <3>1
    <3>3. ASSUME ~(i <= Len(p)) PROVE f[i - Len(p)] = r[i - Len(p)]
      <4>1. i - Len(p) \in 1 .. Len(r) - 1
        BY <1>1, <3>1, <3>3
      <4> QED
        BY <1>1, <4>1
    <3> QED
      BY <3>2, <3>3
  <2> QED
    BY <2>1, <2>2
<1>7. h = g
  BY <1>3, <1>5, <1>6, PathsEqual
<1> QED
  BY <1>7 DEF h, q, g, f

LEMMA FrontOfRest ==
  ASSUME NEW p \in Paths, NEW q \in Paths, IsPrefix(p, q), p # q
  PROVE  Front(Rest(p, q)) = Rest(p, Front(q)) /\ Rest(p, q) # <<>>
<1>1. Rest(p, q) \in Paths /\ p \o Rest(p, q) = q /\ Rest(p, q) # <<>>
  BY RestOf
<1>2. Front(Rest(p, q)) \in Paths
  BY <1>1, FrontOf
<1>3. Front(q) = p \o Front(Rest(p, q))
  BY <1>1, FrontOfConcat
<1> QED
  BY <1>1, <1>2, <1>3, Concat

-----------------------------------------------------------------------------
(* Values                                                                  *)

\* A value is a sequence: of what it holds, or of anything that has it.
LEMMA ValueIsSeq ==
  ASSUME NEW v, IsValue(v)
  PROVE  v \in Seq({v[i] : i \in DOMAIN v}) /\ v # <<>>
<1> DEFINE S == {v[i] : i \in DOMAIN v}
           n == Len(v)
<1>1. n \in Nat \ {0} /\ v = [i \in 1 .. n |-> v[i]]
  BY DEF IsValue
<1> HIDE DEF n
<1>2. DOMAIN v = 1 .. n
  BY <1>1
<1>3. \A i \in 1 .. n : v[i] \in S
  BY <1>2
<1> HIDE DEF S
<1>4. v \in [1 .. n -> S]
  BY <1>1, <1>3
<1>5. v \in Seq(S)
  BY <1>1, <1>4, SeqDef, Zenon
<1>6. Len(v) # 0
  BY <1>1 DEF n
<1> QED
  BY <1>5, <1>6, EmptySeq DEF S

LEMMA SeqIsValue ==
  ASSUME NEW S, NEW v \in Seq(S), v # <<>>,
         Kind(v) \in {"object", "null", "string", "bool", "number", "array"},
         Kind(v) = "object" => v = Object
  PROVE  IsValue(v)
<1>1. Len(v) \in Nat \ {0} /\ v = [i \in 1 .. Len(v) |-> v[i]]
  BY EmptySeq
<1> QED
  BY <1>1 DEF IsValue

LEMMA ObjectIsValue == IsValue(Object) /\ ~IsArray(Object)
<1>1. Object \in Seq({"object"}) /\ Kind(Object) = "object" /\ Object # <<>>
  BY DEF Object, Kind
<1> QED
  BY <1>1, SeqIsValue DEF IsArray

LEMMA StringIsValue ==
  ASSUME NEW s
  PROVE  IsValue(String(s)) /\ String(s) # Object
<1>1. String(s) \in Seq({"string", s}) /\ Kind(String(s)) = "string" /\ String(s) # <<>>
  BY DEF String, Kind
<1>2. Kind(Object) = "object"
  BY DEF Object, Kind
<1> QED
  BY <1>1, <1>2, SeqIsValue

LEMMA JoinedObject ==
  ASSUME NEW v
  PROVE  Joined(v, Object) = Object /\ Joined(Object, v) = v
  BY ObjectIsValue DEF Joined

LEMMA JoinedArray ==
  ASSUME NEW old, NEW new, IsValue(old), IsValue(new), IsArray(old), IsArray(new)
  PROVE  IsValue(Joined(old, new)) /\ IsArray(Joined(old, new))
<1> DEFINE A == {old[i] : i \in DOMAIN old}
           B == {new[i] : i \in DOMAIN new}
           S == A \cup B
           rest == Tail(new)
           v == old \o rest
<1>1. old \in Seq(A) /\ new \in Seq(B) /\ old # <<>> /\ new # <<>>
  BY ValueIsSeq
<1> HIDE DEF A, B
<1>2. old \in Seq(S) /\ new \in Seq(S)
  <2>1. A \subseteq S /\ B \subseteq S
    OBVIOUS
  <2> HIDE DEF S
  <2> QED
    BY <1>1, <2>1, SeqMonotonic
<1> HIDE DEF S
<1>3. rest \in Seq(S)
  BY <1>1, <1>2, HeadTailProperties
<1> HIDE DEF rest
<1>4. Len(old) \in Nat \ {0} /\ Len(rest) \in Nat
  BY <1>1, <1>2, <1>3, EmptySeq
<1>5. v \in Seq(S) /\ v[1] = old[1] /\ v # <<>>
  BY <1>1, <1>2, <1>3, <1>4, ConcatProperties, ConcatEqualIffEmpty
<1> HIDE DEF v
<1>6. Kind(v) = "array"
  BY <1>5 DEF IsArray, Kind
<1>7. IsValue(v) /\ IsArray(v)
  BY <1>5, <1>6, SeqIsValue DEF IsArray
<1> QED
  BY <1>7 DEF Joined, v, rest

LEMMA JoinedValue ==
  ASSUME NEW old, NEW new, IsValue(old), IsValue(new)
  PROVE  IsValue(Joined(old, new))
<1>1. CASE ~(IsArray(old) /\ IsArray(new))
  BY <1>1 DEF Joined
<1>2. CASE IsArray(old) /\ IsArray(new)
  BY <1>2, JoinedArray
<1> QED
  BY <1>1, <1>2

-----------------------------------------------------------------------------
(* Trees                                                                   *)

IsMap(t) == t = [q \in DOMAIN t |-> t[q]]

LEMMA MapsEqual ==
  ASSUME NEW t, NEW u, IsMap(t), IsMap(u),
         \A q : q \in DOMAIN t <=> q \in DOMAIN u,
         \A q \in DOMAIN t : t[q] = u[q]
  PROVE  t = u
<1>1. DOMAIN t = DOMAIN u
  OBVIOUS
<1> QED
  BY <1>1 DEF IsMap

LEMMA RestOfTree ==
  ASSUME NEW t, IsTree(t), NEW q \in DOMAIN t
  PROVE  /\ q \in Paths /\ IsValue(t[q])
         /\ q # <<>> => Front(q) \in DOMAIN t /\ t[Front(q)] = Object
  BY DEF IsTree

LEMMA Smallest ==
  ASSUME NEW S, S \subseteq Nat, S # {}
  PROVE  \E n \in S : \A m \in S : n <= m
<1> DEFINE R == OpToRel(<, Nat)
<1>1. IsWellFoundedOn(R, Nat)
  BY NatLessThanWellFounded
<1>2. \A x, y \in Nat : x < y => <<x, y>> \in R
  BY DEF OpToRel
<1> HIDE DEF R
<1>3. \E x \in S : \A y \in S : ~(<<y, x>> \in R)
  BY <1>1, WFMin
<1>4. PICK n \in S : \A y \in S : ~(<<y, n>> \in R)
  BY <1>3
<1>5. \A y \in S : ~(y < n)
  BY <1>2, <1>4
<1> QED
  BY <1>4, <1>5

\* With a path a tree has all its prefixes, by the shortest that would lack one.
LEMMA PrefixOfTree ==
  ASSUME NEW t, IsTree(t), NEW q \in DOMAIN t, NEW p \in Paths, IsPrefix(p, q), p # q
  PROVE  p \in DOMAIN t /\ t[p] = Object
<1> DEFINE L == {n \in Nat : \E r \in DOMAIN t : Len(r) = n /\ IsPrefix(p, r) /\ p # r}
<1>1. \A r \in DOMAIN t : r \in Paths /\ Len(r) \in Nat
  BY RestOfTree DEF Paths
<1>2. Len(q) \in L
  BY <1>1
<1>3. PICK n \in L : \A m \in L : n <= m
  BY <1>2, Smallest
<1>4. PICK r \in DOMAIN t : Len(r) = n /\ IsPrefix(p, r) /\ p # r
  BY <1>3
<1> DEFINE f == Front(r)
<1>5. r # <<>> /\ IsPrefix(p, f)
  BY <1>1, <1>4, PrefixOfFront
<1>6. f \in DOMAIN t /\ t[f] = Object
  BY <1>4, <1>5, RestOfTree
<1>7. Len(f) = n - 1 /\ n \in Nat
  BY <1>1, <1>3, <1>4, <1>5, FrontOf
<1> HIDE DEF f
<1>8. p = f
  <2>1. ASSUME p # f PROVE FALSE
    <3>1. Len(f) \in L
      BY <1>1, <1>5, <1>6, <2>1
    <3>2. n <= n - 1
      BY <1>3, <1>7, <3>1
    <3> QED
      BY <1>7, <3>2
  <2> QED
    BY <2>1
<1> QED
  BY <1>6, <1>8

LEMMA EmptyTree ==
  /\ DOMAIN EmptyObject = {<<>>} /\ EmptyObject[<<>>] = Object
  /\ IsObject(EmptyObject) /\ IsMap(EmptyObject)
<1>1. DOMAIN EmptyObject = {<<>>} /\ EmptyObject[<<>>] = Object /\ IsMap(EmptyObject)
  BY DEF EmptyObject, IsMap
<1> QED
  BY <1>1, ObjectIsValue, EmptyPath DEF IsObject, IsTree

LEMMA LeafTree ==
  ASSUME NEW v, IsValue(v)
  PROVE  DOMAIN Leaf(v) = {<<>>} /\ Leaf(v)[<<>>] = v /\ IsTree(Leaf(v))
<1>1. DOMAIN Leaf(v) = {<<>>} /\ Leaf(v)[<<>>] = v
  BY DEF Leaf
<1> QED
  BY <1>1, EmptyPath DEF IsTree

LEMMA PutIs ==
  ASSUME NEW t, IsTree(t), NEW p \in Paths, p # <<>>,
         Front(p) \in DOMAIN t, t[Front(p)] = Object,
         NEW sub, IsTree(sub)
  PROVE  /\ IsTree(Put(t, p, sub)) /\ IsMap(Put(t, p, sub))
         /\ Put(t, p, sub)[<<>>] = t[<<>>]
         /\ \A q : q \in DOMAIN Put(t, p, sub) <=>
              \/ q \in DOMAIN t /\ ~IsPrefix(p, q)
              \/ q \in Paths /\ IsPrefix(p, q) /\ Rest(p, q) \in DOMAIN sub
         /\ \A q \in DOMAIN Put(t, p, sub) :
              Put(t, p, sub)[q] = IF IsPrefix(p, q) THEN sub[Rest(p, q)] ELSE t[q]
<1> DEFINE u == Put(t, p, sub)
           D == (DOMAIN t \ Below(t, p)) \cup {p \o r : r \in DOMAIN sub}
<1>1. u = [q \in D |-> IF IsPrefix(p, q) THEN sub[Rest(p, q)] ELSE t[q]]
  BY DEF Put
<1>2. IsMap(u)
  BY <1>1 DEF IsMap
<1>3. \A q \in D : u[q] = IF IsPrefix(p, q) THEN sub[Rest(p, q)] ELSE t[q]
  BY <1>1
<1>4. ASSUME NEW q
      PROVE  q \in D <=> \/ q \in DOMAIN t /\ ~IsPrefix(p, q)
                         \/ q \in Paths /\ IsPrefix(p, q) /\ Rest(p, q) \in DOMAIN sub
  <2>1. q \in DOMAIN t \ Below(t, p) <=> q \in DOMAIN t /\ ~IsPrefix(p, q)
    BY DEF Below
  <2>2. ASSUME q \in {p \o r : r \in DOMAIN sub}
        PROVE  q \in Paths /\ IsPrefix(p, q) /\ Rest(p, q) \in DOMAIN sub
    <3>1. PICK r \in DOMAIN sub : q = p \o r
      BY <2>2
    <3>2. r \in Paths
      BY RestOfTree
    <3> QED
      BY <3>1, <3>2, Concat
  <2>3. ASSUME q \in Paths, IsPrefix(p, q), Rest(p, q) \in DOMAIN sub
        PROVE  q \in {p \o r : r \in DOMAIN sub}
    BY <2>3, RestOf
  <2> QED
    BY <2>1, <2>2, <2>3
<1>5. DOMAIN u = D
  BY <1>1
<1> HIDE DEF u, D
<1>6. <<>> \in DOMAIN u /\ u[<<>>] = t[<<>>]
  <2>1. ~IsPrefix(p, <<>>) /\ <<>> \in DOMAIN t
    BY PrefixOrder DEF IsTree
  <2> QED
    BY <1>3, <1>4, <1>5, <2>1
<1>7. ASSUME NEW q \in DOMAIN u
      PROVE  /\ q \in Paths /\ IsValue(u[q])
             /\ q # <<>> => Front(q) \in DOMAIN u /\ u[Front(q)] = Object
  <2>1. CASE ~IsPrefix(p, q)
    <3>1. q \in DOMAIN t /\ q \in Paths /\ u[q] = t[q] /\ IsValue(t[q])
      BY <1>3, <1>4, <1>5, <2>1, RestOfTree
    <3>2. ASSUME q # <<>> PROVE Front(q) \in DOMAIN u /\ u[Front(q)] = Object
      <4>1. Front(q) \in DOMAIN t /\ t[Front(q)] = Object
        BY <3>1, <3>2, RestOfTree
      <4>2. ~IsPrefix(p, Front(q))
        BY <2>1, <3>1, <3>2, FrontPrefix
      <4> QED
        BY <1>3, <1>4, <1>5, <4>1, <4>2
    <3> QED
      BY <3>1, <3>2
  <2>2. CASE IsPrefix(p, q)
    <3>1. q \in Paths /\ Rest(p, q) \in DOMAIN sub /\ u[q] = sub[Rest(p, q)]
          /\ IsValue(sub[Rest(p, q)])
      BY <1>3, <1>4, <1>5, <2>2, RestOfTree
    <3>2. CASE q = p
      <4>1. ~IsPrefix(p, Front(p))
        BY FrontPrefix
      <4> QED
        BY <1>3, <1>4, <1>5, <3>1, <3>2, <4>1
    <3>3. CASE q # p
      <4>1. Front(Rest(p, q)) = Rest(p, Front(q)) /\ Rest(p, q) # <<>>
            /\ IsPrefix(p, Front(q)) /\ q # <<>>
        BY <2>2, <3>1, <3>3, FrontOfRest, PrefixOfFront
      <4>2. Rest(p, Front(q)) \in DOMAIN sub /\ sub[Rest(p, Front(q))] = Object
        BY <3>1, <4>1, RestOfTree
      <4>3. Front(q) \in Paths
        BY <3>1, <4>1, FrontOf
      <4> QED
        BY <1>3, <1>4, <1>5, <3>1, <4>1, <4>2, <4>3
    <3> QED
      BY <3>2, <3>3
  <2> QED
    BY <2>1, <2>2
<1>8. IsTree(u)
  BY <1>6, <1>7 DEF IsTree
<1> QED
  BY <1>2, <1>3, <1>4, <1>5, <1>6, <1>8 DEF u

LEMMA CutIs ==
  ASSUME NEW t, IsTree(t), NEW p \in Paths, p # <<>>
  PROVE  /\ IsTree(Cut(t, p)) /\ IsMap(Cut(t, p)) /\ Cut(t, p)[<<>>] = t[<<>>]
         /\ \A q : q \in DOMAIN Cut(t, p) <=> q \in DOMAIN t /\ ~IsPrefix(p, q)
         /\ \A q \in DOMAIN Cut(t, p) : Cut(t, p)[q] = t[q]
<1> DEFINE u == Cut(t, p)
<1>1. /\ IsMap(u)
      /\ \A q : q \in DOMAIN u <=> q \in DOMAIN t /\ ~IsPrefix(p, q)
      /\ \A q \in DOMAIN u : u[q] = t[q]
  BY DEF Cut, Below, IsMap
<1> HIDE DEF u
<1>2. <<>> \in DOMAIN u
  BY <1>1, PrefixOrder DEF IsTree
<1>3. ASSUME NEW q \in DOMAIN u
      PROVE  /\ q \in Paths /\ IsValue(u[q])
             /\ q # <<>> => Front(q) \in DOMAIN u /\ u[Front(q)] = Object
  BY <1>1, RestOfTree, FrontPrefix
<1> QED
  BY <1>1, <1>2, <1>3 DEF u, IsTree

LEMMA EmptiedIs ==
  ASSUME NEW t, IsTree(t), NEW p \in Paths
  PROVE  /\ IsTree(Emptied(t, p)) /\ IsMap(Emptied(t, p))
         /\ Emptied(t, p)[<<>>] = t[<<>>]
         /\ \A q : q \in DOMAIN Emptied(t, p) <=>
              q \in DOMAIN t /\ (q = p \/ ~IsPrefix(p, q))
         /\ \A q \in DOMAIN Emptied(t, p) : Emptied(t, p)[q] = t[q]
<1> DEFINE u == Emptied(t, p)
<1>1. /\ IsMap(u)
      /\ \A q : q \in DOMAIN u <=> q \in DOMAIN t /\ (q = p \/ ~IsPrefix(p, q))
      /\ \A q \in DOMAIN u : u[q] = t[q]
  BY DEF Emptied, IsMap
<1> HIDE DEF u
<1>2. <<>> \in DOMAIN u
  BY <1>1, PrefixOrder DEF IsTree
<1>3. ASSUME NEW q \in DOMAIN u
      PROVE  /\ q \in Paths /\ IsValue(u[q])
             /\ q # <<>> => Front(q) \in DOMAIN u /\ u[Front(q)] = Object
  <2>1. q \in DOMAIN t /\ q \in Paths /\ IsValue(u[q])
        /\ (q # <<>> => Front(q) \in DOMAIN t /\ t[Front(q)] = Object)
    BY <1>1, RestOfTree
  <2>2. q # <<>> => ~IsPrefix(p, Front(q))
    BY <1>1, <2>1, FrontPrefix
  <2> QED
    BY <1>1, <2>1, <2>2
<1> QED
  BY <1>1, <1>2, <1>3 DEF u, IsTree

\* Objects may be added where their parents are objects.
Fits(t, made) ==
    /\ made \subseteq Paths \ {<<>>}
    /\ \A q \in made : \/ Front(q) \in made
                       \/ Front(q) \in DOMAIN t /\ t[Front(q)] = Object

LEMMA WithObjectsIs ==
  ASSUME NEW t, IsTree(t), NEW made, Fits(t, made), made \cap DOMAIN t = {}
  PROVE  /\ IsTree(WithObjects(t, made)) /\ IsMap(WithObjects(t, made))
         /\ WithObjects(t, made)[<<>>] = t[<<>>]
         /\ \A q : q \in DOMAIN WithObjects(t, made) <=> q \in DOMAIN t \/ q \in made
         /\ \A q \in DOMAIN t : WithObjects(t, made)[q] = t[q]
         /\ \A q \in made : WithObjects(t, made)[q] = Object
<1> DEFINE u == WithObjects(t, made)
<1>1. /\ IsMap(u)
      /\ \A q : q \in DOMAIN u <=> q \in DOMAIN t \/ q \in made
      /\ \A q \in DOMAIN t : u[q] = t[q]
      /\ \A q \in made : u[q] = Object
  BY DEF WithObjects, IsMap
<1> HIDE DEF u
<1>2. <<>> \in DOMAIN t
  BY DEF IsTree
<1>3. ASSUME NEW q \in DOMAIN u
      PROVE  /\ q \in Paths /\ IsValue(u[q])
             /\ q # <<>> => Front(q) \in DOMAIN u /\ u[Front(q)] = Object
  <2>1. CASE q \in DOMAIN t
    BY <1>1, <2>1, RestOfTree
  <2>2. CASE q \in made
    BY <1>1, <2>2, ObjectIsValue DEF Fits
  <2> QED
    BY <1>1, <2>1, <2>2
<1> QED
  BY <1>1, <1>2, <1>3 DEF u, IsTree

\* What a walk to p creates, and what it has created at one time or another.
LEMMA MissingFits ==
  ASSUME NEW t, IsObject(t), NEW p \in Paths, ~Blocked(t, p)
  PROVE  /\ Fits(t, Missing(t, p)) /\ Missing(t, p) \cap DOMAIN t = {}
         /\ \A made \in Begun(t, p) : Fits(t, made) /\ made \cap DOMAIN t = {}
<1>1. \A q : q \in Missing(t, p) <=> q \in Paths /\ q # <<>> /\ IsPrefix(q, p) /\ q \notin DOMAIN t
  BY PathsToIff DEF Missing
<1>2. \A q \in DOMAIN t : q \in Paths /\ q # <<>> /\ IsPrefix(q, p) => t[q] = Object
  BY PathsToIff DEF Blocked
<1>3. ASSUME NEW q \in Missing(t, p)
      PROVE  \/ Front(q) \in Missing(t, p) /\ Len(Front(q)) <= Len(q)
             \/ Front(q) \in DOMAIN t /\ t[Front(q)] = Object
  <2>1. q \in Paths /\ q # <<>> /\ IsPrefix(q, p)
    BY <1>1
  <2>2. Front(q) \in Paths /\ IsPrefix(Front(q), p) /\ Len(Front(q)) <= Len(q)
    BY <2>1, FrontOf, PrefixOrder
  <2>3. CASE Front(q) = <<>>
    BY <2>3 DEF IsObject, IsTree
  <2>4. CASE Front(q) # <<>>
    BY <1>1, <1>2, <2>2, <2>4
  <2> QED
    BY <2>3, <2>4
<1>4. Fits(t, Missing(t, p)) /\ Missing(t, p) \cap DOMAIN t = {}
  BY <1>1, <1>3 DEF Fits
<1>5. ASSUME NEW made \in Begun(t, p) PROVE Fits(t, made) /\ made \cap DOMAIN t = {}
  <2>1. PICK n \in 1 .. Len(p) : made = {q \in Missing(t, p) : Len(q) <= n}
    BY DEF Begun
  <2>2. \A q \in made : q \in Paths /\ q # <<>> /\ q \notin DOMAIN t /\ Len(q) <= n
    BY <1>1, <2>1
  <2>3. ASSUME NEW q \in made
        PROVE  Front(q) \in made \/ (Front(q) \in DOMAIN t /\ t[Front(q)] = Object)
    <3>1. Len(p) \in Nat /\ Len(q) \in Nat /\ Len(Front(q)) \in Nat
      BY <2>2, FrontOf DEF Paths
    <3>2. Len(Front(q)) <= Len(q) => Len(Front(q)) <= n
      BY <2>2, <3>1
    <3> QED
      BY <1>3, <2>1, <3>2
  <2> QED
    BY <2>2, <2>3 DEF Fits
<1> QED
  BY <1>4, <1>5

LEMMA AtIs ==
  ASSUME NEW t, IsTree(t), NEW p \in DOMAIN t
  PROVE  /\ IsTree(At(t, p)) /\ IsMap(At(t, p)) /\ At(t, p)[<<>>] = t[p]
         /\ \A r : r \in DOMAIN At(t, p) <=> r \in Paths /\ p \o r \in DOMAIN t
         /\ \A r \in DOMAIN At(t, p) : At(t, p)[r] = t[p \o r]
<1> DEFINE u == At(t, p)
           D == {Rest(p, q) : q \in Below(t, p)}
<1>1. p \in Paths
  BY RestOfTree
<1>2. IsMap(u) /\ DOMAIN u = D /\ \A r \in D : u[r] = t[p \o r]
  BY DEF At, IsMap
<1>3. ASSUME NEW r PROVE r \in D <=> r \in Paths /\ p \o r \in DOMAIN t
  <2>1. ASSUME r \in D PROVE r \in Paths /\ p \o r \in DOMAIN t
    <3>1. PICK q \in Below(t, p) : r = Rest(p, q)
      BY <2>1
    <3>2. q \in Paths /\ q \in DOMAIN t /\ IsPrefix(p, q)
      BY RestOfTree DEF Below
    <3> QED
      BY <1>1, <3>1, <3>2, RestOf
  <2>2. ASSUME r \in Paths, p \o r \in DOMAIN t PROVE r \in D
    <3>1. p \o r \in Below(t, p) /\ Rest(p, p \o r) = r
      BY <1>1, <2>2, Concat DEF Below
    <3> QED
      BY <3>1
  <2> QED
    BY <2>1, <2>2
<1> HIDE DEF u, D
<1>4. <<>> \in DOMAIN u /\ u[<<>>] = t[p]
  BY <1>1, <1>2, <1>3, Concat, EmptyPath
<1>5. ASSUME NEW r \in DOMAIN u
      PROVE  /\ r \in Paths /\ IsValue(u[r])
             /\ r # <<>> => Front(r) \in DOMAIN u /\ u[Front(r)] = Object
  <2>1. r \in Paths /\ p \o r \in DOMAIN t /\ u[r] = t[p \o r] /\ IsValue(u[r])
    BY <1>2, <1>3, RestOfTree
  <2>2. ASSUME r # <<>> PROVE Front(r) \in DOMAIN u /\ u[Front(r)] = Object
    <3> DEFINE q == p \o r
               f == Front(r)
    <3>1. f \in Paths /\ Front(q) = p \o f
      BY <1>1, <2>1, <2>2, FrontOf, FrontOfConcat
    <3>2. q \in DOMAIN t /\ q # <<>>
      <4>1. Len(q) = Len(p) + Len(r) /\ Len(p) \in Nat /\ Len(r) \in Nat \ {0}
        BY <1>1, <2>1, <2>2, Concat, FrontOf DEF Paths
      <4> QED
        BY <2>1, <4>1, EmptyPath
    <3> HIDE DEF q, f
    <3>3. p \o f \in DOMAIN t /\ t[p \o f] = Object
      <4>1. Front(q) \in DOMAIN t /\ t[Front(q)] = Object
        BY <3>2, RestOfTree
      <4> QED
        BY <3>1, <4>1
    <3>4. f \in D
      BY <1>3, <3>1, <3>3
    <3>5. f \in DOMAIN u /\ u[f] = Object
      BY <1>2, <3>3, <3>4
    <3> QED
      BY <3>5 DEF f
  <2> QED
    BY <2>1, <2>2
<1> QED
  BY <1>2, <1>3, <1>4, <1>5 DEF u, IsTree

LEMMA UniteIs ==
  ASSUME NEW t, IsTree(t), NEW p \in DOMAIN t, t[p] = Object,
         NEW sub, IsObject(sub)
  PROVE  /\ IsTree(Unite(t, p, sub)) /\ IsMap(Unite(t, p, sub))
         /\ Unite(t, p, sub)[<<>>] = t[<<>>]
         /\ \A q : q \in DOMAIN Unite(t, p, sub) <=>
              \/ q \in DOMAIN t /\ ~Replaced(p, sub, q)
              \/ q \in Paths /\ IsPrefix(p, q) /\ Rest(p, q) \in DOMAIN sub
         /\ \A q \in DOMAIN Unite(t, p, sub) :
              Unite(t, p, sub)[q] =
                IF ~(IsPrefix(p, q) /\ Rest(p, q) \in DOMAIN sub) THEN t[q]
                ELSE IF q \in DOMAIN t THEN Joined(t[q], sub[Rest(p, q)])
                ELSE sub[Rest(p, q)]
<1> DEFINE u == Unite(t, p, sub)
           new == {p \o r : r \in DOMAIN sub}
           D == {q \in DOMAIN t : ~Replaced(p, sub, q)} \cup new
<1>1. p \in Paths /\ IsTree(sub) /\ <<>> \in DOMAIN sub /\ sub[<<>>] = Object
  BY RestOfTree DEF IsObject, IsTree
<1>2. /\ IsMap(u) /\ DOMAIN u = D
      /\ \A q \in D : u[q] = IF q \notin new THEN t[q]
                            ELSE IF q \in DOMAIN t THEN Joined(t[q], sub[Rest(p, q)])
                            ELSE sub[Rest(p, q)]
  BY DEF Unite, IsMap
<1>3. ASSUME NEW q
      PROVE  q \in new <=> q \in Paths /\ IsPrefix(p, q) /\ Rest(p, q) \in DOMAIN sub
  <2>1. ASSUME q \in new PROVE q \in Paths /\ IsPrefix(p, q) /\ Rest(p, q) \in DOMAIN sub
    <3>1. PICK r \in DOMAIN sub : q = p \o r
      BY <2>1
    <3>2. r \in Paths
      BY <1>1, RestOfTree
    <3> QED
      BY <1>1, <3>1, <3>2, Concat
  <2>2. ASSUME q \in Paths, IsPrefix(p, q), Rest(p, q) \in DOMAIN sub PROVE q \in new
    BY <1>1, <2>2, RestOf
  <2> QED
    BY <2>1, <2>2
<1>4. \A q \in D : q \in Paths
  BY <1>3, RestOfTree
<1>5. \A q \in DOMAIN t : q \in D \/ Replaced(p, sub, q)
  OBVIOUS
<1>6. \A q : q \in D <=> q \in new \/ (q \in DOMAIN t /\ ~Replaced(p, sub, q))
  OBVIOUS
<1> HIDE DEF u, new, D
\* What is replaced is below what replaces it.
<1>7. ASSUME NEW q \in Paths, Replaced(p, sub, q)
      PROVE  /\ IsPrefix(p, q)
             /\ \A z \in Paths : IsPrefix(q, z) => Replaced(p, sub, z)
  <2>1. PICK r \in DOMAIN sub : sub[r] # Object /\ IsPrefix(p \o r, q)
    BY <1>7 DEF Replaced
  <2>2. r \in Paths /\ p \o r \in Paths /\ IsPrefix(p, p \o r)
    BY <1>1, RestOfTree, Concat
  <2>3. IsPrefix(p, q) /\ \A z \in Paths : IsPrefix(q, z) => IsPrefix(p \o r, z)
    BY <1>1, <2>1, <2>2, PrefixOrder
  <2> QED
    BY <2>1, <2>3 DEF Replaced
\* An object that sub has too stays one, or is replaced.
<1>8. ASSUME NEW q \in D, q \in new, sub[Rest(p, q)] = Object PROVE u[q] = Object
  BY <1>2, <1>8, JoinedObject
<1>9. ASSUME NEW q \in D, q \in DOMAIN t, t[q] = Object, q \in new
      PROVE  u[q] = Object \/ Replaced(p, sub, q)
  <2>1. u[q] = sub[Rest(p, q)]
    BY <1>2, <1>9, JoinedObject
  <2>2. Rest(p, q) \in DOMAIN sub /\ p \o Rest(p, q) = q /\ q \in Paths
    BY <1>1, <1>3, <1>9, RestOf
  <2>3. IsPrefix(p \o Rest(p, q), q)
    BY <2>2, PrefixOrder
  <2> QED
    BY <2>1, <2>2, <2>3 DEF Replaced
<1>10. p \in D /\ p \in new /\ u[p] = Object
  <2>1. p \in new /\ Rest(p, p) = <<>>
    BY <1>1, <1>3, PrefixOrder, RestOf
  <2> QED
    BY <1>1, <1>6, <1>8, <2>1
<1>11. ASSUME NEW q \in DOMAIN t, ~IsPrefix(p, q) PROVE q \in D /\ u[q] = t[q]
  BY <1>2, <1>3, <1>5, <1>7, <1>11, RestOfTree
<1>12. <<>> \in D /\ u[<<>>] = t[<<>>]
  <2>1. CASE p = <<>>
    BY <1>10, <2>1
  <2>2. CASE p # <<>>
    <3>1. ~IsPrefix(p, <<>>) /\ <<>> \in DOMAIN t
      BY <1>1, <2>2, PrefixOrder DEF IsTree
    <3> QED
      BY <1>11, <3>1
  <2> QED
    BY <2>1, <2>2
<1>13. ASSUME NEW q \in D
       PROVE  /\ q \in Paths /\ IsValue(u[q])
              /\ q # <<>> => Front(q) \in D /\ u[Front(q)] = Object
  <2>1. CASE q \notin new
    <3>1. q \in DOMAIN t /\ ~Replaced(p, sub, q) /\ u[q] = t[q] /\ IsValue(t[q]) /\ q \in Paths
      BY <1>2, <1>6, <2>1, RestOfTree
    <3>2. ASSUME q # <<>> PROVE Front(q) \in D /\ u[Front(q)] = Object
      <4>1. Front(q) \in DOMAIN t /\ t[Front(q)] = Object /\ Front(q) \in Paths
            /\ IsPrefix(Front(q), q)
        BY <3>1, <3>2, RestOfTree, FrontOf
      <4>2. ~Replaced(p, sub, Front(q))
        BY <1>7, <3>1, <4>1
      <4>3. Front(q) \in D
        BY <1>5, <4>1, <4>2
      <4>4. CASE Front(q) \in new
        BY <1>9, <4>1, <4>2, <4>3, <4>4
      <4>5. CASE Front(q) \notin new
        BY <1>2, <4>1, <4>3, <4>5
      <4> QED
        BY <4>3, <4>4, <4>5
    <3> QED
      BY <3>1, <3>2
  <2>2. CASE q \in new
    <3>1. q \in Paths /\ IsPrefix(p, q) /\ Rest(p, q) \in DOMAIN sub /\ IsValue(sub[Rest(p, q)])
      BY <1>1, <1>3, <2>2, RestOfTree
    <3>2. IsValue(u[q])
      <4>1. CASE q \in DOMAIN t
        <5>1. u[q] = Joined(t[q], sub[Rest(p, q)]) /\ IsValue(t[q])
          BY <1>2, <2>2, <4>1, RestOfTree
        <5> QED
          BY <3>1, <5>1, JoinedValue
      <4>2. CASE q \notin DOMAIN t
        BY <1>2, <2>2, <3>1, <4>2
      <4> QED
        BY <4>1, <4>2
    <3>3. CASE q = p
      <4>1. q # <<>> => Front(p) \in DOMAIN t /\ t[Front(p)] = Object /\ ~IsPrefix(p, Front(p))
        BY <1>1, <3>3, RestOfTree, FrontPrefix
      <4> QED
        BY <1>11, <3>1, <3>2, <3>3, <4>1
    <3>4. CASE q # p
      <4>1. Front(Rest(p, q)) = Rest(p, Front(q)) /\ Rest(p, q) # <<>>
            /\ IsPrefix(p, Front(q)) /\ q # <<>>
        BY <1>1, <3>1, <3>4, FrontOfRest, PrefixOfFront
      <4>2. Rest(p, Front(q)) \in DOMAIN sub /\ sub[Rest(p, Front(q))] = Object
        BY <1>1, <3>1, <4>1, RestOfTree
      <4>3. Front(q) \in Paths
        BY <3>1, <4>1, FrontOf
      <4>4. Front(q) \in new
        BY <1>3, <4>1, <4>2, <4>3
      <4> QED
        BY <1>6, <1>8, <3>1, <3>2, <4>2, <4>4
    <3> QED
      BY <3>3, <3>4
  <2> QED
    BY <2>1, <2>2
<1>14. IsTree(u)
  BY <1>2, <1>12, <1>13 DEF IsTree
<1>15. \A q : q \in DOMAIN u <=>
         \/ q \in DOMAIN t /\ ~Replaced(p, sub, q)
         \/ q \in Paths /\ IsPrefix(p, q) /\ Rest(p, q) \in DOMAIN sub
  BY <1>2, <1>3, <1>6
<1>16. \A q \in DOMAIN u :
         u[q] = IF ~(IsPrefix(p, q) /\ Rest(p, q) \in DOMAIN sub) THEN t[q]
                ELSE IF q \in DOMAIN t THEN Joined(t[q], sub[Rest(p, q)])
                ELSE sub[Rest(p, q)]
  BY <1>2, <1>3, <1>4
<1> QED
  BY <1>2, <1>12, <1>14, <1>15, <1>16 DEF u

-----------------------------------------------------------------------------
(* Databases                                                               *)

\* A key of the root that holds databases.
Top(d) == <<d[1]>>
TopPaths == {<<k>> : k \in Tops}

LEMMA TopPathIs ==
  ASSUME NEW q \in TopPaths
  PROVE  q \in Paths /\ Len(q) = 1 /\ q[1] \in Tops /\ q # <<>> /\ Front(q) = <<>>
<1>1. PICK k \in Tops : q = <<k>>
  BY DEF TopPaths
<1>2. k \in Keys
  BY KeysAssumption
<1>3. q \in Paths /\ Len(q) = 1 /\ q[1] \in Tops /\ q # <<>>
  BY <1>1, <1>2 DEF Paths
<1> DEFINE g == Front(q)
<1>4. g \in Paths /\ Len(g) = Len(q) - 1
  BY <1>3, FrontOf
<1> HIDE DEF g
<1>5. Len(g) = 0
  BY <1>3, <1>4
<1>6. g = <<>>
  BY <1>4, <1>5, EmptySeq DEF Paths
<1> QED
  BY <1>3, <1>6 DEF g

LEMMA DbPathIs ==
  ASSUME NEW d \in DbPaths
  PROVE  /\ d \in Paths /\ Len(d) = 2 /\ d[1] \in Tops /\ d[2] \in Names
         /\ d # <<>> /\ d \in AllDbs /\ d # Main
         /\ Top(d) \in Paths /\ Len(Top(d)) = 1 /\ Top(d)[1] = d[1] /\ Top(d) # <<>>
         /\ Top(d) \in TopPaths /\ Front(d) = Top(d)
<1>1. PICK k \in Tops, n \in Names : d = <<k, n>>
  BY DEF DbPaths
<1>2. k \in Keys /\ n \in Keys
  BY KeysAssumption
<1>3. d \in Paths /\ Len(d) = 2 /\ d[1] = k /\ d[2] = n /\ d # <<>>
  BY <1>1, <1>2 DEF Paths
<1>4. Top(d) \in Paths /\ Len(Top(d)) = 1 /\ Top(d)[1] = d[1] /\ Top(d) # <<>>
  BY <1>1, <1>2 DEF Paths, Top
<1>5. Front(d) = Top(d)
  <2> DEFINE f == Front(d)
             g == Top(d)
  <2>1. f \in Paths /\ Len(f) = Len(d) - 1 /\ \A i \in 1 .. Len(d) - 1 : f[i] = d[i]
    BY <1>3, FrontOf
  <2>2. g \in Paths /\ Len(g) = 1 /\ g[1] = d[1]
    BY <1>4
  <2> HIDE DEF f, g
  <2>3. Len(f) = Len(g) /\ \A i \in 1 .. Len(f) : f[i] = g[i]
    <3>1. Len(f) = 1 /\ f[1] = d[1]
      BY <1>3, <2>1
    <3> QED
      BY <2>2, <3>1
  <2>4. f = g
    BY <2>1, <2>2, <2>3, PathsEqual
  <2> QED
    BY <2>4 DEF f, g
<1>6. d \in AllDbs /\ d # Main
  BY <1>3 DEF AllDbs, Main
<1> QED
  BY <1>1, <1>3, <1>4, <1>5, <1>6 DEF TopPaths, Top

LEMMA DbOfIs ==
  ASSUME NEW p \in Paths
  PROVE  /\ DbOf(p) = Main <=> Len(p) < 2 \/ p[1] \notin Tops
         /\ \A d \in DbPaths : DbOf(p) = d <=> IsPrefix(d, p)
<1>1. Len(p) \in Nat
  BY DEF Paths
<1>2. <<p[1], p[2]>> # Main
  BY DEF Main
<1>3. DbOf(p) = Main <=> Len(p) < 2 \/ p[1] \notin Tops
  BY <1>2 DEF DbOf
<1>4. ASSUME NEW d \in DbPaths PROVE DbOf(p) = d <=> IsPrefix(d, p)
  <2>1. d \in Paths /\ Len(d) = 2 /\ d[1] \in Tops /\ d # Main /\ d = <<d[1], d[2]>>
    BY DbPathIs DEF DbPaths
  <2>2. IsPrefix(d, p) <=> 2 <= Len(p) /\ \A i \in 1 .. 2 : d[i] = p[i]
    BY <2>1, PrefixIff
  <2>3. IsPrefix(d, p) <=> 2 <= Len(p) /\ d[1] = p[1] /\ d[2] = p[2]
    BY <2>2
  <2>4. <<p[1], p[2]>> = d <=> d[1] = p[1] /\ d[2] = p[2]
    BY <2>1
  <2> QED
    BY <1>1, <2>1, <2>3, <2>4 DEF DbOf
<1> QED
  BY <1>3, <1>4

LEMMA InDatabase ==
  ASSUME NEW q \in Paths, DbOf(q) \in DbPaths
  PROVE  q # <<>> /\ q[1] \in Tops /\ q \notin TopPaths /\ IsPrefix(DbOf(q), q)
<1>1. DbOf(q) # Main
  BY DbPathIs
<1>2. ~(Len(q) < 2) /\ q[1] \in Tops
  BY <1>1, DbOfIs
<1>3. q # <<>>
  BY <1>2, EmptyPath
<1>4. ASSUME q \in TopPaths PROVE FALSE
  <2>1. Len(q) = 1
    BY <1>4, TopPathIs
  <2>2. Len(q) < 2
    BY <2>1
  <2> QED
    BY <1>2, <2>2
<1> QED
  BY <1>2, <1>3, <1>4, DbOfIs

\* On the way to a path there are only its database and the main one.
LEMMA DbOfPrefix ==
  ASSUME NEW p \in Paths, NEW q \in Paths, IsPrefix(q, p)
  PROVE  DbOf(q) \in {Main, DbOf(p)}
<1>1. Len(p) \in Nat /\ Len(q) \in Nat
  BY DEF Paths
<1>2. Len(q) <= Len(p) /\ \A i \in 1 .. Len(q) : q[i] = p[i]
  BY PrefixIff
<1>3. CASE Len(q) < 2
  BY <1>3 DEF DbOf
<1>4. CASE ~(Len(q) < 2)
  BY <1>1, <1>2, <1>4 DEF DbOf
<1> QED
  BY <1>3, <1>4

\* The paths that are a database's.
Belongs(q, d) == IF d = Main THEN q = <<>> \/ q[1] \notin Tops ELSE IsPrefix(d, q)

\* What is above a path or below it belongs to no other database.
LEMMA OtherDatabases ==
  ASSUME NEW p \in Paths, p # <<>>, p \notin TopPaths, NEW q \in Paths, q # <<>>,
         IsPrefix(p, q) \/ IsPrefix(q, p), NEW d \in AllDbs, d # DbOf(p)
  PROVE  ~Belongs(q, d)
<1>1. Len(p) \in Nat \ {0} /\ Len(q) \in Nat \ {0}
  BY FrontOf
<1>2. /\ p[1] = q[1]
      /\ 2 <= Len(p) /\ 2 <= Len(q) => p[2] = q[2]
  <2>1. CASE IsPrefix(p, q)
    <3>1. Len(p) <= Len(q) /\ \A i \in 1 .. Len(p) : p[i] = q[i]
      BY <2>1, PrefixIff
    <3> QED
      BY <1>1, <3>1
  <2>2. CASE IsPrefix(q, p)
    <3>1. Len(q) <= Len(p) /\ \A i \in 1 .. Len(q) : q[i] = p[i]
      BY <2>2, PrefixIff
    <3> QED
      BY <1>1, <3>1
  <2> QED
    BY <2>1, <2>2
<1>3. p[1] \in Tops => 2 <= Len(p)
  <2>1. ASSUME Len(p) = 1, p[1] \in Tops PROVE p \in TopPaths
    <3> DEFINE k == p[1]
    <3>1. p = <<k>>
      BY <2>1 DEF Paths
    <3> HIDE DEF k
    <3>2. <<k>> \in TopPaths
      BY <2>1 DEF TopPaths, k
    <3> QED
      BY <3>1, <3>2
  <2>2. Len(p) = 1 \/ 2 <= Len(p)
    <3> DEFINE n == Len(p)
    <3>1. n \in Nat \ {0}
      BY <1>1
    <3> HIDE DEF n
    <3>2. n = 1 \/ 2 <= n
      BY <3>1
    <3> QED
      BY <3>2 DEF n
  <2> QED
    BY <2>1, <2>2
<1>4. CASE d = Main
  <2>1. p[1] \in Tops
    BY <1>4, DbOfIs
  <2> QED
    BY <1>2, <1>4, <2>1 DEF Belongs
<1>5. CASE d # Main
  <2>1. d \in DbPaths
    BY <1>5 DEF AllDbs
  <2>2. d \in Paths /\ Len(d) = 2 /\ d[1] \in Tops
    BY <2>1, DbPathIs
  <2>3. ASSUME IsPrefix(d, q) PROVE IsPrefix(d, p)
    <3>1. 2 <= Len(q) /\ d[1] = q[1] /\ d[2] = q[2]
      <4>1. Len(d) <= Len(q) /\ \A i \in 1 .. Len(d) : d[i] = q[i]
        BY <2>2, <2>3, PrefixIff
      <4> QED
        BY <2>2, <4>1
    <3>2. 2 <= Len(p) /\ d[1] = p[1] /\ d[2] = p[2]
      BY <1>2, <1>3, <2>2, <3>1
    <3>3. Len(d) <= Len(p) /\ \A i \in 1 .. Len(d) : d[i] = p[i]
      BY <2>2, <3>2
    <3> QED
      BY <2>2, <3>3, PrefixIff
  <2> QED
    BY <1>5, <2>1, <2>3, DbOfIs DEF Belongs
<1> QED
  BY <1>4, <1>5

-----------------------------------------------------------------------------
(* Requests                                                                *)

\* What a walk to p has passed.
LEMMA Walked ==
  ASSUME NEW t, IsObject(t), NEW p \in Paths, ~Blocked(t, p)
  PROVE  LET w == WithObjects(t, Missing(t, p)) IN
         /\ IsObject(w) /\ IsMap(w) /\ p \in DOMAIN w /\ w[p] = Object
         /\ \A q : q \in DOMAIN w <=> q \in DOMAIN t \/ q \in Missing(t, p)
         /\ \A q \in DOMAIN t : w[q] = t[q]
         /\ \A q \in Missing(t, p) : w[q] = Object
         /\ \A q \in Missing(t, p) :
              q \in Paths /\ q # <<>> /\ IsPrefix(q, p) /\ q \notin DOMAIN t
<1> DEFINE w == WithObjects(t, Missing(t, p))
<1>1. /\ IsTree(w) /\ IsMap(w) /\ w[<<>>] = t[<<>>]
      /\ \A q : q \in DOMAIN w <=> q \in DOMAIN t \/ q \in Missing(t, p)
      /\ \A q \in DOMAIN t : w[q] = t[q]
      /\ \A q \in Missing(t, p) : w[q] = Object
  BY MissingFits, WithObjectsIs DEF IsObject
<1> HIDE DEF w
<1>2. IsObject(w) /\ <<>> \in DOMAIN w
  BY <1>1 DEF IsObject, IsTree
<1>3. \A q \in Missing(t, p) : q \in Paths /\ q # <<>> /\ IsPrefix(q, p) /\ q \notin DOMAIN t
  BY PathsToIff DEF Missing
<1>4. p \in DOMAIN w /\ w[p] = Object
  <2>1. CASE p = <<>>
    BY <1>2, <2>1 DEF IsObject
  <2>2. CASE p # <<>>
    <3>1. p \in PathsTo(p)
      BY <2>2, PathsToIff, PrefixOrder
    <3>2. CASE p \in DOMAIN t
      BY <1>1, <3>1, <3>2 DEF Blocked
    <3>3. CASE p \notin DOMAIN t
      BY <1>1, <3>1, <3>3 DEF Missing
    <3> QED
      BY <3>2, <3>3
  <2> QED
    BY <2>1, <2>2
<1> QED
  BY <1>1, <1>2, <1>3, <1>4 DEF w

LEMMA WrittenIs ==
  ASSUME NEW t, IsObject(t), NEW p \in Paths, p # <<>>, NEW v, IsValue(v),
         ~Blocked(t, Front(p))
  PROVE  LET u == Written(t, p, v) IN
         /\ IsObject(u) /\ IsMap(u)
         /\ \A q : q \in DOMAIN u <=> \/ q = p
                                      \/ q \in DOMAIN t /\ ~IsPrefix(p, q)
                                      \/ q \in Missing(t, Front(p))
         /\ u[p] = v
         /\ \A q \in DOMAIN t : ~IsPrefix(p, q) => u[q] = t[q]
         /\ \A q \in Missing(t, Front(p)) :
              /\ u[q] = Object /\ q \in Paths /\ q # <<>> /\ IsPrefix(q, p) /\ q # p
              /\ q \notin DOMAIN t
<1> DEFINE f == Front(p)
           M == Missing(t, f)
           w == WithObjects(t, M)
           u == Put(w, p, Leaf(v))
<1>1. f \in Paths /\ IsPrefix(f, p) /\ f # p
  BY FrontOf
<1>2. /\ IsObject(w) /\ f \in DOMAIN w /\ w[f] = Object
      /\ \A q : q \in DOMAIN w <=> q \in DOMAIN t \/ q \in M
      /\ \A q \in DOMAIN t : w[q] = t[q]
      /\ \A q \in M : w[q] = Object
      /\ \A q \in M : q \in Paths /\ q # <<>> /\ IsPrefix(q, f) /\ q \notin DOMAIN t
  <2> HIDE DEF f
  <2>1. ~Blocked(t, f)
    BY DEF f
  <2> QED
    BY <1>1, <2>1, Walked
<1>3. IsTree(Leaf(v)) /\ DOMAIN Leaf(v) = {<<>>} /\ Leaf(v)[<<>>] = v
  BY LeafTree
<1> HIDE DEF w, M
<1>4. /\ IsTree(u) /\ IsMap(u) /\ u[<<>>] = w[<<>>]
      /\ \A q : q \in DOMAIN u <=>
           \/ q \in DOMAIN w /\ ~IsPrefix(p, q)
           \/ q \in Paths /\ IsPrefix(p, q) /\ Rest(p, q) \in DOMAIN Leaf(v)
      /\ \A q \in DOMAIN u : u[q] = IF IsPrefix(p, q) THEN Leaf(v)[Rest(p, q)] ELSE w[q]
  BY <1>2, <1>3, PutIs DEF IsObject
<1>5. Written(t, p, v) = u
  BY DEF Written, u, w, M, f
<1> HIDE DEF u
<1>6. \A q \in Paths : IsPrefix(p, q) /\ Rest(p, q) = <<>> <=> q = p
  BY RestOf, PrefixOrder
<1>7. \A q \in M : IsPrefix(q, p) /\ ~IsPrefix(p, q) /\ q # p
  BY <1>1, <1>2, PrefixOrder
<1>8. \A q : q \in DOMAIN u <=> \/ q = p
                                \/ q \in DOMAIN t /\ ~IsPrefix(p, q)
                                \/ q \in M
  BY <1>2, <1>3, <1>4, <1>6, <1>7
<1>9. u[p] = v
  BY <1>3, <1>4, <1>6, <1>8
<1>10. IsObject(u)
  BY <1>2, <1>4 DEF IsObject
<1>11. \A q \in DOMAIN t : ~IsPrefix(p, q) => u[q] = t[q]
  BY <1>2, <1>4, <1>8
<1>12. \A q \in M : u[q] = Object /\ q \in Paths /\ q # <<>> /\ IsPrefix(q, p) /\ q # p
                    /\ q \notin DOMAIN t
  BY <1>2, <1>4, <1>7, <1>8
<1> QED
  BY <1>4, <1>5, <1>8, <1>9, <1>10, <1>11, <1>12 DEF M, f

LEMMA ReplacedIs ==
  ASSUME NEW p \in Paths, NEW sub, IsObject(sub), NEW q \in Paths, Replaced(p, sub, q)
  PROVE  /\ IsPrefix(p, q) /\ p # q
         /\ \E r \in DOMAIN sub : /\ r \in Paths /\ r # <<>> /\ sub[r] # Object
                                  /\ p \o r \in Paths /\ IsPrefix(p \o r, q)
<1>1. PICK r \in DOMAIN sub : sub[r] # Object /\ IsPrefix(p \o r, q)
  BY DEF Replaced
<1>2. r \in Paths /\ r # <<>>
  BY <1>1, RestOfTree DEF IsObject
<1> DEFINE z == p \o r
<1>3. z \in Paths /\ IsPrefix(p, z) /\ z # p
  BY <1>2, Concat
<1>4. IsPrefix(z, q)
  BY <1>1
<1> HIDE DEF z
<1>5. IsPrefix(p, q) /\ p # q
  BY <1>3, <1>4, PrefixOrder
<1>6. p \o r \in Paths
  BY <1>3 DEF z
<1> QED
  BY <1>1, <1>2, <1>5, <1>6

LEMMA MergedIs ==
  ASSUME NEW t, IsObject(t), NEW p \in Paths, NEW sub, IsObject(sub), ~Blocked(t, p)
  PROVE  LET u == Merged(t, p, sub)
             New(q) == q \in Paths /\ IsPrefix(p, q) /\ Rest(p, q) \in DOMAIN sub IN
         /\ IsObject(u) /\ IsMap(u)
         /\ \A q : q \in DOMAIN u <=> \/ New(q)
                                      \/ q \in DOMAIN t /\ ~Replaced(p, sub, q)
                                      \/ q \in Missing(t, p)
         /\ p \in DOMAIN u /\ u[p] = Object
         /\ \A q \in DOMAIN t : ~Replaced(p, sub, q) /\ ~New(q) => u[q] = t[q]
         /\ \A q \in DOMAIN t : New(q) => u[q] = Joined(t[q], sub[Rest(p, q)])
         /\ \A q : New(q) /\ q \notin DOMAIN t => u[q] = sub[Rest(p, q)]
         /\ \A q \in Missing(t, p) :
              /\ u[q] = Object /\ q \in Paths /\ q # <<>> /\ IsPrefix(q, p)
              /\ q \notin DOMAIN t
<1> DEFINE M == Missing(t, p)
           w == WithObjects(t, M)
           u == Unite(w, p, sub)
           New(q) == q \in Paths /\ IsPrefix(p, q) /\ Rest(p, q) \in DOMAIN sub
<1>1. /\ IsObject(w) /\ p \in DOMAIN w /\ w[p] = Object
      /\ \A q : q \in DOMAIN w <=> q \in DOMAIN t \/ q \in M
      /\ \A q \in DOMAIN t : w[q] = t[q]
      /\ \A q \in M : w[q] = Object
      /\ \A q \in M : q \in Paths /\ q # <<>> /\ IsPrefix(q, p) /\ q \notin DOMAIN t
  BY Walked
<1>2. /\ <<>> \in DOMAIN sub /\ sub[<<>>] = Object
  BY DEF IsObject, IsTree
<1> HIDE DEF w, M
<1>3. /\ IsTree(u) /\ IsMap(u) /\ u[<<>>] = w[<<>>]
      /\ \A q : q \in DOMAIN u <=> (q \in DOMAIN w /\ ~Replaced(p, sub, q)) \/ New(q)
      /\ \A q \in DOMAIN u :
           u[q] = IF ~(IsPrefix(p, q) /\ Rest(p, q) \in DOMAIN sub) THEN w[q]
                  ELSE IF q \in DOMAIN w THEN Joined(w[q], sub[Rest(p, q)])
                  ELSE sub[Rest(p, q)]
  BY <1>1, UniteIs DEF IsObject
<1>4. Merged(t, p, sub) = u
  BY DEF Merged, u, w, M
<1> HIDE DEF u
<1>5. \A q \in M : ~Replaced(p, sub, q)
  BY <1>1, ReplacedIs, PrefixOrder
<1>6. \A q : q \in DOMAIN u <=> New(q) \/ (q \in DOMAIN t /\ ~Replaced(p, sub, q)) \/ q \in M
  BY <1>1, <1>3, <1>5
<1>7. New(p) /\ Rest(p, p) = <<>>
  BY <1>2, PrefixOrder, RestOf
<1>8. ASSUME NEW q \in M PROVE u[q] = Object
  <2>1. q \in DOMAIN u /\ q \in DOMAIN w /\ w[q] = Object
    BY <1>1, <1>6
  <2>2. CASE New(q)
    <3>1. q = p
      BY <1>1, <2>2, PrefixOrder
    <3> QED
      BY <1>2, <1>3, <1>7, <2>1, <3>1, JoinedObject
  <2>3. CASE ~New(q)
    BY <1>1, <1>3, <2>1, <2>3
  <2> QED
    BY <2>2, <2>3
<1>9. u[p] = Object
  BY <1>1, <1>2, <1>3, <1>6, <1>7, JoinedObject
<1>10. IsObject(u)
  BY <1>1, <1>3 DEF IsObject
<1>11. ASSUME NEW q \in DOMAIN t, ~Replaced(p, sub, q), ~New(q) PROVE u[q] = t[q]
  BY <1>1, <1>3, <1>6, <1>11, RestOfTree DEF IsObject
<1>12. ASSUME NEW q \in DOMAIN t, New(q) PROVE u[q] = Joined(t[q], sub[Rest(p, q)])
  BY <1>1, <1>3, <1>6, <1>12
<1>13. ASSUME NEW q, New(q), q \notin DOMAIN t PROVE u[q] = sub[Rest(p, q)]
  <2>1. CASE q \in M
    <3>1. q = p
      BY <1>1, <1>13, <2>1, PrefixOrder
    <3> QED
      BY <1>2, <1>7, <1>9, <3>1
  <2>2. CASE q \notin M
    BY <1>1, <1>3, <1>6, <1>13, <2>2
  <2> QED
    BY <2>1, <2>2
<1> QED
  BY <1>1, <1>3, <1>4, <1>6, <1>7, <1>8, <1>9, <1>10, <1>11, <1>12, <1>13 DEF M

-----------------------------------------------------------------------------
(* The part of a tree that is a database's                                 *)

NoTops(t) == \A q \in DOMAIN t : q = <<>> \/ q[1] \notin Tops
Same(t, u, q) == (q \in DOMAIN t <=> q \in DOMAIN u) /\ (q \in DOMAIN t => t[q] = u[q])

LEMMA MainPartIs ==
  ASSUME NEW t, IsObject(t)
  PROVE  IsObject(MainPart(t)) /\ IsMap(MainPart(t)) /\ NoTops(MainPart(t))
<1> DEFINE u == MainPart(t)
<1>1. /\ IsMap(u) /\ \A q \in DOMAIN u : u[q] = t[q]
      /\ \A q : q \in DOMAIN u <=> q \in DOMAIN t /\ (q = <<>> \/ q[1] \notin Tops)
  BY DEF MainPart, IsMap
<1> HIDE DEF u
<1>2. <<>> \in DOMAIN u /\ u[<<>>] = Object
  BY <1>1 DEF IsObject, IsTree
<1>3. ASSUME NEW q \in DOMAIN u, q # <<>> PROVE Front(q) \in DOMAIN u /\ u[Front(q)] = Object
  <2>1. q \in Paths /\ Front(q) \in DOMAIN t /\ t[Front(q)] = Object
    BY <1>1, <1>3, RestOfTree DEF IsObject
  <2>2. Front(q) # <<>> => Front(q)[1] = q[1]
    <3> DEFINE f == Front(q)
               n == Len(q) - 1
    <3>1. f \in Paths /\ Len(f) = n /\ \A i \in 1 .. n : f[i] = q[i]
      BY <1>3, <2>1, FrontOf
    <3> HIDE DEF f, n
    <3>2. f # <<>> => 1 \in 1 .. n
      BY <3>1, FrontOf
    <3> QED
      BY <3>1, <3>2 DEF f
  <2> QED
    BY <1>1, <1>3, <2>1, <2>2
<1>4. \A q \in DOMAIN u : q \in Paths /\ IsValue(u[q])
  BY <1>1, RestOfTree DEF IsObject
<1> QED
  BY <1>1, <1>2, <1>3, <1>4 DEF IsObject, IsTree, NoTops, u

LEMMA PartIs ==
  ASSUME NEW t, IsObject(t), NEW d \in AllDbs, d # Main /\ d \in DOMAIN t => t[d] = Object
  PROVE  /\ IsObject(Part(t, d)) /\ IsMap(Part(t, d))
         /\ d = Main => NoTops(Part(t, d))
<1>1. CASE d = Main
  BY <1>1, MainPartIs DEF Part
<1>2. CASE d # Main /\ d \in DOMAIN t
  BY <1>2, AtIs DEF Part, IsObject
<1>3. CASE d # Main /\ d \notin DOMAIN t
  BY <1>3, EmptyTree DEF Part
<1> QED
  BY <1>1, <1>2, <1>3

LEMMA PartSame ==
  ASSUME NEW t, IsTree(t), NEW u, IsTree(u), NEW d \in AllDbs,
         \A q \in Paths : Belongs(q, d) => Same(t, u, q)
  PROVE  Part(t, d) = Part(u, d)
<1>1. CASE d = Main
  <2> DEFINE D(x) == {q \in DOMAIN x : q = <<>> \/ q[1] \notin Tops}
  <2>1. ASSUME NEW q PROVE q \in D(t) <=> q \in D(u)
    <3>1. q \in D(t) \/ q \in D(u) => q \in Paths /\ Belongs(q, d)
      BY <1>1, RestOfTree DEF Belongs
    <3> QED
      BY <3>1 DEF Same
  <2>2. D(t) = D(u)
    BY <2>1
  <2>3. \A q \in D(t) : t[q] = u[q]
    BY <1>1, RestOfTree DEF Belongs, Same
  <2> HIDE DEF D
  <2>4. [q \in D(t) |-> t[q]] = [q \in D(u) |-> u[q]]
    BY <2>2, <2>3
  <2> QED
    BY <1>1, <2>4 DEF Part, MainPart, D
<1>2. CASE d # Main
  <2>1. d \in DbPaths /\ d \in Paths
    BY <1>2, DbPathIs DEF AllDbs
  <2>2. \A q \in Paths : IsPrefix(d, q) => Same(t, u, q)
    BY <1>2 DEF Belongs
  <2>3. d \in DOMAIN t <=> d \in DOMAIN u
    BY <2>1, <2>2, PrefixOrder DEF Same
  <2>4. ASSUME d \in DOMAIN t PROVE At(t, d) = At(u, d)
    <3> DEFINE a == At(t, d)
               b == At(u, d)
    <3>1. /\ IsMap(a)
          /\ \A r : r \in DOMAIN a <=> r \in Paths /\ d \o r \in DOMAIN t
          /\ \A r \in DOMAIN a : a[r] = t[d \o r]
      BY <2>4, AtIs
    <3>2. /\ IsMap(b)
          /\ \A r : r \in DOMAIN b <=> r \in Paths /\ d \o r \in DOMAIN u
          /\ \A r \in DOMAIN b : b[r] = u[d \o r]
      BY <2>3, <2>4, AtIs
    <3> HIDE DEF a, b
    <3>3. ASSUME NEW r \in Paths PROVE Same(t, u, d \o r)
      <4> DEFINE q == d \o r
      <4>1. q \in Paths /\ IsPrefix(d, q)
        BY <2>1, Concat
      <4> HIDE DEF q
      <4>2. Same(t, u, q)
        BY <2>2, <4>1
      <4> QED
        BY <4>2 DEF q
    <3>4. \A r : r \in DOMAIN a <=> r \in DOMAIN b
      BY <3>1, <3>2, <3>3 DEF Same
    <3>5. \A r \in DOMAIN a : a[r] = b[r]
      BY <3>1, <3>2, <3>3, <3>4 DEF Same
    <3>6. a = b
      BY <3>1, <3>2, <3>4, <3>5, MapsEqual
    <3> QED
      BY <3>6 DEF a, b
  <2> QED
    BY <1>2, <2>3, <2>4 DEF Part
<1> QED
  BY <1>1, <1>2

\* What a request, or part of one, does below its path and on the way to it is
\* to no other database.
LEMMA PartApart ==
  ASSUME NEW t, IsTree(t), NEW u, IsTree(u), NEW p \in Paths, p # <<>>, p \notin TopPaths,
         \A q \in Paths : q = <<>> \/ ~(IsPrefix(p, q) \/ IsPrefix(q, p)) => Same(t, u, q),
         NEW d \in AllDbs, d # DbOf(p)
  PROVE  Part(t, d) = Part(u, d)
<1>1. \A q \in Paths : Belongs(q, d) => Same(t, u, q)
  BY OtherDatabases
<1> QED
  BY <1>1, PartSame

-----------------------------------------------------------------------------
(* Files                                                                   *)

LEMMA FileIs ==
  ASSUME NEW t, IsObject(t)
  PROVE  /\ FileOf(t) \in {NoFile, t}
         /\ ~IsTree(NoFile) => Content(FileOf(t)) = t
<1>1. ~IsTree(NoFile) => t # NoFile
  BY DEF IsObject
<1> QED
  BY <1>1 DEF Content, FileOf

\* What the files may hold for the tree to be loaded from them.
Loadable(f) ==
    /\ \A d \in Lasting : f[d] # NoFile => IsObject(f[d]) /\ IsMap(f[d])
    /\ f[Main] # NoFile => NoTops(f[Main])

LEMMA ChildrenAre ==
  ASSUME NEW f, Loadable(f), NEW q
  PROVE  q \in UNION {{d \o r : r \in DOMAIN f[d]} : d \in {d \in DbPaths \cap Lasting : f[d] # NoFile}}
         <=> /\ q \in Paths /\ DbOf(q) \in DbPaths \cap Lasting /\ f[DbOf(q)] # NoFile
             /\ Rest(DbOf(q), q) \in DOMAIN f[DbOf(q)]
<1> DEFINE L == {d \in DbPaths \cap Lasting : f[d] # NoFile}
           C == UNION {{d \o r : r \in DOMAIN f[d]} : d \in L}
<1>1. ASSUME q \in C
      PROVE  /\ q \in Paths /\ DbOf(q) \in DbPaths \cap Lasting /\ f[DbOf(q)] # NoFile
             /\ Rest(DbOf(q), q) \in DOMAIN f[DbOf(q)]
  <2>1. PICK d \in L : q \in {d \o r : r \in DOMAIN f[d]}
    BY <1>1
  <2>2. PICK r \in DOMAIN f[d] : q = d \o r
    BY <2>1
  <2>3. d \in Paths /\ r \in Paths
    BY <2>1, <2>2, DbPathIs, RestOfTree DEF Loadable, IsObject
  <2>4. q \in Paths /\ IsPrefix(d, q) /\ Rest(d, q) = r
    BY <2>2, <2>3, Concat
  <2>5. DbOf(q) = d
    BY <2>1, <2>4, DbOfIs
  <2> QED
    BY <2>1, <2>2, <2>4, <2>5
<1>2. ASSUME q \in Paths, DbOf(q) \in DbPaths \cap Lasting, f[DbOf(q)] # NoFile,
             Rest(DbOf(q), q) \in DOMAIN f[DbOf(q)]
      PROVE  q \in C
  <2> DEFINE d == DbOf(q)
             r == Rest(d, q)
  <2>1. d \in L /\ d \in Paths /\ IsPrefix(d, q)
    BY <1>2, DbOfIs, DbPathIs
  <2> HIDE DEF d
  <2>2. q = d \o r
    BY <1>2, <2>1, RestOf
  <2>3. r \in DOMAIN f[d]
    BY <1>2 DEF d
  <2> QED
    BY <2>1, <2>2, <2>3
<1> QED
  BY <1>1, <1>2

\* Where the loaded tree gets its objects and values from.
LEMMA LoadedFrom ==
  ASSUME NEW f, Loadable(f)
  PROVE  LET u == TreeOf(f)
             main == Content(f[Main])
             IsLoaded(d) == d \in DbPaths \cap Lasting /\ f[d] # NoFile
             InMain(q) == q \in DOMAIN main
             IsTop(q) == \E d \in DbPaths : IsLoaded(d) /\ q = Top(d)
             InChild(q) == /\ q \in Paths /\ IsLoaded(DbOf(q))
                           /\ Rest(DbOf(q), q) \in DOMAIN f[DbOf(q)] IN
         /\ IsMap(u) /\ IsObject(main) /\ IsMap(main) /\ NoTops(main)
         /\ \A q : q \in DOMAIN u <=> InMain(q) \/ IsTop(q) \/ InChild(q)
         /\ \A q : InMain(q) => q \in Paths /\ u[q] = main[q] /\ (q = <<>> \/ q[1] \notin Tops)
         /\ \A q : IsTop(q) => u[q] = Object /\ q \in TopPaths
         /\ \A q : InChild(q) => /\ u[q] = f[DbOf(q)][Rest(DbOf(q), q)]
                                 /\ q # <<>> /\ q[1] \in Tops /\ q \notin TopPaths
<1> DEFINE u == TreeOf(f)
           main == Content(f[Main])
           IsLoaded(d) == d \in DbPaths \cap Lasting /\ f[d] # NoFile
           InMain(q) == q \in DOMAIN main
           IsTop(q) == \E d \in DbPaths : IsLoaded(d) /\ q = Top(d)
           InChild(q) == /\ q \in Paths /\ IsLoaded(DbOf(q))
                         /\ Rest(DbOf(q), q) \in DOMAIN f[DbOf(q)]
           L == {d \in DbPaths \cap Lasting : f[d] # NoFile}
           tops == {<<d[1]>> : d \in L}
           children == UNION {{d \o r : r \in DOMAIN f[d]} : d \in L}
<1>1. IsObject(main) /\ IsMap(main) /\ NoTops(main)
  <2>1. Main \in Lasting
    BY DEF Lasting, AllDbs
  <2>2. NoTops(EmptyObject)
    BY EmptyTree DEF NoTops
  <2> QED
    BY <2>1, <2>2, EmptyTree DEF Loadable, Content
<1>2. /\ IsMap(u)
      /\ \A q : q \in DOMAIN u <=> q \in DOMAIN main \/ q \in tops \/ q \in children
      /\ \A q \in DOMAIN u : u[q] = IF q \in children THEN f[DbOf(q)][Rest(DbOf(q), q)]
                                    ELSE IF q \in tops THEN Object ELSE main[q]
  BY DEF TreeOf, IsMap
<1> HIDE DEF u, main
<1>3. \A q : q \in children <=> InChild(q)
  BY ChildrenAre
<1>4. \A q : q \in tops <=> IsTop(q)
  BY DEF Top
<1>5. \A q : IsTop(q) => q \in TopPaths /\ q # <<>> /\ q[1] \in Tops
  BY DbPathIs
<1> HIDE DEF children, tops, IsTop, L
<1>6. ASSUME NEW q, InChild(q) PROVE q # <<>> /\ q[1] \in Tops /\ q \notin TopPaths
  BY <1>6, InDatabase
<1>7. ASSUME NEW q, InMain(q) PROVE q \in Paths /\ (q = <<>> \/ q[1] \notin Tops)
  BY <1>1, <1>7, RestOfTree DEF IsObject, NoTops
<1> HIDE DEF InMain, InChild
<1>8. \A q : InMain(q) => ~InChild(q) /\ ~IsTop(q)
  BY <1>5, <1>6, <1>7
<1>9. \A q : IsTop(q) => ~InChild(q)
  BY <1>5, <1>6
<1>10. \A q : q \in DOMAIN u <=> InMain(q) \/ IsTop(q) \/ InChild(q)
  BY <1>2, <1>3, <1>4 DEF InMain
<1>11. \A q : InMain(q) => u[q] = main[q]
  BY <1>2, <1>3, <1>4, <1>8, <1>10
<1>12. \A q : IsTop(q) => u[q] = Object
  BY <1>2, <1>3, <1>4, <1>9, <1>10
<1>13. \A q : InChild(q) => u[q] = f[DbOf(q)][Rest(DbOf(q), q)]
  BY <1>2, <1>3, <1>10
<1> QED
  BY <1>1, <1>2, <1>5, <1>6, <1>7, <1>10, <1>11, <1>12, <1>13 DEF u, main, IsTop, InMain, InChild

LEMMA TreeOfIs ==
  ASSUME NEW f, Loadable(f)
  PROVE  /\ IsObject(TreeOf(f)) /\ IsMap(TreeOf(f))
         /\ \A d \in DbPaths : /\ d \in DOMAIN TreeOf(f) <=> d \in Lasting /\ f[d] # NoFile
                               /\ d \in DOMAIN TreeOf(f) => TreeOf(f)[d] = Object
         /\ \A q \in TopPaths \cap DOMAIN TreeOf(f) : TreeOf(f)[q] = Object
         /\ \A d \in Lasting : Part(TreeOf(f), d) = Content(f[d])
<1> DEFINE u == TreeOf(f)
           main == Content(f[Main])
           IsLoaded(d) == d \in DbPaths \cap Lasting /\ f[d] # NoFile
           InMain(q) == q \in DOMAIN main
           IsTop(q) == \E d \in DbPaths : IsLoaded(d) /\ q = Top(d)
           InChild(q) == /\ q \in Paths /\ IsLoaded(DbOf(q))
                         /\ Rest(DbOf(q), q) \in DOMAIN f[DbOf(q)]
<1>1. /\ IsMap(u) /\ IsObject(main) /\ IsMap(main) /\ NoTops(main)
      /\ \A q : q \in DOMAIN u <=> InMain(q) \/ IsTop(q) \/ InChild(q)
      /\ \A q : InMain(q) => q \in Paths /\ u[q] = main[q] /\ (q = <<>> \/ q[1] \notin Tops)
      /\ \A q : IsTop(q) => u[q] = Object /\ q \in TopPaths
      /\ \A q : InChild(q) => /\ u[q] = f[DbOf(q)][Rest(DbOf(q), q)]
                              /\ q # <<>> /\ q[1] \in Tops /\ q \notin TopPaths
  BY LoadedFrom
<1>2. \A d \in DbPaths : IsLoaded(d) => IsObject(f[d]) /\ IsMap(f[d]) /\ IsTop(Top(d))
  BY DEF Loadable
\* A path in a database that is loaded, by what it is there.
<1>3. ASSUME NEW d \in DbPaths, IsLoaded(d), NEW r \in Paths
      PROVE  /\ d \o r \in Paths /\ DbOf(d \o r) = d /\ Rest(d, d \o r) = r
             /\ InChild(d \o r) <=> r \in DOMAIN f[d]
  <2> DEFINE q == d \o r
  <2>1. q \in Paths /\ IsPrefix(d, q) /\ Rest(d, q) = r
    BY DbPathIs, Concat
  <2> HIDE DEF q
  <2>2. DbOf(q) = d
    BY <2>1, DbOfIs
  <2>3. InChild(q) <=> r \in DOMAIN f[d]
    BY <1>3, <2>1, <2>2
  <2> QED
    BY <2>1, <2>2, <2>3 DEF q
\* What is loaded of a database begins with its object.
<1>4. \A d \in DbPaths : IsLoaded(d) => InChild(d) /\ u[d] = Object
  <2>1. ASSUME NEW d \in DbPaths, IsLoaded(d) PROVE InChild(d) /\ u[d] = Object
    <3>1. d \in Paths /\ DbOf(d) = d /\ Rest(d, d) = <<>>
      BY DbPathIs, DbOfIs, PrefixOrder, RestOf
    <3>2. <<>> \in DOMAIN f[d] /\ f[d][<<>>] = Object
      BY <1>2, <2>1 DEF IsObject, IsTree
    <3>3. InChild(d)
      BY <2>1, <3>1, <3>2
    <3> QED
      BY <1>1, <3>1, <3>2, <3>3
  <2> QED
    BY <2>1
<1> HIDE DEF u, main
<1>5. <<>> \in DOMAIN u /\ u[<<>>] = Object
  BY <1>1 DEF IsObject, IsTree
<1>6. ASSUME NEW q \in DOMAIN u
      PROVE  /\ q \in Paths /\ IsValue(u[q])
             /\ q # <<>> => Front(q) \in DOMAIN u /\ u[Front(q)] = Object
  <2>1. CASE InMain(q)
    <3>1. q \in Paths /\ u[q] = main[q] /\ IsValue(main[q])
          /\ (q # <<>> => Front(q) \in DOMAIN main /\ main[Front(q)] = Object)
      BY <1>1, <2>1, RestOfTree DEF IsObject
    <3> QED
      BY <1>1, <3>1
  <2>2. CASE IsTop(q)
    <3>1. q \in Paths /\ q # <<>> /\ Front(q) = <<>>
      BY <1>1, <2>2, TopPathIs
    <3> QED
      BY <1>1, <1>5, <2>2, <3>1, ObjectIsValue
  <2>3. CASE InChild(q)
    <3> DEFINE d == DbOf(q)
               r == Rest(d, q)
    <3>1. d \in DbPaths /\ IsLoaded(d) /\ q \in Paths /\ u[q] = f[d][r] /\ r \in DOMAIN f[d]
      BY <1>1, <2>3
    <3>2. IsPrefix(d, q) /\ d \in Paths
      BY <3>1, DbOfIs, DbPathIs
    <3>3. IsTree(f[d])
      BY <1>2, <3>1 DEF IsObject
    <3> HIDE DEF d
    <3>4. r \in Paths /\ d \o r = q
      BY <3>1, <3>2, RestOf
    <3>5. /\ IsValue(f[d][r])
          /\ r # <<>> => Front(r) \in DOMAIN f[d] /\ f[d][Front(r)] = Object
      BY <3>1, <3>3, RestOfTree
    <3>6. CASE q = d
      <4>1. Front(q) = Top(d) /\ IsTop(Top(d))
        BY <1>2, <3>1, <3>6, DbPathIs
      <4> QED
        BY <1>1, <3>1, <3>5, <4>1
    <3>7. CASE q # d
      <4>1. r # <<>>
        BY <3>2, <3>1, <3>7, RestOf
      <4> DEFINE h == Front(r)
                 g == d \o h
      <4>2. h \in Paths /\ h \in DOMAIN f[d] /\ f[d][h] = Object
        BY <3>4, <3>5, <4>1, FrontOf
      <4>3. Front(q) = g
        BY <3>2, <3>4, <4>1, FrontOfConcat
      <4> HIDE DEF h
      <4>4. DbOf(g) = d /\ Rest(d, g) = h /\ InChild(g)
        BY <1>3, <3>1, <4>2
      <4> HIDE DEF g
      <4>5. u[g] = Object /\ g \in DOMAIN u
        BY <1>1, <4>2, <4>4
      <4> QED
        BY <3>1, <3>5, <4>3, <4>5
    <3> QED
      BY <3>6, <3>7
  <2> QED
    BY <1>1, <2>1, <2>2, <2>3
<1>7. IsObject(u)
  BY <1>5, <1>6 DEF IsObject, IsTree
<1>8. \A d \in DbPaths : /\ d \in DOMAIN u <=> d \in Lasting /\ f[d] # NoFile
                         /\ d \in DOMAIN u => u[d] = Object
  <2>1. ASSUME NEW d \in DbPaths, d \in DOMAIN u PROVE IsLoaded(d) /\ u[d] = Object
    <3>1. d \in Paths /\ d[1] \in Tops /\ d # <<>> /\ Len(d) = 2 /\ DbOf(d) = d
      BY DbPathIs, DbOfIs, PrefixOrder
    <3>3. d \notin TopPaths
      BY <3>1, TopPathIs
    <3>4. ~InMain(d) /\ ~IsTop(d)
      BY <1>1, <3>1, <3>3
    <3>5. InChild(d)
      BY <1>1, <2>1, <3>4
    <3>6. IsLoaded(d)
      BY <3>1, <3>5
    <3> QED
      BY <1>4, <3>6
  <2> QED
    BY <1>1, <1>4, <2>1
<1>9. \A q \in TopPaths \cap DOMAIN u : u[q] = Object
  <2>1. \A q \in TopPaths : q # <<>> /\ q[1] \in Tops
    BY TopPathIs
  <2> QED
    BY <1>1, <2>1
<1>10. Part(u, Main) = main
  <2> DEFINE a == MainPart(u)
  <2>1. /\ IsMap(a) /\ \A q \in DOMAIN a : a[q] = u[q]
        /\ \A q : q \in DOMAIN a <=> q \in DOMAIN u /\ (q = <<>> \/ q[1] \notin Tops)
    BY DEF MainPart, IsMap
  <2> HIDE DEF a
  <2>2. \A q : IsTop(q) => q # <<>> /\ q[1] \in Tops
    BY <1>1, TopPathIs
  <2>3. \A q : q \in DOMAIN a <=> q \in DOMAIN main
    BY <1>1, <2>1, <2>2
  <2>4. \A q \in DOMAIN a : a[q] = main[q]
    BY <1>1, <2>1, <2>3
  <2>5. a = main
    BY <1>1, <2>1, <2>3, <2>4, MapsEqual
  <2> QED
    BY <2>5 DEF Part, a
<1>11. ASSUME NEW d \in Lasting, d # Main PROVE Part(u, d) = Content(f[d])
  <2>1. d \in DbPaths
    BY <1>11 DEF Lasting, AllDbs
  <2>2. CASE f[d] = NoFile
    BY <1>8, <1>11, <2>1, <2>2 DEF Part, Content
  <2>3. CASE f[d] # NoFile
    <3>1. IsLoaded(d) /\ d \in DOMAIN u /\ IsMap(f[d]) /\ IsTree(f[d])
      BY <1>2, <1>8, <2>1, <2>3 DEF IsObject
    <3> DEFINE a == At(u, d)
    <3>2. /\ IsMap(a)
          /\ \A r : r \in DOMAIN a <=> r \in Paths /\ d \o r \in DOMAIN u
          /\ \A r \in DOMAIN a : a[r] = u[d \o r]
      BY <1>7, <3>1, AtIs DEF IsObject
    <3> HIDE DEF a
    <3>3. ASSUME NEW r \in Paths
          PROVE  /\ d \o r \in DOMAIN u <=> r \in DOMAIN f[d]
                 /\ r \in DOMAIN f[d] => u[d \o r] = f[d][r]
      <4> DEFINE q == d \o r
      <4>1. q \in Paths /\ DbOf(q) = d /\ Rest(d, q) = r /\ (InChild(q) <=> r \in DOMAIN f[d])
        BY <1>3, <2>1, <3>1
      <4> HIDE DEF q
      <4>5. q # <<>> /\ q[1] \in Tops /\ q \notin TopPaths
        BY <2>1, <4>1, InDatabase
      <4>6. ~InMain(q) /\ ~IsTop(q)
        BY <1>1, <4>5
      <4>7. q \in DOMAIN u <=> r \in DOMAIN f[d]
        BY <1>1, <4>1, <4>6
      <4>8. r \in DOMAIN f[d] => u[q] = f[d][r]
        BY <1>1, <4>1
      <4> QED
        BY <4>7, <4>8 DEF q
    <3>4. \A r \in DOMAIN f[d] : r \in Paths
      BY <3>1, RestOfTree
    <3>5. a = f[d]
      BY <3>1, <3>2, <3>3, <3>4, MapsEqual
    <3> QED
      BY <1>11, <2>3, <3>1, <3>5 DEF Part, Content, a
  <2> QED
    BY <2>2, <2>3
<1> QED
  BY <1>1, <1>7, <1>8, <1>9, <1>10, <1>11 DEF u, main

=============================================================================
