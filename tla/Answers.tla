------------------------------- MODULE Answers -------------------------------
(***************************************************************************)
(* What the methods of Db that read answer for a tree (src/db.cpp), by the *)
(* kind of the value they find.                                            *)
(***************************************************************************)
EXTENDS Trees, TLC

(***************************************************************************)
(* QString::number() of a double keeps six digits, rounded half to even.   *)
(* (How it lays them out is left out: 1.23457e+06 is "1234570" here.)      *)
(***************************************************************************)
Unit(n) == CHOOSE u \in {1, 10, 100, 1000} :
               n < u * 1000000 /\ (u = 1 \/ n >= u * 100000)
Rounded(n) ==
    LET u == Unit(n)
        rest == n % u
        up == 2 * rest > u \/ (2 * rest = u /\ (n \div u) % 2 = 1) IN
    n - rest + (IF up THEN u ELSE 0)
NumberText(n) == ToString(Rounded(n))

\* An object reads as "", and so does an array.
ReadText(v) ==
    CASE Kind(v) = "bool"   -> IF v[2] THEN "true" ELSE "false"
      [] Kind(v) = "string" -> v[2]
      [] Kind(v) = "number" -> NumberText(v[2])
      [] Kind(v) = "null"   -> "null"
      [] OTHER              -> ""

\* getValue(): is there a value at p?
Found(t, p) == p \in DOMAIN t

ReadAnswer(t, p) == IF Found(t, p) THEN ReadText(t[p]) ELSE ""
ListAnswer(t, p) == {Last(q) : q \in {q \in DOMAIN t : q # <<>> /\ Front(q) = p}}
DumpAnswer(t, p) == IF Found(t, p) THEN At(t, p) ELSE Leaf(Null)
=============================================================================
