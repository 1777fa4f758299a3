-------------------------------- MODULE MCDb --------------------------------
(* A small instance of Db for TLC: two guests and domain 0. *)
EXTENDS Db

CONSTANTS g1, g2, u1, u2, a, b

GuestStrings == {String(a), String(b)}
GuestUuids == (g1 :> u1) @@ (g2 :> u2)
GuestValues == (0 :> {}) @@ (g1 :> {String(a)}) @@ (g2 :> {String(b)})

\* The guests are exchanged with all that is theirs.
Exchanged ==
    (g1 :> g2) @@ (g2 :> g1) @@ (u1 :> u2) @@ (u2 :> u1) @@ (a :> b) @@ (b :> a)
GuestSymmetry ==
    {p \in Permutations(DOMAIN Exchanged) : p = Exchanged \/ \A m \in DOMAIN p : p[m] = m}

\* A key in what a client sees, and all of it.
ClientPaths == {<<"k">>}
ClientReads == {<<>>, <<"k">>}
ClientRms == {<<>>, <<"k">>}
ClientInjections == {[path |-> <<>>, value |-> EmptyObject]}
=============================================================================
