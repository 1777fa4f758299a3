------------------------------- MODULE MCTools -------------------------------
(* A small instance of Tools for TLC. *)
EXTENDS Tools

CONSTANTS d1, d2, c1

\* One database, a key of it, and a key below that.
Db == <<"vm", "u">>
Key == Append(Db, "k")
Deep == Append(Key, "l")

\* A value of each kind, among them a number that loses digits, an array and
\* a null, and a text that is no JSON.
Everything == "{k: 1234565, l: [a], m: null, n: true, o: b}"
Json == Everything :> (EmptyObject @@
    (<<"k">> :> Number(1234565)) @@ (<<"l">> :> Array(<<"a">>)) @@
    (<<"m">> :> Null) @@ (<<"n">> :> Bool(TRUE)) @@ (<<"o">> :> String("b")))

DaemonSymmetry == Permutations(Daemons)

SomeArguments ==
    {<<>>, <<Db>>, <<Key>>, <<Key, "1">>, <<Deep, "1">>,
     <<Db, Everything>>, <<Db, "{k: ">>}

\* One call for each tool, and two where it makes a difference.
SomeRequests ==
    Needs(1, "read", <<Key>>) \cup Needs(1, "read_binary", <<Key>>)
    \cup Needs(1, "exists", <<Key>>) \cup OrRoot("dump", <<>>) \cup OrRoot("list", <<Db>>)
    \cup Needs(1, "rm", <<Db>>)
    \cup Needs(2, "write", <<Key, "1">>) \cup Needs(2, "write", <<Deep, "1">>)
    \cup Needs(2, "inject", <<Db, Everything>>) \cup Needs(2, "inject", <<Db, "{k: ">>)
=============================================================================
