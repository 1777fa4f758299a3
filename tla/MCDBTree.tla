------------------------------ MODULE MCDBTree ------------------------------
(* Small instances of DBTree for TLC. *)
EXTENDS DBTree, TLC

\* Paths of the main database and of others, some below others.
MainPaths == {<<"k">>, <<"k", "l">>}
DbKeyPaths == {d \o <<"k">> : d \in DbPaths}

UsualWrites == MainPaths \cup {<<"vm", "u", "k", "l">>, <<"dom-store", "u", "k">>}
OneValue == {String("1")}
TwoValues == {String("1"), String("2")}

UsualRms == MainPaths \cup DbKeyPaths \cup DbPaths

With(k, v) == EmptyObject @@ (<<k>> :> v)
WithIn(j, k, v) == With(j, Object) @@ (<<j, k>> :> v)

UsualInjections ==
    {[path |-> <<"vm", "u">>,
      value |-> WithIn("k", "l", String("2")) @@ With("l", String("2"))],
     [path |-> <<"k">>, value |-> With("l", String("2"))]}

\* A few of each, for what happens to the files.
FewPaths == {<<"k">>, <<"vm", "u", "k">>}
FewRms == FewPaths \cup DbPaths

\* The whole of vm is removed.
TopRms == UsualRms \cup {<<"vm">>}

\* An object is injected above the databases.
TopInjections ==
    UsualInjections \cup
    {[path |-> <<"vm">>, value |-> WithIn("u", "l", String("1"))]}
=============================================================================
