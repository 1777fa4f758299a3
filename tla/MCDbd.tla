-------------------------------- MODULE MCDbd --------------------------------
(* Small instances of Dbd for TLC. *)
EXTENDS Dbd

CONSTANTS d1, d2, c1, c2

Key == <<"vm", "u", "k">>

\* What changes each of two databases, in every way.
FewRequests ==
    {[method |-> "write", at |-> Key, value |-> "1"],
     [method |-> "write", at |-> <<"k">>, value |-> "1"],
     [method |-> "inject", at |-> <<"vm", "u">>, value |-> "{}"],
     [method |-> "rm", at |-> <<"vm", "u">>]}

EmptyJson == [text \in {"{}"} |-> EmptyObject]

OneRequest == {[method |-> "write", at |-> Key, value |-> "1"]}
=============================================================================
