---------------------------------- MODULE Tools ----------------------------------
(***************************************************************************)
(* The command line tools (src/app/db-*/main.cpp) over Dbd: each makes one *)
(* call, waits for the reply, prints what it makes of it, and exits.       *)
(***************************************************************************)
EXTENDS Dbd

CONSTANT Arguments  \* what a tool may be given: up to a key and a text

VARIABLES
    tool,    \* what each client runs: its name and call, or its exit code and output
    reported \* history: the db-write that exited 0 last, if no call was made since to change anything

toolVars == <<dbdVars, tool, reported>>

Running == -1
Nothing == "nothing"
Exited(code, out) == [exit |-> code, prints |-> out]

NoReport == [is |-> "none"]
Lost == [is |-> "lost"]

-----------------------------------------------------------------------------
(* parseCommandLine(): no call if an argument is missing.                  *)

Needs(n, method, args) ==
    IF Len(args) < n THEN {}
    ELSE IF n = 1 THEN {[method |-> method, at |-> args[1]]}
    ELSE {[method |-> method, at |-> args[1], value |-> args[2]]}

OrRoot(method, args) ==
    {[method |-> method, at |-> IF args = <<>> THEN <<>> ELSE args[1]]}

Idles(c) == tool[c].exit # Running

\* A tool exits with 1 if an argument is missing or there is no bus.
NoCall(c) ==
    /\ Idles(c) /\ tool' = [tool EXCEPT ![c] = Exited(1, Nothing)]
    /\ UNCHANGED <<dbdVars, reported>>

\* Otherwise it makes its call.
Invoke(c, name, requests) ==
    \E r \in requests \cap Requests :
        /\ Idles(c) /\ Send(c, r)
        /\ tool' = [tool EXCEPT ![c] = [name |-> name, call |-> r, exit |-> Running]]
        /\ reported' = IF r.method \in Changing THEN NoReport ELSE reported

DbCat(c, args) == Invoke(c, "db-cat", Needs(1, "read_binary", args))
DbDump(c, args) == Invoke(c, "db-dump", OrRoot("dump", args))
DbExists(c, args) == Invoke(c, "db-exists", Needs(1, "exists", args))
DbInject(c, args) == Invoke(c, "db-inject", Needs(2, "inject", args))
DbLs(c, args) == Invoke(c, "db-ls", OrRoot("dump", args))
DbNodes(c, args) == Invoke(c, "db-nodes", OrRoot("list", args))
DbRead(c, args) == Invoke(c, "db-read", Needs(1, "read", args))
DbRm(c, args) == Invoke(c, "db-rm", Needs(1, "rm", args))
DbWrite(c, args) == Invoke(c, "db-write", Needs(2, "write", args))

-----------------------------------------------------------------------------
(* What a tool prints of a reply.                                          *)

Text(s) == <<"text", s>>
Quoted(s) == <<"quoted", s>>

\* Mutant: a number is printed in full.
LsTextInFull(v) ==
    CASE Kind(v) = "null"   -> Text("null")
      [] Kind(v) = "bool"   -> Quoted(IF v[2] THEN "true" ELSE "false")
      [] Kind(v) = "string" -> Quoted(v[2])
      [] Kind(v) = "number" -> Quoted(ToString(v[2]))
      [] Kind(v) = "object" -> Text("")

\* lsObject(): what follows the key and the "=".
LsText(v) ==
    CASE Kind(v) = "null"   -> Text("null")
      [] Kind(v) = "bool"   -> Quoted(IF v[2] THEN "true" ELSE "false")
      [] Kind(v) = "string" -> Quoted(v[2])
      [] Kind(v) = "number" -> Quoted(NumberText(v[2]))
      [] Kind(v) = "object" -> Text("")

\* A line for each value but an array.  The null that stands for no value
\* prints as an empty string, and so does one that is there.
LsPrints(t) ==
    IF t[<<>>] = Null THEN Leaf(Quoted(""))
    ELSE [p \in {p \in DOMAIN t : ~IsArray(t[p])} |-> LsText(t[p])]

CatPrints(bytes) == Text(bytes)
DumpPrints(t) == t
ExistsPrints(found) == Text(IF found THEN "true" ELSE "false")
NodesPrints(keys) == keys
ReadPrints(text) == Text(text)

Prints(name, answer) ==
    CASE name = "db-cat"    -> CatPrints(answer)
      [] name = "db-dump"   -> DumpPrints(answer)
      [] name = "db-exists" -> ExistsPrints(answer)
      [] name = "db-ls"     -> LsPrints(answer)
      [] name = "db-nodes"  -> NodesPrints(answer)
      [] name = "db-read"   -> ReadPrints(answer)
      [] OTHER              -> Nothing

\* isValid()
HasAnswer(c) == reply[c].is = "value"

\* waitForFinished() returns.
Finish(c) ==
    /\ tool[c].exit = Running /\ reply[c] # Waiting
    /\ tool' = [tool EXCEPT ![c] =
            IF HasAnswer(c) THEN Exited(0, Prints(tool[c].name, reply[c].value))
            ELSE Exited(1, Nothing)]
    /\ reported' = IF HasAnswer(c) /\ tool[c].name = "db-write" /\ reported # Lost
                   THEN [is |-> "write", call |-> tool[c].call] ELSE reported
    /\ reply' = Replies(c, Idle)
    /\ UNCHANGED <<stage, signalled, owner, mem, files, toForce, calls>>

-----------------------------------------------------------------------------
ToolsInit ==
    /\ DbdInit
    /\ tool = [c \in Clients |-> Exited(0, Nothing)]
    /\ reported = NoReport

Process(d) ==
    /\ \/ DbdStep(d) /\ UNCHANGED reported
       \/ Loses(d) /\ reported' = IF Loaded(d) THEN Lost ELSE reported
    /\ UNCHANGED tool

Tool(c) ==
    \/ \E args \in Arguments :
         \/ DbCat(c, args) \/ DbDump(c, args) \/ DbExists(c, args)
         \/ DbInject(c, args) \/ DbLs(c, args) \/ DbNodes(c, args)
         \/ DbRead(c, args) \/ DbRm(c, args) \/ DbWrite(c, args)
    \/ NoCall(c) \/ Finish(c)
    \/ Timeout(c) /\ UNCHANGED <<tool, reported>>

ToolsNext == (\E d \in Daemons : Process(d)) \/ (\E c \in Clients : Tool(c))

ToolsSpec == ToolsInit /\ [][ToolsNext]_toolVars

-----------------------------------------------------------------------------
(* What the tools promise.                                                 *)

\* What is shown, or will be after a start.
Shown == IF \E d \in Daemons : Loaded(d) THEN Served ELSE TreeOf(files)

(***************************************************************************)
(* A tool that gets an answer gets that of its own call, made at that      *)
(* moment to the tree that outlives the process, and what it asked for is  *)
(* done to that tree and nothing else is: even if it called a process that *)
(* had no tree yet (main.cpp:171), if it has given up on other calls which *)
(* are served after all, or if its call follows an exit and a start.       *)
(***************************************************************************)
AnswersAreCurrent ==
    [][\A c \in Clients : (~HasAnswer(c) /\ HasAnswer(c)') =>
         /\ reply'[c].value = Answer(tool[c].call, Shown)
         /\ Shown' = After(tool[c].call, Shown)]_toolVars

(***************************************************************************)
(* What db-write has reported with exit code 0 stays, for a user who runs  *)
(* one command after another, until the next command that changes          *)
(* something: past calls given up on that are handled late, past a signal  *)
(* and a new start, past attempts to start dbd twice; not past a crash, or *)
(* an exit one of whose saves fails or is skipped (simplejsondb.cpp:165).  *)
(* The other exceptions are writes to the root and below a value, which    *)
(* change nothing and exit 0 too (dbtree.cpp:229, dbtree.cpp:264), and     *)
(* writes to databases whose name is no uuid, which a start does not load. *)
(***************************************************************************)
ReportedIsShown ==
    (reported.is = "write" /\ Cardinality(Clients) = 1) =>
        LET call == reported.call IN
        \/ call.at = <<>> \/ Blocked(Shown, Front(call.at))
        \/ ReadAnswer(Shown, call.at) = call.value

(***************************************************************************)
(* db-ls, db-read, db-nodes and db-exists show the same tree, though each  *)
(* asks for it, and words its values, in its own way.  The exception is a  *)
(* null that was asked for, which db-ls shows as it shows no value         *)
(* (db-ls/main.cpp:176), and arrays, which it leaves out.                  *)
(***************************************************************************)
ToolsAgree ==
    \A p \in DOMAIN Shown \cup {r.at : r \in Requests} :
        LET lines == LsPrints(DumpAnswer(Shown, p)) IN
        /\ \A q \in DOMAIN lines :
             lines[q][2] = ReadAnswer(Shown, p \o q) \/ (q = <<>> /\ Shown[p] = Null)
        /\ ListAnswer(Shown, p) =
             {Last(q) : q \in {q \in DOMAIN lines : Len(q) = 1}} \cup
             {k \in ListAnswer(Shown, p) : IsArray(Shown[Append(p, k)])}
        /\ ~Found(Shown, p) => lines = Leaf(Quoted(""))

(***************************************************************************)
(* A db-inject that exits 1 may have been served, or may be yet.  Running  *)
(* it again changes nothing but arrays, which are appended (dbtree.cpp:422)*)
(* and are what the retry doubles.                                         *)
(***************************************************************************)
InjectingAgainIsSafe ==
    \A r \in Requests :
        (r.method = "inject" /\ Doable(r)) =>
            LET once == After(r, Shown)
                twice == After(r, once) IN
            /\ DOMAIN twice = DOMAIN once
            /\ \A q \in DOMAIN once : twice[q] = once[q] \/ IsArray(once[q])
=============================================================================
