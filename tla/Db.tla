--------------------------------- MODULE Db ---------------------------------
(***************************************************************************)
(* The D-Bus front end of qtdbd (src/db.cpp) over the tree of DBTree.      *)
(*                                                                         *)
(* Each call names a path.  For domain 0 it is a path of the tree, for a   *)
(* guest one below dom-store/<uuid>, where the uuid is looked up in        *)
(* xenstore for the calling domain.  Both lookups may fail: that of the    *)
(* domain refuses the call, that of the uuid leaves an empty name.         *)
(*                                                                         *)
(* The main thread serves one call at a time and blocks in the lookups, so *)
(* that a call is one step.                                                *)
(***************************************************************************)
EXTENDS DBTree, Answers

CONSTANTS
    Guests,         \* the domains other than 0
    UuidOf,         \* their uuids
    ValuesOf,       \* the values each domain writes
    LookupSenderId, \* FALSE if dbd runs with --skip-domid-lookup
    ReadPaths       \* the paths that are read

Domains == {0} \cup Guests
NoName == ""

ASSUME GuestsAssumption == 0 \notin Guests
ASSUME UuidAssumption ==
    /\ UuidOf \in [Guests -> Uuids] /\ IsInjective(UuidOf)
    /\ NoName \in Names \ Uuids
    /\ "dom-store" \in Tops
ASSUME ReadPathsAssumption == ReadPaths \subseteq Paths
ASSUME ValuesOfAssumption == ValuesOf \in [Domains -> SUBSET Values]

VARIABLE answer  \* to the last call: to whom, for which call, at which path, and what

treeVars == <<up, memVars, diskVars>>
dbVars == <<treeVars, answer>>

-----------------------------------------------------------------------------
\* Mutant: the key is looked up in dom-store without the name of the caller.
SenderPathsUnnamed(d, p) ==
    IF d = 0 \/ ~LookupSenderId THEN {p} ELSE {<<"dom-store">> \o p}

\* Mutant: no lookup is taken for a lookup that says 0.
SenderPathsUnrooted(d, p) ==
    IF d = 0 \/ ~LookupSenderId THEN {p} ELSE {p, <<"dom-store", UuidOf[d]>> \o p}

\* senderPathSplit(), with what getUuidFromDomId() may return.
SenderPaths(d, p) ==
    IF d = 0 \/ ~LookupSenderId THEN {p}
    ELSE {<<"dom-store", name>> \o p : name \in {UuidOf[d], NoName}}

Reply(d, call, p, value) == answer' = [to |-> d, call |-> call, at |-> p, is |-> value]

\* sendErrorReply()
Refused(d) == Reply(d, "any", <<>>, "error")

\* getSenderDomId() fails: an error reply, whatever the call.
NoDomId(d) ==
    /\ up /\ LookupSenderId
    /\ Refused(d)
    /\ UNCHANGED treeVars

-----------------------------------------------------------------------------
(* Calls that read.                                                        *)

Reads(d) ==
    /\ up
    /\ \E p \in ReadPaths : \E q \in SenderPaths(d, p) :
         \/ Reply(d, "read", q, ReadAnswer(tree, q))
         \/ Reply(d, "list", q, ListAnswer(tree, q))
         \/ Reply(d, "dump", q, DumpAnswer(tree, q))
         \/ Reply(d, "exists", q, Found(tree, q))
    /\ UNCHANGED treeVars

-----------------------------------------------------------------------------
(* Calls that answer nothing.                                              *)

Done(d) == Reply(d, "done", <<>>, "")

\* read_binary() looks at nothing, not even at who calls, and returns nothing.
ReadBinary(d) == up /\ Done(d) /\ UNCHANGED treeVars

\* The root is neither written, merged into nor removed.
RootIgnored(q) == up /\ q = <<>> /\ UNCHANGED treeVars

Write(d) ==
    \E p \in WritePaths, v \in ValuesOf[d] : \E q \in SenderPaths(d, p) :
        /\ RootIgnored(q) \/ (q # <<>> /\ SetValue(q, v))
        /\ Done(d)

Inject(d) ==
    \E i \in Injections : \E q \in SenderPaths(d, i.path) :
        /\ RootIgnored(q) \/ (q # <<>> /\ MergeValue(q, i.value))
        /\ Done(d)

\* fromJson() makes nothing of what is to be injected.
InvalidJson(d) ==
    /\ up /\ Injections # {}
    /\ Refused(d)
    /\ UNCHANGED treeVars

\* rmValue() finds no database, or no object to remove the key from.
NothingToRemove(q) ==
    /\ up /\ q # <<>>
    /\ ~(/\ DbOf(q) \in {Main} \cup dbs
         /\ Front(q) \in DOMAIN tree
         /\ tree[Front(q)] = Object)
    /\ UNCHANGED treeVars

Rm(d) ==
    \E p \in RmPaths : \E q \in SenderPaths(d, p) :
        /\ RootIgnored(q) \/ NothingToRemove(q) \/ (q # <<>> /\ RmValue(q))
        /\ Done(d)

\* The slots of Db that registerObject exports; DbInterfaceAdaptor passes on
\* the same.
Call(d) ==
    \/ NoDomId(d) \/ Reads(d) \/ ReadBinary(d)
    \/ Write(d) \/ Inject(d) \/ InvalidJson(d) \/ Rm(d)

-----------------------------------------------------------------------------
NoAnswer == [to |-> 0, call |-> "none", at |-> <<>>, is |-> ""]

DbInit == Init /\ answer = NoAnswer

\* main(): the tree is loaded before the object is registered.
Serve == Start /\ answer' = NoAnswer

DbNext ==
    \/ Serve
    \/ (Stop \/ Crash) /\ UNCHANGED answer
    \/ \E d \in AllDbs : Save(d) /\ UNCHANGED answer
    \/ \E d \in Domains : Call(d)

DbSpec == DbInit /\ [][DbNext]_dbVars

-----------------------------------------------------------------------------
(* What the front end promises.                                            *)

Home(name) == <<"dom-store", name>>

\* What an answer shows of values.
Seen == IF answer.call = "read" THEN {answer.is}
        ELSE IF answer.call = "dump" THEN {ReadText(v) : v \in Range(answer.is)}
        ELSE {}

(***************************************************************************)
(* A guest is told nothing another guest has written, whatever both and    *)
(* domain 0 have written and removed before, in this run of dbd or in an   *)
(* earlier one.  The exception are calls whose uuid was not found: their   *)
(* callers share the nameless database (db.cpp:154).                       *)
(***************************************************************************)
AnswersAreOwn ==
    \A g \in Guests, h \in Guests \ {answer.to} :
        (LookupSenderId /\ answer.to = g /\ ~IsPrefix(Home(NoName), answer.at))
            => Seen \cap {ReadText(v) : v \in ValuesOf[h]} = {}

ApartFrom(home, t) ==
    [q \in {q \in DOMAIN t : ~IsPrefix(home, q) /\ q # <<"dom-store">>} |-> t[q]]

(***************************************************************************)
(* A call of a guest changes nothing outside dom-store/<uuid>, or outside  *)
(* the nameless database if its uuid was not found: not when its database  *)
(* has to be created on the way, nor when all of it is removed.            *)
(***************************************************************************)
GuestsKeepToHome ==
    [][\A g \in Guests : (LookupSenderId /\ up /\ up' /\ answer'.to = g)
        => \E name \in {UuidOf[g], NoName} :
             ApartFrom(Home(name), tree') = ApartFrom(Home(name), tree)]_dbVars

\* The requests of all domains, by the paths they have in the tree.
DbStore == INSTANCE TreeStore WITH
    shown <- tree,
    saved <- [d \in AllDbs |-> Stored(d)],
    WritePaths <- UNION {SenderPaths(d, p) : d \in Domains, p \in WritePaths},
    RmPaths <- UNION {SenderPaths(d, p) : d \in Domains, p \in RmPaths},
    Injections <- UNION {{[path |-> q, value |-> i.value] : q \in SenderPaths(d, i.path)} :
                         d \in Domains, i \in Injections}

(***************************************************************************)
(* The calls of all domains together work on one map from paths to values, *)
(* though each takes its part of it for the whole, and though the nameless *)
(* database is never loaded again (dbtree.cpp:93).                         *)
(***************************************************************************)
ServesTreeStore == DbStore!Spec
=============================================================================
