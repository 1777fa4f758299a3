---------------------------------- MODULE Dbd ----------------------------------
(***************************************************************************)
(* dbd as processes (src/app/dbd/main.cpp): several may be started on one  *)
(* database directory, and what keeps them apart is that one connection    *)
(* only can own the service name on the bus.  Clients call the owner of    *)
(* the name; their calls wait in its connection until its event loop runs, *)
(* and are answered with an error by the bus if the owner goes away.       *)
(*                                                                         *)
(* A request is what Trees says a client sees it do, and a save may come   *)
(* in the middle of it or at any time after: DBTree and SimpleJsonDB have  *)
(* the details.                                                            *)
(***************************************************************************)
EXTENDS Answers, FiniteSets

CONSTANTS
    Daemons,  \* the processes started as dbd, one after the other for each
    Clients,  \* the processes that call them
    Nobody,   \* no process
    Requests, \* what they ask: a method, a path, and a text if it takes one
    FromJson, \* the trees the texts stand for that are well-formed
    MaxCalls, \* the calls that may wait (a bound)
    MaxElements  \* the elements an array may have (a bound)

Changing == {"write", "inject", "rm"}

ASSUME NobodyAssumption == Nobody \notin Daemons \cup Clients

\* Requests at vm and dom-store, and values in the place of a database, are
\* left to DBTree.
ASSUME RequestsAssumption ==
    \A r \in Requests :
        /\ r.at \in Paths
        /\ r.method \in Changing => r.at \notin {<<k>> : k \in Tops} /\ DbOf(r.at) \in AllDbs
        /\ r.method = "write" => r.at \notin DbPaths

ASSUME JsonAssumption == \A text \in DOMAIN FromJson : IsObject(FromJson[text])

VARIABLES
    stage,     \* how far each dbd has come in main()
    signalled, \* those that were sent a signal to quit
    owner,     \* of the service name
    mem,       \* the tree of each dbd
    files,     \* the tree in the file of each database
    toForce,   \* the databases exitCleanup() has still to see to, in each dbd
    calls,     \* the calls in the connection of the owner
    reply      \* to each client's last call

dbdVars == <<stage, signalled, owner, mem, files, toForce, calls, reply>>

Loaded(d) == stage[d] \in {"loaded", "serving", "quitting", "exiting"}
Goes(d, next) == stage' = [stage EXCEPT ![d] = next]

\* mainDb, vmsDbs and domstoreDbs
Dbs(d) == {Main} \cup (DbPaths \cap DOMAIN mem[d])

-----------------------------------------------------------------------------
(* Replies                                                                 *)

Idle == [is |-> "idle"]
Waiting == [is |-> "waiting"]
Failed == [is |-> "error"]
Value(v) == [is |-> "value", value |-> v]

Replies(to, r) == [c \in Clients |-> IF c = to THEN r ELSE reply[c]]

\* The bus gives up the name and answers those who wait for its owner.
OwnerGone(d) ==
    IF owner = d
    THEN /\ owner' = Nobody
         /\ calls' = <<>>
         /\ reply' = [c \in Clients |-> IF reply[c] = Waiting THEN Failed ELSE reply[c]]
    ELSE UNCHANGED <<owner, calls, reply>>

-----------------------------------------------------------------------------
(* main(), up to the event loop                                            *)

\* The handlers of the signals are in place.
Launch(d) ==
    /\ stage[d] = "none" /\ Goes(d, "started")
    /\ UNCHANGED <<signalled, owner, mem, files, toForce, calls, reply>>

Ends(d) ==
    /\ Goes(d, "none")
    /\ mem' = [mem EXCEPT ![d] = EmptyObject]
    /\ toForce' = [toForce EXCEPT ![d] = {}]
    /\ signalled' = signalled \ {d}

\* exit(1)
NoBus(d) ==
    /\ stage[d] = "started" /\ Ends(d)
    /\ UNCHANGED <<owner, files, calls, reply>>

\* exit(2)
AlreadyRunning(d) ==
    /\ stage[d] = "started" /\ owner # Nobody /\ Ends(d)
    /\ UNCHANGED <<owner, files, calls, reply>>

\* Mutant: what registerService() returns is ignored.
RegisterAnyhow(d) ==
    /\ stage[d] = "started" /\ Goes(d, "owner")
    /\ owner' = IF owner = Nobody THEN d ELSE owner
    /\ UNCHANGED <<signalled, mem, files, toForce, calls, reply>>

RegisterService(d) ==
    /\ stage[d] = "started" /\ Goes(d, "owner")
    /\ owner = Nobody /\ owner' = d
    /\ UNCHANGED <<signalled, mem, files, toForce, calls, reply>>

LoadTree(d) ==
    /\ stage[d] = "owner" /\ Goes(d, "loaded")
    /\ mem' = [mem EXCEPT ![d] = TreeOf(files)]
    /\ UNCHANGED <<signalled, owner, files, toForce, calls, reply>>

\* Mutant: once a signal has come the event loop is not entered, though nothing
\* else makes dbd exit.
ListenUnlessSignalled(d) ==
    /\ stage[d] = "loaded" /\ d \notin signalled /\ Goes(d, "serving")
    /\ UNCHANGED <<signalled, owner, mem, files, toForce, calls, reply>>

\* registerObject(), connect() and exec(); quit() called before is forgotten.
Listen(d) ==
    /\ stage[d] = "loaded" /\ Goes(d, "serving")
    /\ UNCHANGED <<signalled, owner, mem, files, toForce, calls, reply>>

-----------------------------------------------------------------------------
(* The event loop                                                          *)

\* The methods of Db, by what they answer and what they leave.
Answer(r, t) ==
    CASE r.method = "read"   -> ReadAnswer(t, r.at)
      [] r.method = "list"   -> ListAnswer(t, r.at)
      [] r.method = "dump"   -> DumpAnswer(t, r.at)
      [] r.method = "exists" -> Found(t, r.at)
      [] OTHER               -> ""

After(r, t) ==
    IF r.at = <<>> THEN t
    ELSE CASE r.method = "write"  -> Written(t, r.at, String(r.value))
           [] r.method = "inject" -> Merged(t, r.at, FromJson[r.value])
           [] r.method = "rm"     -> Cut(t, r.at)
           [] OTHER               -> t

\* Mutant: the file of a database that is removed is left.
FilesKept(r, t) == files

\* A whole database that is removed leaves no file.
FilesAfter(r, t) ==
    IF r.method = "rm" /\ r.at \in DbPaths \cap DOMAIN t
    THEN [files EXCEPT ![r.at] = NoFile] ELSE files

\* What there is, at one time or another, of the database a request changes
\* while it changes it.
Changed(r) == IF r.method = "write" THEN DbOf(Front(r.at)) ELSE DbOf(r.at)
Midway(r, t) ==
    IF r.at = <<>> THEN {}
    ELSE CASE r.method = "write"  -> OnTheWay(t, Front(r.at))
           [] r.method = "inject" -> OnTheWay(t, r.at)
           [] r.method = "rm"     -> IF r.at \in DbPaths THEN {} ELSE {Emptied(t, r.at)}
           [] OTHER               -> {}

\* The flush thread may save that.
FilesMeanwhile(r, t) ==
    {[files EXCEPT ![Changed(r)] = FileOf(Part(m, Changed(r)))] : m \in Midway(r, t)}

Bounded(t) == \A q \in DOMAIN t : IsArray(t[q]) => Len(t[q]) <= MaxElements + 1

Refusable(r) == r.method # "read_binary"
Doable(r) == r.method = "inject" => r.value \in DOMAIN FromJson

\* Mutant: the event loop runs before the tree is loaded.
ReachableEarly(d) == stage[d] \in {"owner", "loaded", "serving", "quitting"}

\* There is an object to call, and an event loop to take the calls.
Reachable(d) == stage[d] \in {"serving", "quitting"}

\* A call is refused, or answered when all it does is done.
Handle(d) ==
    /\ Reachable(d) /\ owner = d /\ calls # <<>>
    /\ LET call == Head(calls)
           r == call.request IN
       /\ calls' = Tail(calls)
       /\ \/ /\ Refusable(r)
             /\ reply' = Replies(call.from, Failed)
             /\ UNCHANGED <<mem, files>>
          \/ /\ Doable(r) /\ Bounded(After(r, mem[d]))
             /\ reply' = Replies(call.from, Value(Answer(r, mem[d])))
             /\ mem' = [mem EXCEPT ![d] = After(r, mem[d])]
             /\ files' \in {FilesAfter(r, mem[d])} \cup FilesMeanwhile(r, mem[d])
    /\ UNCHANGED <<stage, signalled, owner, toForce>>

Saved(d, b) == files[b] = FileOf(Part(mem[d], b))

\* A flush that is due.
Save(d, b) ==
    /\ stage[d] \in {"serving", "quitting", "exiting"} /\ b \in Dbs(d) /\ ~Saved(d, b)
    /\ files' = [files EXCEPT ![b] = FileOf(Part(mem[d], b))]
    /\ UNCHANGED <<stage, signalled, owner, mem, toForce, calls, reply>>

(***************************************************************************)
(* exitHandler(): quit() ends the event loop.  It has no effect before the *)
(* loop runs, and none once it has ended.                                  *)
(***************************************************************************)
Signal(d) ==
    /\ stage[d] # "none" /\ (d \notin signalled \/ stage[d] = "serving")
    /\ signalled' = signalled \cup {d}
    /\ IF stage[d] = "serving" THEN Goes(d, "quitting") ELSE UNCHANGED stage
    /\ UNCHANGED <<owner, mem, files, toForce, calls, reply>>

-----------------------------------------------------------------------------
(* exitCleanup()                                                           *)

\* Mutant: the hashes are not gone through.
MainDbOnly(d) == {Main}

\* The databases whose pending flush is forced.
ToForce(d) == Dbs(d)

\* exec() returns, once the events at hand are dealt with.
Exit(d) ==
    /\ stage[d] = "quitting" /\ Goes(d, "exiting")
    /\ toForce' = [toForce EXCEPT ![d] = ToForce(d)]
    /\ UNCHANGED <<signalled, owner, mem, files, calls, reply>>

\* One call for each database, the main one first.
Forces(d, b) ==
    /\ stage[d] = "exiting" /\ b \in toForce[d]
    /\ b # Main => Main \notin toForce[d]
    /\ toForce' = [toForce EXCEPT ![d] = @ \ {b}]
    /\ UNCHANGED <<stage, signalled, owner, mem, calls, reply>>

ForcePendingFlush(d, b) ==
    Forces(d, b) /\ files' = [files EXCEPT ![b] = FileOf(Part(mem[d], b))]

\* The save fails, or is skipped, or one that failed before is not pending.
ForceInVain(d, b) ==
    Forces(d, b) /\ ~Saved(d, b) /\ UNCHANGED files

\* main() returns, whatever has become of the flushes.
End(d) ==
    /\ stage[d] = "exiting" /\ toForce[d] = {}
    /\ Ends(d) /\ OwnerGone(d) /\ UNCHANGED files

\* The process is killed.
Crash(d) ==
    /\ stage[d] # "none"
    /\ Ends(d) /\ OwnerGone(d) /\ UNCHANGED files

-----------------------------------------------------------------------------
(* Clients                                                                 *)

\* asyncCallWithArgumentList(): without an owner the bus answers.
Send(c, r) ==
    /\ reply[c] # Waiting /\ Len(calls) < MaxCalls
    /\ IF owner = Nobody
       THEN reply' = Replies(c, Failed) /\ UNCHANGED calls
       ELSE /\ reply' = Replies(c, Waiting)
            /\ calls' = Append(calls, [from |-> c, request |-> r])
    /\ UNCHANGED <<stage, signalled, owner, mem, files, toForce>>

(***************************************************************************)
(* A client waits for so long only.  Its call stays where it is, and is    *)
(* still handled in its turn.                                              *)
(***************************************************************************)
Timeout(c) ==
    /\ reply[c] = Waiting
    /\ reply' = Replies(c, Failed)
    /\ calls' = [i \in DOMAIN calls |->
                  IF calls[i].from = c THEN [calls[i] EXCEPT !.from = Nobody] ELSE calls[i]]
    /\ UNCHANGED <<stage, signalled, owner, mem, files, toForce>>

-----------------------------------------------------------------------------
DbdInit ==
    /\ stage = [d \in Daemons |-> "none"]
    /\ signalled = {} /\ owner = Nobody
    /\ mem = [d \in Daemons |-> EmptyObject]
    /\ files = [b \in AllDbs |-> NoFile]
    /\ toForce = [d \in Daemons |-> {}]
    /\ calls = <<>>
    /\ reply = [c \in Clients |-> Idle]

StartsUp(d) ==
    NoBus(d) \/ AlreadyRunning(d) \/ RegisterService(d) \/ LoadTree(d) \/ Listen(d)

DbdStep(d) ==
    \/ Launch(d) \/ StartsUp(d)
    \/ Handle(d) \/ (\E b \in AllDbs : Save(d, b))
    \/ Signal(d) \/ Exit(d) \/ (\E b \in AllDbs : ForcePendingFlush(d, b)) \/ End(d)

\* What is not saved is lost for good.
Loses(d) == (\E b \in AllDbs : ForceInVain(d, b)) \/ Crash(d)

DbdNext ==
    \/ \E d \in Daemons : DbdStep(d) \/ Loses(d)
    \/ \E c \in Clients : Timeout(c) \/ (\E r \in Requests : Send(c, r))

(***************************************************************************)
(* The start-up, the event loop and the exit go on.  Nobody has to start   *)
(* or stop a process, call it or lose patience with it.                    *)
(***************************************************************************)
DbdFairness ==
    \A d \in Daemons :
        /\ WF_dbdVars(StartsUp(d))
        /\ WF_dbdVars(Handle(d))
        /\ WF_dbdVars(Exit(d))
        /\ WF_dbdVars(\E b \in AllDbs : ForcePendingFlush(d, b))
        /\ WF_dbdVars(End(d))

DbdSpec == DbdInit /\ [][DbdNext]_dbdVars /\ DbdFairness

-----------------------------------------------------------------------------
(* What the processes promise.                                             *)

(***************************************************************************)
(* One process at a time has the tree of the directory, from before it     *)
(* reads the files until it has written them for the last time: what keeps *)
(* a second one out is the name alone, which it asks for before it reads   *)
(* (main.cpp:161).                                                         *)
(***************************************************************************)
OneServer ==
    \A d, e \in Daemons : (Loaded(d) /\ Loaded(e)) => d = e

\* The tree of the process that has it, or of none.
Served ==
    IF \E d \in Daemons : Loaded(d)
    THEN mem[CHOOSE d \in Daemons : Loaded(d)] ELSE EmptyObject

Asked(method) == {r \in Requests : r.method = method /\ r.at # <<>>}

Store == INSTANCE TreeStore WITH
    up <- \E d \in Daemons : Loaded(d),
    shown <- Served,
    saved <- files,
    Values <- {String(r.value) : r \in Asked("write")},
    WritePaths <- {r.at : r \in Asked("write")},
    RmPaths <- {r.at : r \in Asked("rm")},
    Injections <- {[path |-> r.at, value |-> FromJson[r.value]] :
                   r \in {r \in Asked("inject") : Doable(r)}}

(***************************************************************************)
(* However often dbd is started, stopped, killed or started twice, its     *)
(* clients see one store: a process shows at its start what the last one   *)
(* has saved, nobody saves but who shows, and a save is of what is shown.  *)
(***************************************************************************)
ServesOneStore == Store!Spec

(***************************************************************************)
(* Every caller gets a reply in the end, without a timeout: from the one   *)
(* it called, though that was starting up, or from the bus if it is gone.  *)
(***************************************************************************)
CallersReturn ==
    \A c \in Clients : (reply[c] = Waiting) ~> (reply[c] # Waiting)

(***************************************************************************)
(* A signal makes dbd quit, as the handlers are meant to (main.cpp:137,    *)
(* "setup exit handler") and report (main.cpp:48).                         *)
(***************************************************************************)
SignalsQuit ==
    \A d \in Daemons : (d \in signalled) ~> (stage[d] = "none")
=============================================================================
