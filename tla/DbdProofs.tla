------------------------------- MODULE DbdProofs -------------------------------
(***************************************************************************)
(* Theorems about Dbd: for any number of processes, clients and databases, *)
(* and any requests, one process at a time has the tree, and all of them   *)
(* together are one store.  The argument is the name on the bus: whoever   *)
(* has come past registerService() is its owner until it ends.             *)
(***************************************************************************)
EXTENDS Dbd, SequenceTheorems, FiniteSetTheorems, TLAPS

-----------------------------------------------------------------------------
(* The name.                                                               *)

Stages == {"none", "started", "owner", "loaded", "serving", "quitting", "exiting"}
Named(d) == stage[d] \in {"owner", "loaded", "serving", "quitting", "exiting"}

\* Whoever has come past RegisterService owns the name.
NameInv ==
    /\ stage \in [Daemons -> Stages]
    /\ \A d \in Daemons : Named(d) => owner = d

LEMMA NameInit == DbdInit => NameInv
  BY DEF DbdInit, NameInv, Stages, Named

LEMMA NameStep == NameInv /\ [DbdNext]_dbdVars => NameInv'
<1> SUFFICES ASSUME NameInv, [DbdNext]_dbdVars PROVE NameInv'
  OBVIOUS
<1> USE NobodyAssumption DEF NameInv, Stages, Named, Goes
<1>1. ASSUME NEW d \in Daemons, DbdStep(d) PROVE NameInv'
  <2>1. CASE Launch(d) BY <2>1 DEF Launch
  <2>2. CASE NoBus(d) BY <2>2 DEF NoBus, Ends
  <2>3. CASE AlreadyRunning(d) BY <2>3 DEF AlreadyRunning, Ends
  <2>4. CASE RegisterService(d) BY <2>4 DEF RegisterService
  <2>5. CASE LoadTree(d) BY <2>5 DEF LoadTree
  <2>6. CASE Listen(d) BY <2>6 DEF Listen
  <2>7. CASE Handle(d) BY <2>7 DEF Handle
  <2>8. CASE \E b \in AllDbs : Save(d, b) BY <2>8 DEF Save
  <2>9. CASE Signal(d) BY <2>9 DEF Signal
  <2>10. CASE Exit(d) BY <2>10 DEF Exit
  <2>11. CASE \E b \in AllDbs : ForcePendingFlush(d, b)
    BY <2>11 DEF ForcePendingFlush, Forces
  <2>12. CASE End(d) BY <2>12 DEF End, Ends, OwnerGone
  <2> QED
    BY <1>1, <2>1, <2>2, <2>3, <2>4, <2>5, <2>6, <2>7, <2>8, <2>9, <2>10, <2>11, <2>12
    DEF DbdStep, StartsUp
<1>2. ASSUME NEW d \in Daemons, Loses(d) PROVE NameInv'
  BY <1>2 DEF Loses, ForceInVain, Forces, Crash, Ends, OwnerGone
<1>3. ASSUME NEW c \in Clients, Timeout(c) PROVE NameInv'
  BY <1>3 DEF Timeout
<1>4. ASSUME NEW c \in Clients, NEW r \in Requests, Send(c, r) PROVE NameInv'
  BY <1>4 DEF Send
<1>5. CASE UNCHANGED dbdVars
  BY <1>5 DEF dbdVars
<1> QED
  BY <1>1, <1>2, <1>3, <1>4, <1>5 DEF DbdNext

(***************************************************************************)
(* One process at a time has the tree of the directory, from LoadTree to   *)
(* End, however many are started, stopped and killed.                      *)
(***************************************************************************)
THEOREM OneProcessServes == DbdSpec => []OneServer
<1>1. NameInv => OneServer
  BY DEF NameInv, Named, OneServer, Loaded
<1> QED
  BY <1>1, NameInit, NameStep, PTL DEF DbdSpec

-----------------------------------------------------------------------------
(* What the store needs to know besides: the calls in the queue are calls, *)
(* and a process that has not loaded the tree has none.                    *)

Call == [from : Clients \cup {Nobody}, request : Requests]

Functions ==
    /\ mem = [d \in Daemons |-> mem[d]]
    /\ files = [b \in AllDbs |-> files[b]]
    /\ toForce = [d \in Daemons |-> toForce[d]]
Calls == calls \in Seq(Call)
Unloaded == \A d \in Daemons : ~Loaded(d) => mem[d] = EmptyObject

DbdInv == NameInv /\ Functions /\ Calls /\ Unloaded

LEMMA CallOfNobody ==
  ASSUME NEW s \in Seq(Call), NEW c
  PROVE  [i \in DOMAIN s |-> IF s[i].from = c THEN [s[i] EXCEPT !.from = Nobody] ELSE s[i]]
            \in Seq(Call)
<1> DEFINE f == [i \in DOMAIN s |->
                    IF s[i].from = c THEN [s[i] EXCEPT !.from = Nobody] ELSE s[i]]
<1>1. DOMAIN s = 1 .. Len(s) /\ Len(s) \in Nat /\ \A i \in DOMAIN s : s[i] \in Call
  OBVIOUS
<1>2. ASSUME NEW e \in Call PROVE [e EXCEPT !.from = Nobody] \in Call
  BY DEF Call
<1>3. \A i \in DOMAIN s :
        (IF s[i].from = c THEN [s[i] EXCEPT !.from = Nobody] ELSE s[i]) \in Call
  BY <1>1, <1>2
<1>4. f \in [1 .. Len(s) -> Call]
  BY <1>1, <1>3
<1>5. \E n \in Nat : f \in [1 .. n -> Call]
  BY <1>1, <1>4
<1> QED
  BY <1>5, SeqDef, Zenon

LEMMA DbdInitInv == DbdInit => DbdInv
  BY NameInit DEF DbdInit, DbdInv, Loaded, Functions, Calls, Unloaded

LEMMA CallsStep == Calls /\ [DbdNext]_dbdVars => Calls'
<1> SUFFICES ASSUME Calls, [DbdNext]_dbdVars PROVE Calls'
  OBVIOUS
<1> USE DEF Calls
<1>0. <<>> \in Seq(Call)
  OBVIOUS
<1>1. ASSUME NEW d \in Daemons, DbdStep(d) PROVE Calls'
  <2>1. CASE Handle(d)
    <3>1. calls # <<>> /\ calls' = Tail(calls)
      BY <2>1 DEF Handle
    <3> QED
      BY <3>1
  <2>2. CASE End(d)
    <3>1. OwnerGone(d)
      BY <2>2 DEF End
    <3> QED
      BY <3>1, <1>0 DEF OwnerGone
  <2>3. CASE \E b \in AllDbs : Save(d, b)
    BY <2>3 DEF Save
  <2>4. CASE Launch(d) \/ StartsUp(d) \/ Signal(d) \/ Exit(d)
    BY <2>4 DEF Launch, StartsUp, NoBus, AlreadyRunning, RegisterService, LoadTree,
                Listen, Signal, Exit
  <2>5. CASE \E b \in AllDbs : ForcePendingFlush(d, b)
    BY <2>5 DEF ForcePendingFlush, Forces
  <2> QED
    BY <1>1, <2>1, <2>2, <2>3, <2>4, <2>5 DEF DbdStep
<1>2. ASSUME NEW d \in Daemons, Loses(d) PROVE Calls'
  BY <1>2, <1>0 DEF Loses, ForceInVain, Forces, Crash, OwnerGone
<1>3. ASSUME NEW c \in Clients, Timeout(c) PROVE Calls'
  <2>1. calls' = [i \in DOMAIN calls |->
           IF calls[i].from = c THEN [calls[i] EXCEPT !.from = Nobody] ELSE calls[i]]
    BY <1>3, Zenon DEF Timeout
  <2>2. [i \in DOMAIN calls |->
           IF calls[i].from = c THEN [calls[i] EXCEPT !.from = Nobody] ELSE calls[i]]
        \in Seq(Call)
    BY CallOfNobody, Zenon
  <2> QED
    BY <2>1, <2>2, Zenon
<1>4. ASSUME NEW c \in Clients, NEW r \in Requests, Send(c, r) PROVE Calls'
  <2>1. [from |-> c, request |-> r] \in Call
    BY DEF Call
  <2>2. UNCHANGED calls \/ calls' = Append(calls, [from |-> c, request |-> r])
    BY <1>4 DEF Send
  <2> QED
    BY <2>1, <2>2
<1>5. CASE UNCHANGED dbdVars
  BY <1>5 DEF dbdVars
<1> QED
  BY <1>1, <1>2, <1>3, <1>4, <1>5 DEF DbdNext

LEMMA TreesStep ==
  NameInv /\ Functions /\ Unloaded /\ [DbdNext]_dbdVars => Functions' /\ Unloaded'
<1> SUFFICES ASSUME NameInv, Functions, Unloaded, [DbdNext]_dbdVars
             PROVE  Functions' /\ Unloaded'
  OBVIOUS
<1> USE DEF NameInv, Functions, Unloaded, Loaded, Goes
<1>1. ASSUME NEW d \in Daemons, Ends(d), UNCHANGED files PROVE Functions' /\ Unloaded'
  BY <1>1 DEF Ends
<1>2. ASSUME NEW d \in Daemons, DbdStep(d) PROVE Functions' /\ Unloaded'
  <2>1. CASE Launch(d) BY <2>1 DEF Launch
  <2>2. CASE NoBus(d) \/ AlreadyRunning(d) \/ End(d)
    BY <1>1, <2>2 DEF NoBus, AlreadyRunning, End
  <2>3. CASE RegisterService(d) BY <2>3 DEF RegisterService
  <2>4. CASE LoadTree(d) BY <2>4 DEF LoadTree
  <2>5. CASE Listen(d) BY <2>5 DEF Listen
  <2>6. CASE Handle(d)
    <3>1. Unloaded' /\ mem' = [e \in Daemons |-> mem'[e]] /\ UNCHANGED toForce
      BY <2>6 DEF Handle, Reachable
    <3>2. files' = [b \in AllDbs |-> files'[b]]
      <4>1. PICK t, r : files' \in {files, FilesAfter(r, t)} \cup FilesMeanwhile(r, t)
        BY <2>6 DEF Handle
      <4>2. files' = files \/ \E b, f : files' = [files EXCEPT ![b] = f]
        BY <4>1 DEF FilesAfter, FilesMeanwhile
      <4> QED
        BY <4>2
    <3> QED
      BY <3>1, <3>2
  <2>7. CASE \E b \in AllDbs : Save(d, b) BY <2>7 DEF Save
  <2>8. CASE Signal(d) BY <2>8 DEF Signal
  <2>9. CASE Exit(d) BY <2>9 DEF Exit
  <2>10. CASE \E b \in AllDbs : ForcePendingFlush(d, b)
    BY <2>10 DEF ForcePendingFlush, Forces
  <2> QED
    BY <1>2, <2>1, <2>2, <2>3, <2>4, <2>5, <2>6, <2>7, <2>8, <2>9, <2>10 DEF DbdStep, StartsUp
<1>3. ASSUME NEW d \in Daemons, Loses(d) PROVE Functions' /\ Unloaded'
  BY <1>1, <1>3 DEF Loses, ForceInVain, Forces, Crash
<1>4. ASSUME NEW c \in Clients, Timeout(c) \/ \E r \in Requests : Send(c, r)
      PROVE  Functions' /\ Unloaded'
  BY <1>4 DEF Timeout, Send
<1>5. CASE UNCHANGED dbdVars
  BY <1>5 DEF dbdVars
<1> QED
  BY <1>2, <1>3, <1>4, <1>5 DEF DbdNext

LEMMA DbdInvStep == DbdInv /\ [DbdNext]_dbdVars => DbdInv'
  BY NameStep, CallsStep, TreesStep DEF DbdInv

-----------------------------------------------------------------------------
(* A client has at most one call in the queue that it waits for.           *)

QueueInv ==
    /\ reply = [c \in Clients |-> reply[c]]
    /\ \A i \in DOMAIN calls : calls[i].from \in Clients => reply[calls[i].from] = Waiting
    /\ \A i, j \in DOMAIN calls :
         (calls[i].from \in Clients /\ calls[i].from = calls[j].from) => i = j

LEMMA LaterCalls ==
  ASSUME Calls, calls # <<>>
  PROVE  /\ Head(calls) = calls[1] /\ 1 \in DOMAIN calls /\ calls[1] \in Call
         /\ \A i \in DOMAIN Tail(calls) : i + 1 \in DOMAIN calls /\ Tail(calls)[i] = calls[i + 1]
                                          /\ i + 1 # 1
<1>1. calls \in Seq(Call)
  BY DEF Calls
<1>2. Len(calls) \in Nat \ {0} /\ DOMAIN calls = 1 .. Len(calls)
  BY <1>1
<1>3. /\ Tail(calls) \in Seq(Call) /\ Len(Tail(calls)) = Len(calls) - 1
      /\ \A i \in 1 .. Len(Tail(calls)) : Tail(calls)[i] = calls[i + 1]
  BY <1>1, HeadTailProperties
<1>4. DOMAIN Tail(calls) = 1 .. (Len(calls) - 1)
  BY <1>3
<1> QED
  BY <1>1, <1>2, <1>3, <1>4

\* A process ends: its callers are answered.
LEMMA QueueGone ==
  ASSUME QueueInv, NEW d \in Daemons, OwnerGone(d) PROVE QueueInv'
<1>1. CASE owner = d
  <2>1. /\ calls' = <<>>
        /\ reply' = [c \in Clients |-> IF reply[c] = Waiting THEN Failed ELSE reply[c]]
    BY <1>1 DEF OwnerGone
  <2>2. DOMAIN <<>> = {}
    OBVIOUS
  <2> QED
    BY <2>1, <2>2 DEF QueueInv
<1>2. CASE owner # d
  BY <1>2 DEF OwnerGone, QueueInv
<1> QED
  BY <1>1, <1>2

LEMMA QueueHandle ==
  ASSUME QueueInv, Calls, NEW d \in Daemons, Handle(d) PROVE QueueInv'
<1>1. calls # <<>> /\ calls' = Tail(calls)
  BY DEF Handle
<1>2. \E answer : reply' = Replies(Head(calls).from, answer)
  BY DEF Handle
<1>3. PICK answer :
        reply' = [c \in Clients |-> IF c = calls[1].from THEN answer ELSE reply[c]]
  BY <1>1, <1>2, LaterCalls DEF Replies
<1>4. \A i \in DOMAIN calls' : i + 1 \in DOMAIN calls /\ calls'[i] = calls[i + 1] /\ i + 1 # 1
  BY <1>1, LaterCalls
<1>5. \A i \in DOMAIN calls' :
        calls'[i].from \in Clients =>
            calls'[i].from # calls[1].from /\ reply'[calls'[i].from] = Waiting
  BY <1>1, <1>3, <1>4, LaterCalls DEF QueueInv
<1>6. \A i \in DOMAIN calls' : i \in Nat
  BY <1>1 DEF Calls
<1>7. \A i, j \in DOMAIN calls' :
        (calls'[i].from \in Clients /\ calls'[i].from = calls'[j].from) => i = j
  BY <1>4, <1>6 DEF QueueInv
<1> QED
  BY <1>3, <1>5, <1>7 DEF QueueInv

LEMMA QueueSend ==
  ASSUME QueueInv, Calls, NEW c \in Clients, NEW r \in Requests, Send(c, r)
  PROVE  QueueInv'
<1>1. reply[c] # Waiting
  BY DEF Send
<1>2. \A i \in DOMAIN calls : calls[i].from # c
  BY <1>1 DEF QueueInv
<1>3. CASE owner = Nobody
  <2>1. UNCHANGED calls /\ reply' = [e \in Clients |-> IF e = c THEN Failed ELSE reply[e]]
    BY <1>3 DEF Send, Replies
  <2> QED
    BY <1>2, <2>1 DEF QueueInv
<1>4. CASE owner # Nobody
  <2>1. /\ calls' = Append(calls, [from |-> c, request |-> r])
        /\ reply' = [e \in Clients |-> IF e = c THEN Waiting ELSE reply[e]]
    BY <1>4 DEF Send, Replies
  <2>2. \A i \in DOMAIN calls' :
          \/ i \in DOMAIN calls /\ calls'[i] = calls[i] /\ calls[i].from # c
          \/ i = Len(calls) + 1 /\ calls'[i].from = c
    BY <1>2, <2>1 DEF Calls
  <2> QED
    BY <2>1, <2>2 DEF QueueInv
<1> QED
  BY <1>3, <1>4

LEMMA GivenUp ==
  ASSUME Calls, NEW c \in Clients, Timeout(c)
  PROVE  /\ DOMAIN calls' = DOMAIN calls
         /\ \A i \in DOMAIN calls :
              /\ calls'[i].request = calls[i].request
              /\ calls'[i].from = IF calls[i].from = c THEN Nobody ELSE calls[i].from
<1>1. calls' = [i \in DOMAIN calls |->
        IF calls[i].from = c THEN [calls[i] EXCEPT !.from = Nobody] ELSE calls[i]]
  BY Zenon DEF Timeout
<1>2. \A i \in DOMAIN calls : calls[i] \in Call
  BY DEF Calls
<1>3. \A e \in Call : /\ [e EXCEPT !.from = Nobody].from = Nobody
                      /\ [e EXCEPT !.from = Nobody].request = e.request
  BY DEF Call
<1> QED
  BY <1>1, <1>2, <1>3

LEMMA QueueTimeout ==
  ASSUME QueueInv, Calls, NEW c \in Clients, Timeout(c) PROVE QueueInv'
<1>1. reply' = [e \in Clients |-> IF e = c THEN Failed ELSE reply[e]]
  BY DEF Timeout, Replies
<1>2. Nobody \notin Clients
  BY NobodyAssumption
<1> QED
  BY <1>1, <1>2, GivenUp DEF QueueInv

LEMMA QueueStep == QueueInv /\ Calls /\ [DbdNext]_dbdVars => QueueInv'
<1> SUFFICES ASSUME QueueInv, Calls, [DbdNext]_dbdVars PROVE QueueInv'
  OBVIOUS
<1>1. ASSUME UNCHANGED <<calls, reply>> PROVE QueueInv'
  BY <1>1 DEF QueueInv
<1>2. ASSUME NEW d \in Daemons, DbdStep(d) PROVE QueueInv'
  <2>1. CASE Handle(d)
    BY <2>1, QueueHandle
  <2>2. CASE End(d)
    BY <2>2, QueueGone DEF End
  <2>3. CASE \E b \in AllDbs : Save(d, b) \/ ForcePendingFlush(d, b)
    BY <1>1, <2>3 DEF Save, ForcePendingFlush, Forces
  <2>4. CASE Launch(d) \/ StartsUp(d) \/ Signal(d) \/ Exit(d)
    BY <1>1, <2>4 DEF Launch, StartsUp, NoBus, AlreadyRunning, RegisterService, LoadTree,
                      Listen, Signal, Exit
  <2> QED
    BY <1>2, <2>1, <2>2, <2>3, <2>4 DEF DbdStep
<1>3. ASSUME NEW d \in Daemons, Loses(d) PROVE QueueInv'
  <2>1. CASE \E b \in AllDbs : ForceInVain(d, b)
    BY <1>1, <2>1 DEF ForceInVain, Forces
  <2> QED
    BY <1>3, <2>1, QueueGone DEF Loses, Crash
<1>4. ASSUME NEW c \in Clients, Timeout(c) \/ \E r \in Requests : Send(c, r)
      PROVE  QueueInv'
  BY <1>4, QueueTimeout, QueueSend
<1>5. CASE UNCHANGED dbdVars
  BY <1>1, <1>5 DEF dbdVars
<1> QED
  BY <1>2, <1>3, <1>4, <1>5 DEF DbdNext

LEMMA QueueInit == DbdInit => QueueInv
<1> SUFFICES ASSUME DbdInit PROVE QueueInv
  OBVIOUS
<1>1. DOMAIN calls = {}
  BY DEF DbdInit
<1> QED
  BY <1>1 DEF DbdInit, QueueInv

-----------------------------------------------------------------------------
(* What is served, by whom.                                                *)

Up == \E d \in Daemons : Loaded(d)

LEMMA ServedBy ==
  ASSUME NameInv, NEW d \in Daemons, Loaded(d)
  PROVE  Served = mem[d] /\ \A e \in Daemons : Loaded(e) => e = d
<1>1. \A e \in Daemons : Loaded(e) => e = d
  BY DEF NameInv, Named, Loaded
<1> QED
  BY <1>1 DEF Served

LEMMA ServedByNobody ==
  ASSUME ~Up PROVE Served = EmptyObject
  BY DEF Up, Served

LEMMA ServedNext ==
  ASSUME NameInv', NEW d \in Daemons, Loaded(d)'
  PROVE  Served' = mem'[d] /\ Up'
<1>1. \A e \in Daemons : Loaded(e)' => e = d
  BY DEF NameInv, Named, Loaded
<1> QED
  BY <1>1 DEF Served, Up

LEMMA NobodyNext ==
  ASSUME ~Up' PROVE Served' = EmptyObject
  BY DEF Up, Served

StoreStep == Store!Next \/ UNCHANGED Store!storeVars

\* Nothing the store shows or has saved is touched.
LEMMA Quiet ==
  ASSUME NameInv, NameInv', UNCHANGED files,
         \A d \in Daemons : Loaded(d)' = Loaded(d) /\ (Loaded(d) => mem'[d] = mem[d])
  PROVE  StoreStep
<1>1. Up' = Up
  BY DEF Up
<1>2. CASE Up
  <2>1. PICK d \in Daemons : Loaded(d)
    BY <1>2 DEF Up
  <2>2. Served' = Served
    BY <2>1, ServedBy, ServedNext
  <2> QED
    BY <1>1, <2>2 DEF StoreStep, Store!storeVars, Up
<1>3. CASE ~Up
  <2>1. Served' = Served
    BY <1>1, <1>3, ServedByNobody, NobodyNext
  <2> QED
    BY <1>1, <2>1 DEF StoreStep, Store!storeVars, Up
<1> QED
  BY <1>2, <1>3

-----------------------------------------------------------------------------
(* TreeStore takes the same databases as Dbd, so that what Trees defines   *)
(* is the same in both.                                                    *)

LEMMA SameNames ==
  /\ Store!Object = Object /\ Store!EmptyObject = EmptyObject
  /\ Store!Main = Main /\ Store!DbPaths = DbPaths
  BY DEF Store!Object, Object, Store!EmptyObject, EmptyObject, Store!Main, Main,
         Store!DbPaths, DbPaths

LEMMA SameDbs == Store!AllDbs = AllDbs
  BY SameNames DEF Store!AllDbs, AllDbs

LEMMA SameLasting == Store!Lasting = Lasting
  BY SameNames, SameDbs DEF Store!Lasting, Lasting

LEMMA SameContent ==
  ASSUME NEW f
  PROVE  Store!FileOf(f) = FileOf(f) /\ Store!Content(f) = Content(f)
  BY SameNames DEF Store!FileOf, FileOf, Store!Content, Content

LEMMA SamePaths ==
  ASSUME NEW p, NEW q
  PROVE  (Store!IsPrefix(p, q) <=> IsPrefix(p, q)) /\ Store!Front(p) = Front(p)
  BY DEF Store!IsPrefix, IsPrefix, Store!Front, Front

LEMMA SameBelow ==
  ASSUME NEW t, NEW p
  PROVE  Store!Rest(t, p) = Rest(t, p) /\ Store!Below(t, p) = Below(t, p)
  BY DEF Store!Rest, Rest, Store!Below, Below, Store!IsPrefix, IsPrefix

LEMMA SameAt ==
  ASSUME NEW t, NEW p
  PROVE  Store!At(t, p) = At(t, p) /\ Store!Cut(t, p) = Cut(t, p)
  BY SameBelow DEF Store!At, At, Store!Cut, Cut

LEMMA SameMainPart ==
  ASSUME NEW t
  PROVE  Store!MainPart(t) = MainPart(t)
  BY DEF Store!MainPart, MainPart

LEMMA SamePart ==
  ASSUME NEW t, NEW d
  PROVE  Store!Part(t, d) = Part(t, d)
  BY SameNames, SameAt, SameMainPart DEF Store!Part, Part

LEMMA SameDbOf ==
  ASSUME NEW p
  PROVE  Store!DbOf(p) = DbOf(p)
  BY SameNames DEF Store!DbOf, DbOf

LEMMA SameTreeOf ==
  ASSUME NEW f
  PROVE  Store!TreeOf(f) = TreeOf(f)
<1> DEFINE loaded == {d \in DbPaths \cap Lasting : f[d] # NoFile}
           main == Content(f[Main])
           tops == {<<d[1]>> : d \in loaded}
           children == UNION {{d \o q : q \in DOMAIN f[d]} : d \in loaded}
<1>1. TreeOf(f) = [q \in DOMAIN main \cup tops \cup children |->
        IF q \in children THEN f[DbOf(q)][Rest(DbOf(q), q)]
        ELSE IF q \in tops THEN Object
        ELSE main[q]]
  BY DEF TreeOf
<1>2. Store!TreeOf(f) = [q \in DOMAIN main \cup tops \cup children |->
        IF q \in children THEN f[Store!DbOf(q)][Store!Rest(Store!DbOf(q), q)]
        ELSE IF q \in tops THEN Object
        ELSE main[q]]
  <2>1. Store!DbPaths = DbPaths /\ Store!Lasting = Lasting /\ Store!Main = Main
        /\ Store!Object = Object /\ Store!Content(f[Main]) = main
    BY SameNames, SameLasting, SameContent
  <2> HIDE DEF main
  <2> QED
    BY <2>1 DEF Store!TreeOf
<1>3. \A q : f[Store!DbOf(q)][Store!Rest(Store!DbOf(q), q)] = f[DbOf(q)][Rest(DbOf(q), q)]
  BY SameDbOf, SameBelow
<1> HIDE DEF loaded, main, tops, children
<1> QED
  BY <1>1, <1>2, <1>3

LEMMA SameJoined ==
  ASSUME NEW a, NEW b
  PROVE  Store!Joined(a, b) = Joined(a, b)
  BY DEF Store!Joined, Joined, Store!IsArray, IsArray, Store!Kind, Kind

LEMMA SameReplaced ==
  ASSUME NEW p, NEW s, NEW q
  PROVE  Store!Replaced(p, s, q) <=> Replaced(p, s, q)
  BY SameNames, SamePaths DEF Store!Replaced, Replaced

LEMMA SamePut ==
  ASSUME NEW t, NEW p, NEW s
  PROVE  Store!Put(t, p, s) = Put(t, p, s)
  BY SameBelow, SamePaths DEF Store!Put, Put

LEMMA SameUnite ==
  ASSUME NEW t, NEW p, NEW s
  PROVE  Store!Unite(t, p, s) = Unite(t, p, s)
  BY SameBelow, SameJoined, SameReplaced DEF Store!Unite, Unite

LEMMA SameWalk ==
  ASSUME NEW t, NEW p
  PROVE  /\ Store!Missing(t, p) = Missing(t, p) /\ Store!Blocked(t, p) = Blocked(t, p)
         /\ Store!WithObjects(t, p) = WithObjects(t, p)
  BY SameNames DEF Store!Missing, Missing, Store!PathsTo, PathsTo, Store!Blocked, Blocked,
                   Store!WithObjects, WithObjects

LEMMA SameLeaf ==
  ASSUME NEW v
  PROVE  Store!Leaf(v) = Leaf(v) /\ Store!String(v) = String(v)
  BY DEF Store!Leaf, Leaf, Store!String, String

LEMMA SameWritten ==
  ASSUME NEW t, NEW p, NEW s
  PROVE  Store!Written(t, p, s) = Written(t, p, s)
  BY SamePut, SameWalk, SameLeaf, SamePaths DEF Store!Written, Written

LEMMA SameMerged ==
  ASSUME NEW t, NEW p, NEW s
  PROVE  Store!Merged(t, p, s) = Merged(t, p, s)
  BY SameUnite, SameWalk DEF Store!Merged, Merged

LEMMA SameOnTheWay ==
  ASSUME NEW t, NEW p
  PROVE  Store!OnTheWay(t, p) = OnTheWay(t, p)
<1>1. Store!Begun(t, p) = Begun(t, p)
  BY SameWalk DEF Store!Begun, Begun
<1> QED
  BY <1>1, SameWalk DEF Store!OnTheWay, OnTheWay

LEMMA SameEmptied ==
  ASSUME NEW t, NEW p
  PROVE  Store!Emptied(t, p) = Emptied(t, p)
  BY SamePaths DEF Store!Emptied, Emptied

-----------------------------------------------------------------------------
(* Each step is one of the store or leaves it as it is.                    *)

LEMMA Loads ==
  ASSUME NameInv, NameInv', Functions, NEW d \in Daemons, LoadTree(d)
  PROVE  StoreStep
<1>1. ~Up
  BY DEF LoadTree, NameInv, Named, Loaded, Up
<1>2. Loaded(d)' /\ mem'[d] = TreeOf(files) /\ files' = files
  BY DEF LoadTree, NameInv, Loaded, Goes, Functions
<1>3. Up' /\ Served' = Store!TreeOf(files)
  BY <1>2, ServedNext, SameTreeOf
<1>4. files' = [b \in Store!AllDbs |-> IF b \in {} THEN NoFile ELSE files[b]]
  BY <1>2, SameDbs DEF Functions
<1>5. {} \in SUBSET {b \in Store!AllDbs : files[b] = Store!EmptyObject}
  OBVIOUS
<1>6. Store!Open
  BY <1>1, <1>3, <1>4, <1>5 DEF Store!Open, Up
<1> QED
  BY <1>6 DEF StoreStep, Store!Next

LEMMA Saves ==
  ASSUME NameInv, NameInv', NEW d \in Daemons, NEW b \in AllDbs,
         Save(d, b) \/ ForcePendingFlush(d, b)
  PROVE  StoreStep
<1>1. Loaded(d) /\ Loaded(d)' /\ mem' = mem
      /\ files' = [files EXCEPT ![b] = FileOf(Part(mem[d], b))]
  BY DEF Save, ForcePendingFlush, Forces, Loaded
<1>2. Served = mem[d] /\ Served' = mem[d] /\ Up /\ Up'
  BY <1>1, ServedBy, ServedNext DEF Up
<1>3. files' = [files EXCEPT ![b] = Store!FileOf(Store!Part(Served, b))]
  BY <1>1, <1>2, SamePart, SameContent
<1>4. Store!Save(b)
  BY <1>2, <1>3 DEF Store!Save, Up
<1> QED
  BY <1>4, SameDbs DEF StoreStep, Store!Next

\* The files a request leaves are those of a store that saves nothing
\* meanwhile, or saves one of the trees.
LEMMA SavesMeanwhile ==
  ASSUME NEW r, NEW t, NEW b, NEW trees,
         Midway(r, t) = trees, Changed(r) = b,
         files' \in {files} \cup FilesMeanwhile(r, t)
  PROVE  Store!SavedMidway(b, trees)
<1>1. CASE files' = files
  BY <1>1 DEF Store!SavedMidway
<1>2. CASE files' \in FilesMeanwhile(r, t)
  <2>1. PICK m \in trees : files' = [files EXCEPT ![b] = FileOf(Part(m, b))]
    BY <1>2 DEF FilesMeanwhile
  <2>2. files' = [files EXCEPT ![b] = Store!FileOf(Store!Part(m, b))]
    BY <2>1, SamePart, SameContent
  <2> QED
    BY <2>2 DEF Store!SavedMidway
<1> QED
  BY <1>1, <1>2

LEMMA Handles ==
  ASSUME NameInv, NameInv', Functions, Calls, NEW d \in Daemons, Handle(d)
  PROVE  StoreStep
<1> DEFINE r == Head(calls).request
           t == mem[d]
<1>1. r \in Requests
  <2>1. calls # <<>>
    BY DEF Handle
  <2> QED
    BY <2>1, LaterCalls DEF Call
<1>2. Loaded(d) /\ Loaded(d)' /\ stage' = stage
  BY DEF Handle, Reachable, Loaded
<1>3. Served = t /\ Served' = mem'[d] /\ Up /\ Up'
  BY <1>2, ServedBy, ServedNext DEF Up
<1>4. \/ UNCHANGED <<mem, files>>
      \/ /\ Doable(r)
         /\ mem' = [mem EXCEPT ![d] = After(r, t)]
         /\ files' \in {FilesAfter(r, t)} \cup FilesMeanwhile(r, t)
  BY DEF Handle
<1>5. \A e \in Daemons : Loaded(e)' = Loaded(e) /\ (Loaded(e) => e = d)
  BY <1>2, ServedBy DEF Loaded
<1>6. CASE UNCHANGED <<mem, files>>
  BY <1>5, <1>6, Quiet
<1>7. ASSUME Doable(r), mem'[d] = After(r, t),
             files' \in {FilesAfter(r, t)} \cup FilesMeanwhile(r, t)
      PROVE  StoreStep
  <2> HIDE DEF r, t
  <2>1. CASE r.at = <<>> \/ r.method \notin Changing
    <3>1. <<>> \notin DbPaths
      BY DEF DbPaths
    <3>2. After(r, t) = t /\ FilesAfter(r, t) = files
      BY <2>1, <3>1 DEF After, FilesAfter, Changing
    <3>3. FilesMeanwhile(r, t) = {}
      BY <2>1 DEF FilesMeanwhile, Midway, Changing
    <3> QED
      BY <1>5, <1>7, <3>2, <3>3, Quiet DEF t
  <2>2. CASE r.at # <<>> /\ r.method = "write"
    <3>1. FilesAfter(r, t) = files /\ After(r, t) = Store!Written(t, r.at, String(r.value))
      BY <2>2, SameWritten DEF After, FilesAfter
    <3>2. r \in Asked("write")
      BY <1>1, <2>2 DEF Asked
    <3>3. /\ Midway(r, t) = Store!OnTheWay(t, Store!Front(r.at))
          /\ Changed(r) = Store!DbOf(Store!Front(r.at))
      BY <2>2, SamePaths, SameOnTheWay, SameDbOf DEF Midway, Changed
    <3>4. Store!SavedMidway(Store!DbOf(Store!Front(r.at)),
                            Store!OnTheWay(t, Store!Front(r.at)))
      BY <1>7, <3>1, <3>3, SavesMeanwhile
    <3>5. Store!Write(r.at, String(r.value))
      BY <1>3, <1>7, <3>1, <3>4 DEF Store!Write, Up
    <3> QED
      BY <3>2, <3>5 DEF StoreStep, Store!Next
  <2>3. CASE r.at # <<>> /\ r.method = "inject"
    <3>1. FilesAfter(r, t) = files /\ After(r, t) = Store!Merged(t, r.at, FromJson[r.value])
      BY <2>3, SameMerged DEF After, FilesAfter
    <3>2. r \in {q \in Asked("inject") : Doable(q)}
      BY <1>1, <1>7, <2>3 DEF Asked
    <3> DEFINE i == [path |-> r.at, value |-> FromJson[r.value]]
    <3>3. Midway(r, t) = Store!OnTheWay(t, r.at) /\ Changed(r) = Store!DbOf(r.at)
      BY <2>3, SameOnTheWay, SameDbOf DEF Midway, Changed
    <3>4. Store!SavedMidway(Store!DbOf(r.at), Store!OnTheWay(t, r.at))
      BY <1>7, <3>1, <3>3, SavesMeanwhile
    <3>5. Store!Inject(i.path, i.value)
      BY <1>3, <1>7, <3>1, <3>4 DEF Store!Inject, Up
    <3>6. i \in {[path |-> q.at, value |-> FromJson[q.value]] :
                   q \in {q \in Asked("inject") : Doable(q)}}
      BY <3>2
    <3> HIDE DEF i
    <3> QED
      BY <3>5, <3>6 DEF StoreStep, Store!Next
  <2>4. CASE r.at # <<>> /\ r.method = "rm"
    <3>1. After(r, t) = Store!Cut(t, r.at)
      BY <2>4, SameAt DEF After
    <3>2. ASSUME r.at \in DbPaths
          PROVE  files' = [b \in Store!AllDbs |->
                             IF b = r.at /\ r.at \in DOMAIN t THEN NoFile ELSE files[b]]
      <4>1. FilesMeanwhile(r, t) = {}
        BY <2>4, <3>2 DEF FilesMeanwhile, Midway
      <4>2. CASE r.at \in DOMAIN t
        BY <1>7, <2>4, <3>2, <4>1, <4>2, SameDbs DEF FilesAfter, Functions
      <4>3. CASE r.at \notin DOMAIN t
        BY <1>7, <2>4, <3>2, <4>1, <4>3, SameDbs DEF FilesAfter, Functions
      <4> QED
        BY <4>2, <4>3
    <3>3. ASSUME r.at \notin DbPaths
          PROVE  Store!SavedMidway(Store!DbOf(r.at), {Store!Emptied(t, r.at)})
      <4>1. FilesAfter(r, t) = files
        BY <3>3 DEF FilesAfter
      <4>2. Midway(r, t) = {Store!Emptied(t, r.at)} /\ Changed(r) = Store!DbOf(r.at)
        BY <2>4, <3>3, SameEmptied, SameDbOf DEF Midway, Changed
      <4> QED
        BY <1>7, <4>1, <4>2, SavesMeanwhile
    <3>4. r \in Asked("rm")
      BY <1>1, <2>4 DEF Asked
    <3>5. Store!Rm(r.at)
      BY <1>3, <1>7, <3>1, <3>2, <3>3, SameNames DEF Store!Rm, Up
    <3> QED
      BY <3>4, <3>5 DEF StoreStep, Store!Next
  <2> QED
    BY <2>1, <2>2, <2>3, <2>4 DEF Changing
<1> QED
  BY <1>4, <1>6, <1>7 DEF Functions

\* A process ends: the store is closed if it is the one that served it.
LEMMA EndCloses ==
  ASSUME NameInv, NEW d \in Daemons, Loaded(d), Ends(d), UNCHANGED files
  PROVE  StoreStep
<1>1. ~Up'
  <2>1. \A e \in Daemons : Loaded(e) => e = d
    BY ServedBy
  <2> QED
    BY <2>1 DEF Ends, Goes, NameInv, Loaded, Up
<1>2. Served' = Store!EmptyObject
  BY <1>1, NobodyNext, SameNames
<1>3. Store!Close
  BY <1>1, <1>2 DEF Store!Close, Up
<1> QED
  BY <1>3 DEF StoreStep, Store!Next

LEMMA EndIsQuiet ==
  ASSUME NameInv, NameInv', NEW d \in Daemons, ~Loaded(d), Ends(d), UNCHANGED files
  PROVE  StoreStep
<1>1. \A e \in Daemons : Loaded(e)' = Loaded(e) /\ (Loaded(e) => mem'[e] = mem[e])
  BY DEF Ends, Goes, NameInv, Loaded
<1> QED
  BY <1>1, Quiet

LEMMA StoreInit == DbdInit => Store!Init
<1> SUFFICES ASSUME DbdInit PROVE Store!Init
  OBVIOUS
<1>1. ~Up
  BY DEF DbdInit, Loaded, Up
<1>2. Served = Store!EmptyObject
  BY <1>1, ServedByNobody, SameNames
<1>3. files = [b \in Store!AllDbs |-> NoFile]
  BY SameDbs DEF DbdInit
<1> QED
  BY <1>1, <1>2, <1>3 DEF Store!Init, Up

LEMMA StoreNext == DbdInv /\ [DbdNext]_dbdVars => StoreStep
<1> SUFFICES ASSUME DbdInv, [DbdNext]_dbdVars PROVE StoreStep
  OBVIOUS
<1>1. NameInv /\ NameInv' /\ Functions /\ Calls
  BY NameStep DEF DbdInv
<1>2. ASSUME NEW d \in Daemons, Ends(d), UNCHANGED files PROVE StoreStep
  BY <1>1, <1>2, EndCloses, EndIsQuiet
<1>3. ASSUME UNCHANGED <<mem, files>>,
             \A d \in Daemons : Loaded(d)' = Loaded(d)
      PROVE  StoreStep
  BY <1>1, <1>3, Quiet
<1>4. ASSUME NEW d \in Daemons, DbdStep(d) PROVE StoreStep
  <2> USE DEF NameInv, Goes, Loaded
  <2>1. CASE Launch(d)
    BY <1>1, <1>3, <2>1 DEF Launch
  <2>2. CASE NoBus(d) \/ AlreadyRunning(d) \/ End(d)
    BY <1>2, <2>2 DEF NoBus, AlreadyRunning, End
  <2>3. CASE RegisterService(d)
    BY <1>1, <1>3, <2>3 DEF RegisterService
  <2>4. CASE LoadTree(d)
    BY <1>1, <2>4, Loads
  <2>5. CASE Listen(d)
    BY <1>1, <1>3, <2>5 DEF Listen
  <2>6. CASE Handle(d)
    BY <1>1, <2>6, Handles
  <2>7. CASE \E b \in AllDbs : Save(d, b) \/ ForcePendingFlush(d, b)
    BY <1>1, <2>7, Saves
  <2>8. CASE Signal(d)
    BY <1>1, <1>3, <2>8 DEF Signal
  <2>9. CASE Exit(d)
    BY <1>1, <1>3, <2>9 DEF Exit
  <2> QED
    BY <1>4, <2>1, <2>2, <2>3, <2>4, <2>5, <2>6, <2>7, <2>8, <2>9 DEF DbdStep, StartsUp
<1>5. ASSUME NEW d \in Daemons, Loses(d) PROVE StoreStep
  <2>1. CASE \E b \in AllDbs : ForceInVain(d, b)
    BY <1>1, <1>3, <2>1 DEF ForceInVain, Forces, Loaded
  <2> QED
    BY <1>2, <1>5, <2>1 DEF Loses, Crash
<1>6. ASSUME NEW c \in Clients, Timeout(c) \/ \E r \in Requests : Send(c, r)
      PROVE  StoreStep
  BY <1>3, <1>6 DEF Timeout, Send, Loaded
<1>7. CASE UNCHANGED dbdVars
  BY <1>3, <1>7 DEF dbdVars, Loaded
<1> QED
  BY <1>4, <1>5, <1>6, <1>7 DEF DbdNext

(***************************************************************************)
(* All processes together, over all the times dbd is started, stopped,     *)
(* killed or started twice, are to their clients the one store that        *)
(* TreeStore describes.                                                    *)
(***************************************************************************)
THEOREM OneStoreIsServed == DbdSpec => ServesOneStore
<1>1. DbdInv /\ [DbdNext]_dbdVars =>
        [Store!storeVars' # Store!storeVars /\ Store!Next]_(Store!storeVars)
  BY StoreNext DEF StoreStep
<1> QED
  BY <1>1, DbdInitInv, DbdInvStep, StoreInit, PTL DEF DbdSpec, ServesOneStore, Store!Spec
=============================================================================
