# Verification of qtdbd

qtdbd is the configuration store of OpenXT: a daemon that keeps a tree of JSON
values in memory, serves it over D-Bus, and saves it in a few files. This
directory holds TLA+ models of it, the TLC runs that check them on small
instances, and TLAPS proofs of every invariant, action property and refinement
those runs check.

## 1. The system

| component | state | operations | modelled in |
|---|---|---|---|
| `SimpleJsonDB` (`src/simplejsondb.cpp`) | a JSON object, its `writeLock`, its `flushTimer`, its file | `queueFlush`, `startFlushTimer`, `flush`, `forcePendingFlush`, `jsonString`, `readFromDisk` | `SimpleJsonDB`, `FlushTimer` |
| `DBTree` (`src/dbtree.cpp`) | the tree (`dbRoot`), `mainDb`, the hashes `vmsDbs` and `domstoreDbs`, the flush thread | `loadTree`, `lookupDb`, `createChildDb`, `getValue`, `setValue`, `mergeValue`, `rmValue`, `exitCleanup` | threads and locks in `SimpleJsonDB`, trees and files in `DBTree` |
| `Db` (`src/db.cpp`, `src/dbinterfaceadaptor.cpp`) | the xenstore handle | `read`, `read_binary`, `write`, `inject`, `rm`, `list`, `dump`, `exists` | `Answers`, `Db` |
| `dbd` (`app/dbd/main.cpp`) | the service name, the connection, signals | start-up, event loop, exit | `Dbd` |
| D-Bus proxy (`src/comcitrixxenclientdbinterface.*`) | none | sends a call | `Dbd` (`Send`, `Timeout`) |
| `db-*` tools (`app/db-*`) | none | one call each, and what is printed of the reply | `Tools` |
| qmjson | | `insert`, `remove`, `unite`, `toJson`, `fromJson` | external: as the code uses it |
| logging, tests | | | not modelled |

**How they interact.** A tool makes one D-Bus call to the owner of the service
name. Calls wait in the connection of the owner and are served one at a time by
its main thread: adaptor, then `Db`, then `DBTree`. An object at `vm/<uuid>` or
`dom-store/<uuid>` belongs to a database of its own with its own file; the rest
belongs to the main database. The databases share one tree: the object of a
database is linked into the object of the main one. After a change
`queueFlush` emits a signal which is delivered as an event to the flush thread;
that thread starts a single-shot timer and, when it fires, serialises the
database and replaces its file. With a delay of 0 the main thread saves at
once; with -1 nothing is saved. `rmValue` of a whole database and `exitCleanup`
make the flush thread save and wait for it. Several dbd may be started on one
directory; only the ownership of the name keeps them apart.

**What is hard here.** The main thread reads `isActive()` of a timer the flush
thread owns, without a lock, and skips the signal on the strength of it
(`simplejsondb.cpp:214`). A database is destroyed while its timer may run and
events may be posted to it. The exit may find a signal still queued. Saves fail
and are not retried. The text of the main database is written from objects
other locks protect. Three structures, the tree, the hashes and the files, are
updated by walks that treat them separately, and only some paths update all
three. A process may start while another exits; signals come during start-up;
callers time out while their calls are still queued, and try again. A value has
a different wording in each method and tool. `PROJECT.json` lists every hazard
at its line, with the property that covers it or the reason why none does.

**What makes each component correct.**

- SimpleJsonDB: no change is forgotten while the process runs; a removed
  database is quiet when it is destroyed; the exit saves everything; a file
  never goes back; every request returns, and every change is saved in the end
  and within a bounded time.
- DBTree: what is saved is what is shown; hashes and tree agree; what is
  removed stays removed; a request changes only what it names. In short: it is
  one map from paths to values, saved in parts (`TreeStore`).
- Db: a guest works on its own database and is told only what is in it.
- dbd: one process at a time has the tree; whoever calls gets a reply; all
  processes together are one store; a signal ends the process, and its exit
  saves what each database has not saved yet.
- Tools: what a tool reports is so and stays so, an answer is that of the
  caller's own call to the tree there is, and all of them show the same tree.

## 2. Modules

| module | what it is |
|---|---|
| `SimpleJsonDB` | the persistence protocol: both threads, step by step |
| `DurableStore` | the abstract store: versions that become durable in order |
| `SimpleJsonDBInv` | the inductive invariant, `IInv` |
| `SimpleJsonDBProofs` | theorems about `SimpleJsonDB` and their proofs |
| `MCSimpleJsonDB` | instances of `SimpleJsonDB` for TLC |
| `FlushTimer`, `FlushTimerProofs` | the same protocol with a clock: how long a change waits |
| `Trees` | JSON values, trees, how a tree is cut into databases, and what a request does to a tree |
| `TreeStore` | the abstract store of trees |
| `TreesProofs` | lemmas about `Trees` |
| `DBTree`, `MCDBTree` | the tree, the hashes and the files; implements `TreeStore` |
| `DBTreeProofs`, `DBTreeStoreProofs` | theorems about `DBTree`: its invariants; that it implements `TreeStore` |
| `Answers` | what the methods that read answer, by the kind of the value |
| `Db`, `MCDb`, `DbProofs` | the D-Bus front end; extends `DBTree` and `Answers` |
| `Dbd`, `MCDbd`, `DbdProofs` | processes, the name, calls and replies; implements `TreeStore` |
| `Tools`, `MCTools`, `ToolsProofs` | the command line tools; extends `Dbd` |

Every operator whose comment begins with "Mutant:" is a plausible bug of the
operator below it; `PROJECT.json` says which property it breaks.

`SimpleJsonDB` has threads and locks but no contents, `DBTree` contents but no
threads, `Dbd` processes and clients but neither hashes nor timers. `DBTree`
shows that its requests do to the tree what `Trees` says (`Written`, `Merged`,
`Cut`); `Dbd` takes that as what a request does.

### SimpleJsonDB

A step is what a thread does between two points at which the other may
interfere: taking a lock, the body of a critical section up to its release,
posting an event, serialising, saving. The content of a database is abstracted
to a version (one more for every change) and whether it is `"{}"`, which is
what `flush` branches on. `mem` and `disk` hold it for memory and file; an
absent file is an empty content. `events` is the event queue of the flush
thread, in order, with its start signals and its blocking calls.

| code | actions |
|---|---|
| `DBTree()`, `loadTree`, `readFromDisk` | `Start` |
| `setValue`, `mergeValue` | `SetOrMerge`, `AcquireDb`, `Insert`, then `queueFlush` |
| `rmValue` of a key | `RmKey`, `AcquireDb`, `Clear`, `AcquireParentDb`, `RemoveKey`, then `queueFlush` |
| `rmValue` of a database | `RmDb`, `AcquireDb`, `Clear`, `AcquireParentDb`, `UnlinkDb`, `PostFlush`, `RemoveFromHash` |
| `createChildDb` | `CreateChildDb` |
| `queueFlush` | `FlushInline`, `SignalFlushTimer`, `NoSignal` |
| `flush`, `jsonString` | `EnterFlush`, `BeginRead`, `EndRead`, `Abort`, `Save`, `SaveFails`, by thread |
| events and timers | `StartFlushTimer`, `DispatchFlush`, `ForcePendingFlush`, `FireTimer` |
| `exitCleanup` | `BeginExit`, `ForceNext`, `Stop` |

A write of several levels is one `SetOrMerge` per database it changes: each
level is a critical section followed by its own `queueFlush`, as in the code.
Removing a key raises the version twice, once for `clear()` and once for
`remove()`.

*The data race.* `isActive()` is read without synchronisation, so the model
lets the main thread see any value the timer has had since the last release of
the lock by the flush thread that is ordered before the read: `since` collects
them, `visible` is what the main thread may see after its acquisition.
`SignalFlushTimer` and `NoSignal` choose among them.

*The torn text.* `Abort` is enabled if the main thread has changed a database
below the main one while the flush thread was writing the text of the whole
tree. qmjson's sources are not in the repository; the model takes it that it
does not lock, which is what the locks around its use in the code say.

With `":memory:"` the model lets databases below the main one be saved. Their
paths lie in a directory that does not exist, so these saves fail in practice;
the model allows more than the code does.

### FlushTimer

One database, a clock, and two threads each of which takes up to `Latency`
ticks for whatever it is to do next: the main thread from `insert()` to
`queueFlush()`, the flush thread for an event that is posted, for a timer that
has expired, and for a flush.

| code | actions |
|---|---|
| `setValue` and its like, to `queueFlush` | `Insert`, `QueueFlush` |
| `startFlushTimer` | `StartFlushTimer` |
| `timeout()` of the timer, `flush` | `Timeout`, `Read`, `Save` |

The signal is sent while the timer is not active, but the timer is started
later; every signal that is already on its way by then starts it anew. So the
"maximum db flush delay" of the option (`main.cpp:79`) is exceeded under load,
but by no more than the time those signals were on their way.

Here `isActive()` is read exactly, while `SimpleJsonDB` lets it be stale. Its
stale values do no harm there: a change is saved in the end whichever is read.
They do cost time here, so the bound of `SavedInTime` holds of the code only if
the time until the main thread sees what the flush thread has done to the timer
counts as part of `Latency`, with the step that does it. Nothing in the code
bounds that time; on real machines it is far below a tick.

### Trees and TreeStore

A tree is a function from paths to values; an object is a value of its own,
whose keys are the paths one longer. `Keys` is what paths are made of, any set
with the names of the databases in it; `IsTree` says when such a function is a
tree (whatever has keys is an object), `IsObject` when it is an object too, as
`dbRoot` and what a file or an injection holds are. Values are of a kind (object, null,
string, bool, number, array) and hold what the properties tell apart. `Unite`
is qmjson's `unite()` with the policies the code passes: objects are united,
arrays appended, any other value replaces what is there.

`TreeStore` is what dbd promises of its tree: requests change what is shown,
each database is saved on its own as it is at some time after, and what is
shown after a start is what was saved. A save may come in the middle of a
request: it then has some of the objects on the way to a value but not the
value (`OnTheWay`), or a value emptied that is being removed (`Emptied`), and
nothing else that is neither old nor new. A file found malformed counts as an
empty object. Databases whose name is no uuid are shown but not loaded again
(`dbtree.cpp:93`): they are not `Lasting`.

### DBTree

A database is named by the path of its object. `attached` holds the databases
whose object is the one in the tree; the object of another one (`own`) lives on
in its hash entry, can no longer be reached by a path, and is what a flush of
that database saves. A request is one step, with the save that may fall between
its critical sections (`SavedOnTheWay`, `SavedEmptied`): `setValue` and
`mergeValue` insert and queue each object on the way on its own, and `rmValue`
empties a value before it takes it out. A crash right after leaves that much in
the file. `dirty` holds the databases a flush is queued for, and
`Save` takes one at any later time: `NoLostUpdate`, `CleanExit` and
`FilesNeverGoBack` of `SimpleJsonDB` are the licence for that, failed saves
excepted.

| code | definitions |
|---|---|
| `loadTree`, `loadChildren`, `readFromDisk` | `Start`, `Stored`, `MovedAway`, `TreeOf` |
| `lookupDb(.., true)`, `createChildDb` | `NewDb`, `WithDb` |
| `setValue`, `mergeValue`, `rmValue` | `SetValue`, `MergeValue`, `RmValue` with `DropDb` |
| `jsonString`, `flush` | `Text`, `FileOf`, `Save` |
| `exitCleanup` | `Stop` |

`rm` of a key that its object does not have dereferences what qmjson's
`value()` returns for an absent key (`dbtree.cpp:335`), and so does `inject` of
text that is JSON but no object: in the model either nothing happens to the
tree, or the process dies (`Crash`).

### Db

`SenderPaths` is `senderPathSplit`: domain 0 names paths of the tree, a guest
paths below `dom-store/<uuid>`. The lookup of the domain may fail, which
refuses the call, and so may the lookup of the uuid, which leaves an empty
name: such calls work on the database `dom-store/""`, which all guests in that
situation share and which is not loaded again at the next start. The model
includes both. Each slot is an action (`Reads` is `read`, `list`, `dump` and
`exists`; `ReadBinary`, `Write`, `Inject`, `InvalidJson`, `Rm`). The values a
guest writes are its own (`ValuesOf`), so that the invariant can tell who wrote
what an answer shows.

### Dbd

Each process goes through `main()` in stages:

| stage | reached by | code |
|---|---|---|
| `started` | `Launch` | options and signal handlers (`main.cpp:126`-`143`) |
| `owner` | `RegisterService`; else `NoBus`, `AlreadyRunning` | `main.cpp:152`-`165` |
| `loaded` | `LoadTree` | `main.cpp:167` |
| `serving` | `Listen` | `registerObject`, `connect`, `exec` |
| `quitting` | `Signal` | `exitHandler`, `quit()` |
| `exiting` | `Exit`, then `ForcePendingFlush` or `ForceInVain` for each database | `exec()` returns, `exitCleanup` |
| `none` | `End`, `Crash` | `main()` returns |

`calls` is what waits in the connection of the owner, in order; `Handle` takes
the first, and `FilesMeanwhile` are the saves that may come while it is served.
A call that is waiting when its owner goes is answered with an error
by the bus (`OwnerGone`); one whose caller has given up stays in the queue. A
signal before `exec()` has no effect (`Signal`, `Listen`): the run
`early_signal` shows what comes of it.

`exitCleanup` makes one call of `forcePendingFlush` for each database it knows,
the main one first and then those of the hashes in any order: `toForce` holds
those still to come (`ToForce`, `Dbs`). A forced flush saves the database
(`ForcePendingFlush`), or the save fails, is skipped at a delay of -1, or is not
made since an earlier one of the same content failed and left no timer running
(`ForceInVain`); `main()` returns all the same (`End`). What was not saved by
then is lost as in a crash, and the two are `Loses`.

D-Bus is external. The model takes from it that a name has one owner, that
calls of one connection keep their order, and that calls which arrive before
the event loop runs are delivered when it does. (Qt from 5.6 on suspends the
delivery until then; before, a call is an event of the main thread.)

### Tools

A tool is a command line that makes one call (`Invoke`), or exits before it
does (`NoCall`), waits (`Finish`, `Timeout`) and exits with a code and what it
prints. `LsPrints` and its like
are what each tool makes of a reply; `db-ls` asks for a dump where `db-read`
asks for one value and words them on its own. `reported` is history: the last
`db-write` that exited with 0, forgotten when another command that changes
something is run, and marked lost when a process that has the tree crashes or
exits with a save that failed.

`AnswersAreCurrent` says of each reply with a value that it is what the
caller's own call answers of the tree that is shown, or will be after a start
(`Shown`), at that moment, and that what was asked for is done to that tree.
It would break if the event loop ran before the tree is there, if a call given
up on could answer the next one, or if a process without the name went on
answering.

## 3. Runs

Passing runs:

| run | instance | checks |
|---|---|---|
| `delayed` | main and one database, a delay, up to 2 versions each, with fairness | all properties of the protocol, `IInv`, the refinement |
| `inline` | delay 0, up to 3 versions, with fairness | the same questions where the main thread saves |
| `clock` | delay 3, latency 2, up to 3 signals on their way | a change is saved in time |
| `tree` | one `vm` and one `dom-store` database, keys `k` and `l`, writes, removals and injections at nested paths, one malformed content | tree, hashes and files agree; `DBTree` implements `TreeStore` |
| `guests` | domain 0 and two guests, three databases in `dom-store` | the routing of calls; all guests together work on one `TreeStore` |
| `daemons` | two processes, two clients, main and one database, every kind of change | the name, the replies; together one `TreeStore`, saves that fail at an exit included |
| `tools` | two processes, one user, all nine tools, values of every kind | what the tools report and print, whose answer it is, and what an exit saves |

Runs that find what the code does differently from what it says:

| run | what TLC finds |
|---|---|
| `whole_tree_text` | a write below the main database during its serialisation can make `jsonString` exit the daemon |
| `rm_vm` | `rm /vm` leaves the files of the databases, which come back at the next start |
| `inject_vm` | what is injected at `/vm` is shown and never saved |
| `bad_twice` | a second malformed file of a database is not kept |
| `early_signal` | a signal during start-up is forgotten |

**What the runs leave out, and why.** `tree`, `guests` and `daemons` have no
requests *at* `vm` and `dom-store` and no values written over a whole database:
with these `SavedIsShown`, `HashIsTree` and `RequestsKeepToPath` do not hold,
for the reason the runs `rm_vm` and `inject_vm` show. (`inject` at `/vm`
followed by a write to one of the databases also erases what was injected:
`createChildDb` inserts a new object over it, `dbtree.cpp:63`. No run covers
that: `RequestsKeepToPath` is checked where the hashes and the tree agree, and
would not hold of such a write.) In `Dbd` this
is an assumption on the requests, `RequestsAssumption`; of `DBTree` and `Db`
the theorems that need it take it as a hypothesis (section 4). All databases in `tree`
have names that are uuids; `guests` has one that has not.

**Bounds.** `MaxVersion` bounds the changes of each database. Two changes are
needed for one to be made while the previous one is being saved, three for one
more to fall between the stale reading of the timer and the signal; `delayed`
stops at two, for the sake of its liveness properties, and has its safety
properties proved for any number. Two
databases let events of one delay those of the other. The event queue needs no
bound: it holds at most one start event per change and one blocking call. In
`DBTree` one database per top key is enough, as no code relates two databases
of a hash but `loadChildren` and `exitCleanup`; two keys make siblings and
nesting (writes nest two deep in a `vm` database, and block one another in the
main one). `MaxElements` bounds arrays, which every injection may lengthen; one
element more than was injected shows the append. `MaxCalls` bounds the calls
that wait: two let one overtake, or be mistaken for, another. Two processes are
all that a name can be contested by; the theorems of section 4 have any number.
`MaxPosted` bounds the signals on their way: in `clock` the bound of
`SavedInTime` is reached with two signals as with three, and one tick less is
not enough.
In `tree` there is one malformed content, so that `SavedIsShown` and
`BadFilesAreKept` are about a file found malformed once; a second one is in
`bad_twice`. In `guests`, domain 0 reads, injects and removes but writes no
value of its own (`ValuesOf[0]` is empty, while the theorem
`AnswersAreTheirOwn` has any values for it). `AnswersAreOwn` is about the values
in the answers of `read` and `dump`, not about the keys `list` answers or
whether `exists` finds something.
The run `tools` has one user, who runs one command after another, which is what
`ReportedIsShown` is about; the calls it gave up on are the others.
A write to the root, which is ignored, is not in that run but in the theorem
`ReportedStays`.

No run sets `InMemory` or a delay below 0. The theorems of section 4 are for
every value of both.

**Symmetry** is used in `guests`, where the two guests are exchanged together
with their uuids and values, and in `tools`, for the two processes. Neither run
has a liveness property.

**Fairness.** In `SimpleJsonDB`: `WF` of each thread's own steps and of the
dispatch of posted events, since Qt's event loops run and a mutex is given to
who waits; `SF` of a timer's firing, since a due timer is delivered between
events even if the queue is never empty for long. In `Dbd`: `WF` of the
start-up, of `Handle`, of `Exit`, of the forced flushes (a blocking call
returns) and of `End`. Nothing is assumed of
requests, launches, signals, timeouts, failures or crashes. `CallersReturn`
therefore holds without timeouts.

**Deadlock** is checked in every run.

## 4. Proofs

`SimpleJsonDBProofs` proves, for any set of databases, any delay, in memory or
not, and any `MaxVersion`:

| theorem | says |
|---|---|
| `Invariance` | `Spec => []IInv` |
| `TypeCorrect` | `Spec => []TypeOK` |
| `NoUpdateIsLost` | `Spec => []NoLostUpdate` |
| `MutualExclusion` | `Spec => []OneHolder` |
| `RemovalIsQuiet` | `Spec => []RemovedDbIsQuiet` |
| `ExitIsClean` | `Spec => []CleanExit` |
| `FilesOnlyAdvance` | `Spec => FilesNeverGoBack` |
| `Implementation` | `Persistent => (Spec => ImplementsStore)` |

`DbdProofs` proves, for any sets of processes, clients, databases and requests
that satisfy the assumptions of `Dbd`, and any bounds:

| theorem | says |
|---|---|
| `OneProcessServes` | `DbdSpec => []OneServer` |
| `OneStoreIsServed` | `DbdSpec => ServesOneStore` |

`FlushTimerProofs` proves, for any delay, latency and number of signals:

| theorem | says |
|---|---|
| `TimerKeepsUp` | `TimerSpec => []TimerInv` |
| `ChangesAreSavedInTime` | `TimerSpec => []SavedInTime` |

`DBTreeProofs` and `DBTreeStoreProofs` prove, for any keys, databases, paths,
values, injections and malformed contents:

| theorem | says | of |
|---|---|---|
| `TreeIsTree` | `Spec => []TypeOK` | `RootIsIgnored` |
| `HashesAreTree` | `Spec => []HashIsTree` | `UsualRequests` |
| `SavedIsWhatIsShown` | `Spec => []SavedIsShown` | `UsualRequests`, `ContentsTold` |
| `RemovedDbIsGone` | `Spec => []RemovedIsGone` | `UsualRequests`, `ContentsTold` |
| `UsualRequestsKeepToPath` | `Spec => RequestsKeepToPath` | `UsualRequests` |
| `FirstBadFileIsKept` | `Spec => []BadFilesAreKept` | `RootIsIgnored`, `OneIsBad`, `ContentsTold` |
| `TreeIsStore` | `Spec => ImplementsTreeStore` | `UsualRequests`, `ContentsTold` |

`DbProofs` proves, for any guests, uuids and calls as well:

| theorem | says | of |
|---|---|---|
| `GuestsStayHome` | `DbSpec => GuestsKeepToHome` | every call |
| `AnswersAreTheirOwn` | `DbSpec => []AnswersAreOwn` | `TextsTold` |
| `CallsServeTreeStore` | `DbSpec => ServesTreeStore` | `UsualCalls`, `ContentsTold` |

`ToolsProofs` proves, for any processes, users, requests and command lines:

| theorem | says | of |
|---|---|---|
| `ToolsShowTheSame` | `ToolsSpec => []ToolsAgree` | every command |
| `InjectingTwiceIsSafe` | `ToolsSpec => []InjectingAgainIsSafe` | every command |
| `ReportedStays` | `ToolsSpec => []ReportedIsShown` | `FilesTold`, `WritesLast`, finite `Clients` |
| `AnswersStayCurrent` | `ToolsSpec => AnswersAreCurrent` | every command |

**What the theorems take for given.** The assumptions of `SimpleJsonDB` are
that the main database is one of the databases, the delay is an integer,
`InMemory` is Boolean and `MaxVersion` is a natural number; of `FlushTimer`
that its constants are natural numbers, the delay not 0. Those of the other
modules say what the constants stand for: uuids are names and names are keys
(`Trees`); values are values and no objects, what is injected is an object, and
the paths of requests are paths, whose database is one of `AllDbs`, so that
`Names` has every name in use (`DBTree`, `Dbd`); no guest is domain 0, guests
have different uuids and the empty name is no uuid (`Db`); `Nobody` is no
process (`Dbd`). TLC evaluates them all in the runs.

The hypotheses are in the statements because not every instance satisfies them:

- `UsualRequests`, and `UsualCalls` for what `SenderPaths` makes of a call:
  no request is at `/vm` or `/dom-store`, and no value is written over a whole
  database. These are the requests of section 3 for which the code does not keep
  what is stated: the runs `rm_vm` and `inject_vm` are the counterexamples. In
  `Dbd`, and so in `Tools`, `RequestsAssumption` says the same.
- `RootIsIgnored`: `SetValue` and `RmValue` are for other paths than the root,
  which `setValue` and `rmValue` ignore before anything else (`dbtree.cpp:229`,
  `dbtree.cpp:293`). `Db` and `Dbd` model that, and need no hypothesis.
- `ContentsTold` and `FilesTold`: no malformed content, nor the absence of a
  file, is mistaken for a tree. They are model values in the runs; in the code
  they are texts that do not parse, and no text.
- `OneIsBad`: there is one malformed content, and every database has a uuid for
  a name. Of two, the one that is found second may be lost, as the run
  `bad_twice` shows, and a file that is never loaded is never moved away.
- `TextsTold`: a guest writes values that no other domain writes or injects,
  and that are not what `read` answers where there is nothing. Otherwise it
  could not be told from an answer who wrote what it shows.
- `WritesLast`: what is written lies in databases that are loaded again.

The instances of the passing runs satisfy them.

**The argument for `SimpleJsonDB`.** `NoLostUpdate` is not inductive: `NoSignal` would break it in
a state where the main thread sees an active timer that nothing stands behind.
`IInv` adds why this cannot be.

1. `StaleTimer`: if the timer of `d` was active since the flush thread last
   released the lock of `d`, then it is still active or the flush thread is on
   its way to serialise `d` (`BeforeRelease`). So what the main thread may see
   while it holds the lock is backed by a serialisation that cannot have begun
   to read and will therefore include the change.
2. `StaleTimerAtQueue` carries this from the release of the lock to
   `queueFlush`: by then the flush thread may have read, but then it read the
   change.
3. `Ordered`: the file, a text in flight and the memory are three stages of one
   history, with equal versions meaning equal contents. `FilesNeverGoBack` and
   `Save` keeping `NoLostUpdate` rest on it.
4. `EventShape`: a blocking call is the last event of the queue while the main
   thread waits. Start events posted earlier are thus handled before it, and
   the flush it makes stops their timer: this gives `Removed` (hence
   `RemovedDbIsQuiet`) and `Forced` (hence `CleanExit`).
5. `MainShape`, `JobShape`, `NoTimers`, `OneHolder` say which steps can be
   under way together.

Each action has a lemma that it preserves the parts it can disturb; what a step
leaves alone is dealt with once. `Implementation` maps the phase of the process
to the status of the store, `mem` and `disk` to versions, `failed` to
`givenUp`: `Save` is `Persist` or a stutter, `Stop` is `Close` because
of `CleanExit`, every crash or abort is `Die`.

**The argument for `Dbd`.** `OneServer` follows from `NameInv`: whoever has
come past `RegisterService` is the owner of the name, which no step but its own
end takes away. For `ServesOneStore` the store
is up if a process has the tree, which by `NameInv` is one process; `LoadTree`
is `Open`, a save is a save, `Handle` is one of the requests or nothing (with the
save in its middle, `SavesMeanwhile`), a forced flush is a save or nothing, `End`
and `Crash` are `Close`, and what processes do that have not come to the tree
is a stutter. `TreeStore` brings its own instance of `Trees`; the lemmas
`Same...` say that its operators are those of `Dbd`.

**The argument for `FlushTimer`.** The bound is not inductive. `TimerInv` adds
that an event on its way was sent within two latencies of the oldest change it
is for, so that it starts the timer within three; and that a change which a
flush has not read is followed by an event, unless the timer is active or the
change is still to be queued (`Followed`).

**The argument for `DBTree`.** The lemmas of `TreesProofs` say of each operator
at which paths its result has a value and which (`WrittenIs`, `CutIs`,
`WithObjectsIs` and their like), that it is a tree again, and what it leaves of
the part of a database; the walks of the code are those operators, and the
rest of the proofs never looks inside them. On these rest, one on top of the other:

1. `TypeInv`: tree, objects in the hashes and files are trees, the main file
   has neither `vm` nor `dom-store`, and a flush is queued only for a database
   in a hash. It needs no hypothesis about the databases.
2. `HashInv`: the hashes hold the databases the tree has, attached to it
   (`attached = dbs`), `own` is what the tree shows of them, and what is at
   `/vm` and `/dom-store` is an object. `HashIsTree` alone is not inductive: a
   database detached from the tree would be removed, or created anew, with
   contents nobody sees.
3. `SavedInv`: while the process is up, what a start would load of a database
   no flush is queued for is what is shown of it, and what the tree does not
   have has no file. A save in the middle of a request is of a database which
   that request then leaves `dirty`; that is why it does no harm.
4. `BadInv`, for `FirstBadFileIsKept`: while one file is malformed there is no
   `.bad` file yet, and a process that is up has moved every one of them away.

`TreeIsStore` maps each request to the request of `TreeStore`, `Start` to
`Open`, a save to a save, or to a stutter if the database is one that is not
loaded again. Its weight is in the saves in the middle: every text `DBTree`
writes then (`SavedOnTheWay`, `SavedEmptied`) is one `TreeStore` allows
(`OnTheWay`, `Emptied`).

**The argument for `Db`.** `GuestsStayHome` is about one step: the path of a
guest's call lies below `Home`, and each request changes nothing beside its
path but the objects on the way there, which are its home or above. `AnswersAreOwn`
is not inductive, since what is answered was written long before. `FineInv`
says that in a guest's part there is no value that another guest wrote, in the
tree, in the object of its database when that is out of the tree, and in its
file; so whatever a step loads, saves or re-attaches brings none in.

**The argument for `Tools`.** `ShownInv` adds to the invariant of `Dbd` that
the tree of every process is an object, with objects where databases are
(`Divided`), and so the files. `ToolsAgree` and `InjectingAgainIsSafe` then
hold of every such tree, by the lemmas about `Text` and `Joined`.
`ReportedIsShown` takes the history of one user: `Queued`, that the user's call
is the last in the queue, behind those given up on; hence `Answered`, that once
`db-write` has its answer none is left that could undo it; and `Reported`, that
from then on only calls wait that change nothing. A start in between keeps what
is written if it is all saved, and this is no property of `End`, which waits for
nothing: `Forced` says that in a process that exits, each database is either
still to be forced or saved, unless a save has failed (`AtStake` is when there
is something to keep). That this is all a start finds is `FilesInHashes`: a database that is
in no hash, and so is not forced, has no file either.

`AnswersAreCurrent` is about any number of users. `QueueInv` says of a call in
the queue whose caller has not given up that it is that caller's only one and
the caller waits; `OwnCalls` that it is the call of the tool the caller runs;
and by `NameInv` the process that answers is the one whose tree is `Served`.
`AnswerInv` is the two together.

Two defects of the model came out of these proofs and are mended: the cases by
which a tool checks its arguments overlapped, and nothing said that requests
name paths.

**Only model-checked:** liveness (`RequestsReturn`, `EventuallyDurable`,
`CallersReturn`), since the prover does not reason about
fairness. Every invariant, action property and refinement of the passing runs
is a theorem. What a theorem does not carry over is the step between models:
that `DBTree` may save at any time is licensed by the theorems about
`SimpleJsonDB`, and that `Dbd` may take a request for `Written`, `Merged` or
`Cut` by those about `DBTree`, but no theorem composes them.

## 5. Not modelled

- Option parsing (what the options select are constants), `daemon()` and its
  fork, the choice of the bus by `-x`, logging.
- The layout of numbers: `NumberText` says which digits `QString::number()`
  keeps, not how it writes them.
- qmjson's own text format: `toJson` and `fromJson` are taken as inverse to
  each other on trees, and `fromJson` as refusing what is no JSON. Its sources
  are not in the repository.
- The transport of D-Bus, beyond what section 2 says.
- Failed saves in `DBTree` and `FlushTimer`. `SimpleJsonDB` has them, and `Dbd`
  where they matter most, at the exit (`ForceInVain`); before that a save that
  fails is in `Dbd` one that does not come. A save that fails leaves the old
  file: `QSaveFile` replaces it atomically or not at all. That the file of a
  removed database is gone with the removal is taken for granted in `DBTree` and
  `Dbd`: `QFile::remove` may fail too, and its result is ignored
  (`simplejsondb.cpp:180`).
- A signal in the middle of an action: `exitHandler` calls the logger and
  `quit()`, which are not safe there (`main.cpp:48`).
- The unit and performance tests, which were read for what they expect.

## 6. Plan

1. *Done:* `SimpleJsonDB`, its invariant, its refinement and its proofs.
2. *Done:* `DBTree` and `Db`, with every kind of value, and the refinement of
   `TreeStore`.
3. *Done:* processes, clients and tools, and the theorems about `Dbd`; time.
4. *Done:* theorems about `DBTree`, `Db` and `Tools`, with the lemmas about
   trees they share.
5. The composition of `DBTree` with the protocol of `SimpleJsonDB`, so that
   `dirty` and the saves in the middle of a request are those of the timers and
   threads, where `DBTree` allows them at any time.
