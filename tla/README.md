# D3Server: a TLA+ model of its threads, connections, requests, configuration and audit trail

D3Server ("diiis-mini") is a C++17 server of about 7,500 lines (without the
vendored libraries): a Battle.net server, a game server and a REST API behind one
`Server` class, a SQLite database, and utilities. Source paths below are relative
to `src/src/`. Large parts are still stubs; what follows models the parts that have
control flow worth checking, and says what each check found.

## 1. Inventory

| Component | State | Operations | Interacts with |
|---|---|---|---|
| **Server lifecycle** `main.cpp`, `core/src/server.cpp`, `run`/`shutdown`/destructors of the three servers | `m_running` flags, `m_serverThreads`, `m_ioThread`/`m_gameThread`, io_contexts | init, run, mainLoop, shutdown, destructors; the signal handler on the main thread; the admin API's detached `exit()` | every component; the operating system's signals |
| **Battle.net connections** `battle_net/src/*.cpp` | `m_clients` keyed by address; per client socket, read buffer, writes | accept, register, read header and body, answer, close, cleanup, shutdown | peers; `run()` thread through `m_clientsMutex` |
| **REST sessions** `rest_api/src/rest_server.cpp` | per session socket, request buffer; the routes | accept, read headers, read body, route, authorise, respond | peers; controllers, called on the IO thread |
| **Accounts** `rest_api/src/account_controller.cpp`, `database_utils/src/database_manager.cpp` | tables `accounts`, `characters` | create, get, update, delete an account; list and create characters | called by REST sessions |
| **Admin controller** `rest_api/src/admin_controller.cpp` | none of its own | shutdown, restart (detached threads), ban, status, logs | ends the process |
| **Audit log** `utils/src/audit.cpp` | `m_entries`, `m_maxEntries`, file, flags, callback | init, logAction, getRecentEntries, setEnabled, setAuditCallback, shutdown | any thread |
| **Configuration** `core/src/config.cpp` | map of texts, structures parsed from it, file | setValue, loadFromFile, saveToFile, parseConfig | read by all; the operator edits the file |
| **Mutexes and joins** of all of these | six kinds of mutex, the threads and who joins them | lock_guard, join(), callbacks under a mutex, the signal handler, `exit()` | every thread with every other |
| Game loop and world `game_server/src/` | flags, game thread, list of players and its mutex | run, gameLoop, shutdown; add, remove, update players | lifecycle |
| Debug log `utils/src/debug.cpp` | flag, mutex, timers, callback | init, log, start and stop timers | any thread |
| Logger `core/src/logger.cpp` | the mutexes of its sinks | log | any thread, a signal handler included |
| File/string/crypto helpers, game entities, packet header | none or trivial | conversions, input and output | - |

**Hard behaviours.** Signals that interrupt the main thread anywhere, shutdown and
log lines included; three pairs of threads with separate "running" flags; a table that
two threads use and that a handler uses in two critical sections; asynchronous reads
and writes whose handlers run after their socket was closed; requests that arrive in
pieces; statements of the database that fail; flags read outside the mutex that guards
what they describe; callbacks into a library that is inside its mutex; a map that is
changed before parsing it may throw, and a file that is emptied before it is written
again. PROJECT.json lists each hazard at its line.

**What correctness means.** *Lifecycle*: shutdown waits only for threads it has
stopped, destroys no joinable thread, takes components down in order, and ends.
*Battle.net*: the limit per address, one read at a time on a client's buffer, a
table that holds the open clients and only they stay in it, packets sent intact.
*REST*: no truncated body handled, complete requests answered, unique accounts that
own only their characters, errors without effect. *Audit*: a bounded list without gaps,
a file without a hole, that agrees with it, callbacks once and in order. *Configuration*: a call
that succeeds leaves nothing out of date, a failed one as little as it can, and a start
takes each value from the file or from its default. *Mutexes*: no threads wait for each other.

## 2. Modules

| Module | Models |
|---|---|
| `ServiceLifecycle` | abstract: what an operator is promised about the service's life |
| `ServerLifecycle` | main(), signal handlers, Server, the threads and flags of the three servers |
| `BattleNetClients` | connections, `m_clients`, read loop, writes, cleanup, shutdown of the Battle.net server |
| `Accounts` | the two tables, and the account controller's handlers as operators |
| `RestSessions` | REST sessions; EXTENDS `Accounts` and calls its handlers |
| `AuditLog` | the audit log |
| `Configuration` | the configuration's map, structures and file, over restarts |
| `LockHierarchy` | abstract: ranked mutexes and threads, each waited for only from below |
| `ServerLocks` | every mutex and every join() of the process, and who takes them in which order |
| `MC*` | instances for TLC |
| `*_proofs` | theorems and proofs |

Most modules hold, before some definitions, *deviants* of them: the definition with
a plausible bug. No behaviour uses them; the mutants of PROJECT.json replace the
definition by its deviant, to confirm that the property depends on it.

### ServerLifecycle
`pc` says where main() and the admin API's timer thread are, `sp[f]` where frame f
(main's `run()`, a signal's handler, the timer's `~Server`) is inside
`Server::shutdown`, `stack` the handlers on the main thread. Per component: the
thread in `run()` (`outer`), the IO or game thread (`inner`), the handle of the
latter, the flag (`up`) and the stop request (`halt`). A step runs between two points
where another thread or a signal could see a difference; lowering a component's flag
and stopping its io_context is one step. `halt` latches: a stopped io_context, or
`m_shutdownSignal`, is never reset. Simplification: two threads that join
the same `std::thread` (undefined behaviour) are both taken to wait.

### BattleNetClients
`clients` is `m_clients` with one connection per key (an address or "unknown");
`accepting` is the connection between the two critical sections of `handleAccept`.
`reads[c]` are the reads outstanding, `writes[c]` the writes whose handler has
not run and `left[c]` those of them that have bytes left to send. A handler is a step
of the single IO thread. `CleanupClients` is the `run()` thread. `removeClient()` is
declared and called but *defined nowhere* in the repository: it is external, and does what its
declaration says, the client removes itself. The header's contents are abstracted to valid or
not, with a body or not, answered or not.

### Accounts and RestSessions
Handlers of the controller run on the IO thread under `m_routesMutex`: reading the last bytes of
a request, handling it and starting the response is one step. `code` is the status
code that step made, 0 in any other step; `entire` says whether the body of the request
it answers was whole. An exception that leaves a handler (`Escapes`) destroys its session,
whose `phase` is "lost", and ends the IO thread (`io`). Two can: that of `stoi()` for a length
that fits no `int` (`LengthThrows`), and that of `dump()` for an error answer that quotes a body which
is not UTF-8 (`Throws`; `garbled` says that a body is one of those). `accountExists()` may answer "no" whenever its statement fails, and so may
insertions. Operations that `DatabaseManager` only declares (change a password, delete an
account, characters) are external: they do what the controller expects, or
fail without an effect. Foreign keys are not enforced by SQLite by default, so characters
may outlive their account. `number` is not in the table: it tells an account from a later one with its id.

### AuditLog
`logAction()` is `Look` (flags, without the mutex), `Record` (the critical
section), `LookForCallback` and `CallBack`; every control call is one critical section. A record is its
author and the number of its call. `disk` is what has reached the file since the last open. A write
may fail; nobody looks at the stream, so that `good` stays FALSE and `lost` grows with every
record until init() opens the file anew. The record of the first such write may still be whole in the
stream's `buffer`, from where a later flush() may write it.

### Configuration
A field is a section and a key that `parseConfig()` reads, `Place` where it is read there.
`config` is `m_config`, `parsed` the three structures, `file` the lines of the file. A call
changes the map first and then parses it up to the first number that makes `std::stoi`
throw (`Reached`). `saveToFile()` is a step that empties the file, one per line, and one that
returns; a write that fails leaves no line, or one cut short, and is not noticed; `Stop` is the
end of the process at any point, a save included; `Edit` is the operator's editor.
`std::stoi`, trimming and cutting a line short are constants: functions on texts.

### ServerLocks and LockHierarchy
A thread's program is a sequence of instructions: lock, unlock, wait for a mutex or a
thread's end (`await`), start a thread, set a flag, and the ones that decide what comes
next. Everything else the thread does is left out. A handler of a signal puts its
instructions on top of main()'s. A critical section in which nothing of interest happens
is a mere wait for the mutex, unless a handler may interrupt it (`Anywhere`). Log lines
outside critical sections (`Line`) matter only then as well. A program is the server, or two
`Users` that call the audit log, the world and the debug log's control, as the unit tests
do: nothing in the server calls the audit log or adds players yet. `wants` is what each
thread waits for, the variable that `LockHierarchy` speaks of. There a resource is a mutex
or a thread's life, and a thread waits only for what ranks above all it owns: main(), the
timer and the users 0, the threads that are joined 1, the mutexes that are held across other
calls 2, the debug log's 3, the sinks' 4.

## 3. Runs

| Run | Question | States |
|---|---|---|
| `lifecycle_settled` | three signals, each at any point of the others' handlers, once the server is up, and an exception on the REST IO thread: joins, destructors, and does ServerLifecycle implement ServiceLifecycle? | 11,226 |
| `lifecycle_anytime` | a signal at any moment, failing init(), failing thread creation, an admin shutdown, an exception on the REST IO thread: does the process end cleanly, and does it end? | 346,315 |
| `lifecycle_early_stop` | finding: the join of a Battle.net thread that was never told to stop | violated |
| `lifecycle_admin_exit` | finding: the process ends with component threads at work | violated |
| `audit_fixed` | two threads log between control calls, init() with one size, writes that fail | 4,154,815 |
| `bn_single` | three connections from two addresses, limit 1 | 357,713 |
| `bn_limit` | finding: a third connection under a limit of 2 | violated |
| `bn_wire` | finding: an answer sent from a destroyed buffer | violated |
| `rest_accounts` | two sessions on one login, bodies of 0 and 2 bytes, two accounts ever, three names, limit 2; lengths and bodies that make a handler throw | 392,934 |
| `locks_ordered` | the server with an admin shutdown and a signal between two critical sections of main(), or two users of its libraries: does ServerLocks implement LockHierarchy, does nobody wait for himself or in a circle, and can somebody always go on? | 705,051 |
| `locks_signal` | finding: a handler that waits for the sink's mutex that main() holds under it | violated |
| `config_restarts` | four fields, two of them numbers, set, edited, loaded, saved and torn between restarts | 133,116 |

**Bounds, and why they are enough.** Signals: a handler interrupted by one other
covers the check-then-store race of `shutdown()`; the third is one that is sent again, during
the others or after them; the set of signals is a parameter of the proofs. `lifecycle_anytime` and the
two lock runs have one signal. Connections: three are needed for a
client that lost its entry, one that overwrote it and one of another address; one packet
each reaches every state of the read loop. REST: a body of two bytes can come with the
headers, after them, or split; two accounts let a deleted one be followed by another,
three names exceed the limit of two; one session's exception meets the other in every phase. Audit: three calls of a thread are what a gap needs;
four control calls allow init, shutdown, init and a change. Locks: two users can meet in
every mutex, and the proofs are about any number of them.
Configuration: a text between nothing and a number, and a flag between two numbers, are the
orders in which a field can be before, at and behind a bad number; per field, its default and
two texts: one with white space or trailing letters, one that is another value or no number.

**Fairness.** Lifecycle: every thread that can take a step eventually does (WF per
step); no signal, request or failure is owed. Battle.net: handlers of the
IO thread and the 10 ms cleanup are fair; peers owe nothing and shutdown need not be
called. REST: while the IO thread lives, handlers that are ready run; peers owe nothing. `Answered`
leaves out the requests of which section 4 says that they are lost. The audit, lock and configuration
runs have no liveness: of a wait for a mutex `DeadlockFree` and `NeverStuck` say that there is
always somebody who goes on.
CHECK_DEADLOCK is off where the system may stop: the process ends, the bounds are used up,
or the IO thread has died. `config_restarts` and `lifecycle_settled` check deadlock.

## 4. Findings
1. **A signal during start-up hangs the shutdown** (`lifecycle_early_stop`). Between
   `m_running = true` in `Server::run` and the same in `BattleNetServer::run`, `shutdown()`
   skips the Battle.net server and later joins its thread.
2. **Admin shutdown races with main()** (`lifecycle_admin_exit`). `exit(0)` on a detached thread.
3. **The connection limit works only for 1** (`bn_limit`). The table that is counted has one entry per address.
4. **Writes from a destroyed buffer** (`bn_wire`).
5. **A signal while main() logs hangs the process** (`locks_signal`). The handler logs too, and
   the sink's mutex is not recursive.

Met while reading, not in a run:

* `BattleNetServer::removeClient` is called but not defined, and `BattleNetClient` is
  constructed with four arguments where it takes three; `main.cpp` calls a
  `Logger::getInstance()` that `logger.h` does not have (ServerLocks takes it as a log line).
* "Disconnect all clients" in `BattleNetServer::shutdown` clears the table but the sockets
  stay open while aborted handlers refer to their clients. An accept that fails at once is
  retried at once, so that the IO thread spins.
* `getAllAccounts` always answers an empty list. A route is compared with the whole URI
  (`rest_server.cpp:111`), so that the API key as a query parameter (`rest_api.md:13`), and the
  query parameters of `getLogs`, give 404.
* A Content-Length beyond an `int` (`rest_server.cpp:59`), or a body that does not parse at a byte
  above 0x7F (`account_controller.cpp:461`, `486`, and the same in the admin controller: the parser's message quotes
  the body and `dump()` refuses what is not UTF-8), throws out of the handler. That request is not
  answered, the IO thread ends, and no later request is answered either, with `m_running` still set.
* `writeToFile()` never looks at its stream: after one failed write the audit file stays open and lacks
  every later record until `init()` opens it again, while the list in memory goes on (`audit.cpp:355`).
* The audit list is not bounded by a smaller second maxEntries, only by the largest: one entry is
  dropped for one appended (`audit.cpp:106`, against `audit.h:82`). A record may be kept after `shutdown()`: the
  flags are read before the mutex is taken (`audit.cpp:126`). The test FilterEntries expects two
  SUCCESS records although init() writes one of its own (`test/unit`).
* `Debug::init(true)`, the default, and `stopTimer()` call `log()` under the mutex that
  `log()` locks (`debug.cpp:19, 98`): with DebugOn, ServerLocks has a thread that waits for itself after three steps.
* `saveToFile()` returns true though writes failed, against its declaration; `main()` ignores the
  result of `loadFromFile()`; one bad number makes every later `setValue()` throw; the flag
  `" true"` is false until it is saved and loaded; keys that begin like a comment or a section and
  values with line ends are saved but not loaded again; a number cut short by a full disk is loaded.
* `~Server` logs during static destruction, when the logger may be gone. Negative limits of the
  configuration are no limit at all.

## 5. Proofs
All proofs hold for every value of the constants that meets the named assumptions
(sets of signals or threads distinct from reserved names, limits that are numbers, `Stoi` and
`Trim` functions on texts that agree as `std::stoi` does with white space).

* `ServerLifecycle_proofs`: `TypeCorrect` and `ExitIsClean` (CleanExit). CleanExit is
  not inductive: `IInv` adds who owns each thread (OuterOwned, InnerOwned), the order in
  which main() starts threads (SpawnOrder), and that what a destructor has found not
  joinable stays so (DestroyedClean).
* `SettledServer_proofs`: with the hypothesis `StartsInPeace` (no signal or admin request before
  the server is up, which `lifecycle_early_stop` violates, and threads can be created),
  `JoinsAreSafe` and `GameFlagIsLast`. The admin shutdown is allowed: main() and the timer thread
  may be in `shutdown()` at once, so the invariant (PInv) speaks of no order between them, only
  of what each has seen lowered or joined on its way. With `LeftAlone`, which also excludes the
  admin shutdown (`lifecycle_admin_exit`): `NoTerminate`, `ClientsEndWithRun`, and the
  refinement `ServerIsAService`. No hypothesis is idle: TLC refutes all four invariants with an early
  signal or with a failing thread creation, and the last two with an admin shutdown. The argument is about nested handlers:
  of those on the stack, a handler that has lowered `m_running` is interrupted only by ones that
  have yet to find it low (Nested), so that whoever acts inside `shutdown()` is alone there (lemma
  `Alone`). What it has done by each point (Achieved), what a lowered flag says of the thread
  behind it (Joined) and that a finished shutdown has taken everything down (Complete) are then
  kept step by step, one lemma per step of `shutdown()`. For the refinement, GameReady adds that
  init() has raised the game server's flag; starting a component, the store of `m_running`, the
  joins and the last destructor are the abstract steps, all else changes nothing of the abstract state.
* `BattleNetClients_proofs`: `ClientsTypeCorrect`; `OneReadEachHolds`, from NotStarted (no
  read before `start()`); `HigherLimitsAreNone`, the finding `bn_limit` for every limit, from
  EntryIsClient (an entry is a client under its own key); `OwnsEntryHolds`, for limits 0 and 1,
  from this and AddressIsFree (between its two
  critical sections `handleAccept` still has the address to itself, because cleanup
  only removes); `LimitOfOneHolds`, for the same limits, from LimitInv: an open
  client whose peer is there goes by the address it came from, and is the only one to do so.
* `RestSessions_proofs`: `SessionsTypeCorrect`, `UniqueLoginHolds`, `OwnCharactersHold`,
  `CharactersAreBounded`, `BodiesAreWhole` and `ErrorsAreHarmless` (an action property). Every handler is
  shown to be one of five kinds of step of the database (DataStep), and none when it
  reports an error or is left by an exception. The invariant is stronger than the properties: it speaks of
  the lists of deleted accounts too, and says that ids are given out once (created =
  lastId, an account's id is its number); and that a session which waits for a
  body has a length that fits.
* `AuditLog_proofs`: `AuditTypeCorrect`; `LargestSizeBounds` for any sizes, from BoundedBy (nothing
  is recorded before the first init()), and `FixedSizeBounds` when init() is always given the
  same one; `FileHasNoHole` for any sizes and any failed writes, from FileInv: the file agrees with the
  list behind the `lost` newest records, and a record in the buffer is the first of these, so that
  writing it late leaves no hole; `CallbacksInOrder`, since a
  thread tells the callback of the call it is in, which is later than all it told before; and
  `RecordsWithoutGaps`, whose invariant adds that from each record of a thread
  the list goes on, call by call, to the last one the thread has finished recording (Latest).
* `Configuration_proofs`: all five properties, from one invariant (CInv): the structures agree
  with the map up to its first bad number; after a start they are what parsing the defaults and
  then the file gives; and a file that holds a whole save is that map.
* `LockHierarchy_proofs`: `HierarchyIsDeadlockFree`. Of the resources that waiting threads
  wait for, take one of greatest rank: its owner, if it waited, would wait for one above it.
* `ServerLocks_proofs`, for any users, start configurations and signals. A program is a sequence
  that grows with the depth of the calls, so the invariants follow it: `Through` says that its
  instructions, one after the other, take a thread from the mutexes it holds to those it
  holds at the end. `LocksTypeCorrect` has no hypothesis: KInv follows what is still to be
  unlocked. `LocksAreOrdered` (the refinement `HierarchySpec`), `NoDeadlock` and
  `NobodyIsStuck` assume `Undisturbed`: the debug log is off and no handler interrupts a
  critical section of main(), which is what the finding `locks_signal` and `Debug::init(true)`
  break. OInv says that what a thread has left is `Orderly`: each lock and each join in it
  ranks above what is held at that point, and what depends on other threads (joins in a shutdown,
  requests, handlers) begins with no mutex held. For `NobodyIsStuck`, SInv adds that
  only threads that were started are joined: who waits for a mutex waits for an owner who has
  still to unlock it, who waits for a thread waits for one that runs, and an endless chain of
  those is what `NoDeadlock` excludes. `HierarchySuffices` is the abstract theorem in terms of
  ServerLocks.

**Only model-checked**: liveness (`StartedServerStops`, `GoneIsRemoved`, `Answered`) and the
fairness of `ServiceSpec`, which are out of the prover's reach. All the other properties of the
passing runs are theorems.

## 6. Plan
Done: lifecycle first, because every component depends on it; then connections, requests and
audit; then configuration and the mutexes and joins of all components together; then the proofs
that were left, the programs of ServerLocks last. What could be added:
1. The server with the audit log and the world in use, once its components call them.
2. The limits that `Configuration` parses as the constants of `BattleNetClients` and `Accounts`, once
   a value can change while the server runs.

## 7. Not modelled
The logger but for its mutex (a wrapper of spdlog); the debug log's lines and timers, which do
nothing while it is off, and it cannot be turned on; helpers for files, strings and cryptography
(stateless); the packet header's serialisation; the contents of the world, a set that only tests fill;
player, item, client and session headers of the game server (getters, or no implementation); the
text of requests, responses and log lines; the vendored libraries. Negative limits are
modelled where the code casts them (`Full`); no property says what they should mean.
The lifecycle model has no mutexes and the lock model no data: they meet only in the order of the
steps of `shutdown()`, which both take from the same lines.
