# Jepsen in TLA+

A verification project for [Jepsen](../src/README.md), the framework that tests
distributed databases: it draws operations from a generator, applies them
through clients while a nemesis injects faults, journals everything to a
history and hands the history to checkers. What the checkers conclude is worth
no more than the history, and the history no more than the scheduler, the
lifecycle of the test and its clients, the fault injectors, the shared
connections behind it and the file it is kept in. Those are the parts modelled
here.

The library is `src/jepsen/`; the other directories of `src/` are tests of
particular databases that use it and are out of scope.

    Context ─┬── Interpreter ── InterpreterProperties ─┬─ MCInterpreter
             │                       │ INSTANCE         └─ InterpreterProofs ─┐
             │                  ProcessHistory (abstract)                     │
             ├── ContextProofs ───────────────────────────────────────────────┤
             └── Independent ── IndependentProperties ─┬─ IndependentProofs ──┘
                                                       └─ MCIndependent
    Lifecycle ── LifecycleProperties ─┬─ MCLifecycle
                                      └─ LifecycleProofs
    StoreFormat ── StoreFormatProperties ─┬─ MCStoreFormat
                       │ INSTANCE         └─ StoreFormatProofs
                  SavedTest (abstract)
    CorruptFile ── CorruptFileProperties ─┬─ MCCorruptFile
                                          └─ CorruptFileProofs
    ClockTools ── ClockToolsProperties ─┬─ MCClockTools
                                        └─ ClockToolsProofs
    Reconnect ── ReconnectProperties ─┬─ MCReconnect
                                      └─ ReconnectProofs

`PROJECT.json` maps every definition that models code to its source lines, and
lists runs, mutants, hazards, findings and theorems. To check something:

    tlc -workers 2 -config InterpreterCore.cfg MCInterpreter
    tlapm InterpreterProofs.tla

## Inventory

| Component | State it keeps | Operations | What is hard about it |
|---|---|---|---|
| Generator interpreter (`generator/interpreter.clj`) | context, outstanding count, op index, one queue per worker, the completion queue, each worker's process and client | poll a completion, ask the generator, dispatch, send `:exit`, cancel and reap; take, open, close, invoke, reply | main loop and workers share only queues; any call may throw; the abort interrupts workers anywhere |
| Context and translation table (`generator/context.clj`, `generator/translation_table.clj`) | free threads, thread/process maps, rotation index (immutable) | busy-thread, free-thread, with-next-process, some-free-process, filters | renumbering of crashed processes; even rotation |
| Generator combinators (`generator.clj`) | immutable generator values | `op`, `update` | composition of time, thread filters and pending |
| Client and nemesis protocols (`client.clj`, `nemesis.clj`) | — | validate, timeout, partition, compose | a timeout racing a late answer |
| File corrupter (`resources/corrupt-file.c`, `nemesis/file.clj`) | the file, the snapshot directory | copy, snapshot, restore, bitflip, clear | chunk arithmetic; partial failure; the database writes the same file |
| Clock tools (`resources/strobe-time.c`, `bump-time.c`, `nemesis/time.clj`, the cockroachdb suite's `bumptime.c`) | the node's wall clock | strobe, bump, reset | time passes between reading and setting; lost sessions |
| Reconnecting wrapper, SSH retries (`reconnect.clj`, `control/retry.clj`, `control/sshj.clj`) | current connection, read-write lock, permits | open!, close!, reopen!, with-conn, with-retry | the lock is released between a failure and its repair |
| Independent keys (`independent.clj`) | per-key generators, groups of threads | sequential/concurrent generators, history split | every free group is asked and all answers but one are thrown away; late completions |
| Membership nemesis (`nemesis/membership.clj`) | node views, pending ops | view futures, resolve, resolve-op | futures update shared state while the nemesis acts |
| Store (`store.clj`, `store/format.clj`) | block file with an index pointer, the history writer's queue | save-0/1/2, append, read, analyze, gc | a crash between two writes; a writer thread that dies |
| Test lifecycle (`core.clj`, `db.clj`) | barrier, sessions, clients, the nemesis' future | `run!`, `cycle!`, `synchronize`, setups and teardowns | five nested finally clauses, a thread per node, retries of setup |
| File cache (`fs_cache.clj`), utilities (`util.clj`) | named locks, cached paths | save, load, with-lock, timeout, await-fn | locks by name, interrupts |
| Checkers, workloads (`checker.clj`, `tests/*.clj`) | — (pure) | check | reference definitions of validity |
| Control, net, lazyfs, OS, CLI, web | — | commands and output | input and output only |

How they meet: the interpreter owns the context and passes it to generators;
workers call clients and the nemesis; nemeses run programs on nodes through
`control`, which goes through the retry remote, a reconnecting wrapper per node
and the SSHJ remote; the history goes to the store and to the checkers. `run!`
of `core.clj` wraps all of it: it sets up nodes, clients and nemesis before the
interpreter and tears them down behind it. The concurrent generator of
`independent.clj` is modelled together with the interpreter's side of the
generator protocol and the context they share.

## The interpreter: `Context`, `Interpreter`, `InterpreterProperties`

`Context` is `context.clj` and the translation table as operators on records:
bit sets are sets, the rotation index is a number, and the maps keep the names
of the code. Its operators are shared by `Interpreter` and `Independent`.

`Interpreter` has one variable per piece of state in `run!` and `spawn-worker`
and one action per step that other threads can tell apart. The main thread is
`PollCompletion`, `PollEmpty`, `AskOp`, `AskAgain`, `AskExit`, `Dispatch`,
`SendExit`, `JoinAll`, and on an error `PollThrows`, `AskThrows`,
`DispatchThrows`, `JoinThrows`, then `Cancel` and `Reap`. A worker is `Take`,
`Control` (`:sleep`, `:log`), `CloseOld`, `OpenClient`, `OpenFails` (an Exception),
`OpenCrashes` (an Error), `Invoke`, `Reply`, `ReplyCrash`, `Close` and the ways
these throw or are interrupted. A worker's interrupt flag is state of its own, because whether the abort reaches
a worker in `take`, in `invoke!`, in `put` or in the catch block decides
whether it ever exits.

Abstractions:

- The generator, the clients and the nemesis belong to the author of a test.
  They are a choice among everything the validators in `generator.clj`,
  `client.clj` and `nemesis.clj` accept. A generator names only processes of
  the context it is given; clients get `:invoke`, the nemesis `:info`.
- Operations keep process, type, time and `:end-process?`; `:f` and `:value`
  do not affect control. An operation bears the time its generator gave it, any
  time up to now: the loop only waits for times to come, and journals an
  operation of the past as it is.
- `AskAgain` is the three ways the loop keeps its generator: nil with
  operations outstanding, `:pending`, and an operation in the future.
- The clock ticks between any two steps, up to `MaxTime`.
- `Faults` says which calls may throw: the generator, `open!`, `close!`,
  `invoke!`, and `sleep` (a `:sleep` whose value is no number).

`ProcessHistory` is the promise to the checkers, without threads, queues or
clients: a process does one operation at a time, and a client process whose
operation crashed is silent for ever, its successor, numbered `Concurrency`
higher, starting only then. `RefinesProcessHistory` maps it onto the journal
alone: which processes are idle, running or retired is computed from `history`
and nothing else.

| Run | Bounds | Checks |
|---|---|---|
| `interpreter_core` | 2 clients, reusable, 3 ops | `TypeOK`, `ClientsBelongToProcesses`, `ProcessMapsAgree`, `OneOpPerBusyThread`, `OutstandingExact`, `MainPutsNeverBlock`, `NothingPendingOnReturn`, `RefinesProcessHistory` |
| `interpreter_clients` | 1 client, not reusable, 2 ops, 1 tick, `:sleep`, `:log`, `:end-process?`, every fault, fairness | `ClientsBelongToProcesses`, `NoConnectionLeaks`, `HistoryDenseAndTimed`, `RunEnds` |
| `interpreter_abort` | 1 client, 1 op, a generator that throws, fairness | `WorkersExitAfterThrow` — **violated**, finding 1 |

Why the bounds are enough: with two clients and a nemesis three operations are
in flight together; with three operations one thread crashes, is renumbered,
crashes again and is renumbered again, each time with its reusable client. Clients
are private to a worker, so one client and the nemesis suffice for their lifecycle,
and two operations reach a client that fails to open and is opened for the next
operation, and one that crashes and whose close fails, or whose successor does not
open; longer histories of failures are what the proofs are for. One tick is enough
to tell the time of an invocation, past or present, from that of its completion,
with the nemesis writing in between.
`HistoryDenseAndTimed` speaks of completions by clients: times of a history are
not sorted, because invocations may bear past ones, and the nemesis' completions
look the same as its invocations. At the end `NoConnectionLeaks` speaks of runs that
return; finding 1 is about those that throw. Everything but `RunEnds` is proved for
all constants below.

Fairness (`RunEnds`, `WorkersExitAfterThrow`): weak fairness of the main thread
and of each worker, i.e. the JVM runs what can run and client calls return or
throw; strong fairness of `AskOp \/ AskExit`, i.e. a generator polled for ever
does not answer `:pending` for ever. The code cannot guarantee the latter (it
is the author's generator), which is why it is an assumption of liveness only.

## Independent keys: `Independent`, `IndependentProperties`

The concurrent generator of `independent.clj`, driven as the interpreter does.
Client threads are split into groups; a group works on one key until that key's
generator is exhausted. Generators are immutable values, so what can go wrong is
which value is kept: a call of `op` asks the generator of every free group,
replaces exhausted ones by those of new keys, and returns one operation; the
interpreter keeps the returned generator only if it runs that operation. The
loop of such a call works on a copy of the state (`call`): `Offer`,
`OfferPending`, `Replace` and `RunDry` are its iterations, and only `Yield` puts
the copy in force. `AskAgain` is what the interpreter does with `:pending`, with an
operation whose time has not come, and with nil while operations are running; `End`
is the last nil; `Complete` is its handling of a completion, with the update
of the generator before the crashed process gets its next number.

`fgen` may return nil for a key (`NilKeys`). The call takes such a key, leaves the
group without a generator and goes on to the next group, as it does when no keys
are left (`RunDry`): the code does not tell the two apart, and a group that is
asked again later takes another key. What becomes of the keys behind is finding 3.

A key's generator is a number of operations, the last of which may be a phase of
its own (`SyncKeys`, `gen/synchronize`); it remembers which events it was told
of. Times of operations are a choice, as is the order of the set of groups.

| Run | Bounds | Checks |
|---|---|---|
| `independent_keys` | 4 threads in groups of 2, 5 keys, up to two operations each, two keys synchronized, two without a generator, 2 crashes, fairness | `OneGroupPerKey`, `EveryOperationOnce`, `EventsReachTheirGenerator`, `TestEnds` |
| `independent_nil` | one group of 2 threads, 3 keys, the second without a generator | `EveryKeyIsRun` — **violated**, finding 3 |

`OneGroupPerKey`: all operations of a key run in one group of threads, which is
what makes keys independent. `EveryOperationOnce`: no operation is lost or
repeated, and when the test ends every key was run whole, or is behind at least as
many keys without a generator as there are groups. `EventsReachTheirGenerator`: a
generator hears of every invocation and, as long as it is in place, every
completion of its operations.

Why the bounds are enough: with two groups and five keys one group goes on to
another key while the other is busy, pending or exhausted; generators of size
zero are replaced within a call, several in a row; one group or both meet a key
without a generator, in one call or in two, with a key behind it that is then run
or left out; crashes renumber both threads of a group, or one twice. All but
`TestEnds` is proved for any number of threads, groups, keys, operations and
crashes (`IndependentProofs`). Fairness: the interpreter goes on (weak); an
operation that is offered again and again comes due (strong: `Yield`); and an
operation that runs completes (strong, since completions are polled only between
calls). The test ends, so deadlock is not checked.

## The test lifecycle: `Lifecycle`, `LifecycleProperties`

`run!` of `core.clj`: sessions, operating systems, `db/cycle!` with its retries,
the primary, clients and nemesis, the test case, and the way back through the
finally clauses, save, log files and analysis. The main thread goes from phase to
phase (`AfterReturn`, `AfterThrow`). A phase on nodes is a `real-pmap`: a thread
per node that the main thread waits for; when one throws, the others are
interrupted, and an interrupted thread throws at its next blocking call or runs
to its end. What the phase throws is the first exception of a kind worth
reporting. A database's `setup!` is the pattern of the suites (tidb's, for
instance): install, `synchronize`, start; nodes in `skips` do not synchronize,
as a setup that does so on some nodes only. A setup that throws may leave a part of
an install behind (`MayInstallPart`). The barrier is Java's: await returns
when all have arrived, and throws, for everyone, once a waiting thread is
interrupted or times out, for ever after. The nemesis is set up and torn down by
futures that nothing interrupts.

External, modelled from use: `CyclicBarrier` and dom-top's `real-pmap-helper`.
`entered`, `spoiled` and `stuck` are auxiliary; the last holds the nodes whose
disconnect threw (`DisconnectFails`), an exception that `with-resources` drops with
the session still open. The test case is one step: it is what
`Interpreter` models.

- `lifecycle`: two nodes, three tries of `cycle!` (the constant of the code), up
  to three calls that throw, `::setup-failed` among them. `SetupStartsClean`,
  `BarrierSeparatesPhases`, `UsersHaveTheirSystem`, `NothingLeftBehind` (the sessions
  that are open are those whose own disconnect threw; unless a teardown failed, no
  database of this test is there, nor a part of one), and `RunEnds` under fairness.
  Three faults use up all tries, or fail a setup, its teardown and the next teardown.

Fairness: every thread goes on, that is, what `setup!`, `teardown!` and clients
call returns or throws in the end, and a wait with a timeout ends. Faults and
interrupts are not assumed to happen. `run!` ends, so deadlock is not checked.

## The test file: `StoreFormat`, `StoreFormatProperties`, `SavedTest`

The block file of `store/format.clj` as `core/run!` and the analyze command write
it. The file is a header, a pointer and a sequence of blocks, a block's place
standing for its offset. Every block is written in two steps, data and header,
and is sealed after the second: in between its checksum does not match. The main
thread writes save-0 (`write-initial-test!`), runs the test, and writes save-1
and save-2; a thread of its own writes the history from a bounded queue, chunk by
chunk, each with a new version of the history vector and a new index. The
process may die between any two steps, a write may throw in either thread;
another process may analyze the test again, or collect garbage.

`SavedTest` is what the file promises, without blocks: the test that can be read
only ever gets on with its stages and its history only grows, by operations in
their order; once whole it stays whole. `KeepsItsPromise` maps it onto what a
reader of the file would find at this very moment (`Readable`, `HistoryOf`), so a
crash at any point is covered by every state.

- `store_format`: chunks of two operations, a run of up to eight (four chunks: the
  queue, of two, fills up), one more analysis, write errors.
  `IndexedBlocksAreComplete` (every block listed by the index the pointer names
  is whole), `SealedBlocksAreFinal` (a sealed block is never written again),
  `LossIsBounded` (a crash loses at most the queue, the open chunk and the one
  operation in hand: `2 * chunk + chunk + 1`), `RunReturnsWholeHistory`,
  `KeepsItsPromise`, and `SavingEnds` under fairness of both threads.

Why the bounds are enough: eight operations fill four chunks, so that the queue
is full while the writer holds both a chunk and the operation that did not fit,
and vectors of one to four chunks are read back; shorter runs end on a chunk that
is open, just full or empty. A second analysis finds results to replace and, when
the first left some, garbage to collect. All but `SavingEnds` is proved for any
size of chunk, any number of operations and of analyses (`StoreFormatProofs`).

The crash is that of the process: what it wrote survives. The code never forces
a save to disk (`flush!` has no caller in a save), so nothing is promised for a
crash of the machine, and nothing checked. `SavingEnds` excepts one state that
the run reaches: a history writer that died behind a full queue, where `.put`
blocks for ever. A file may lie untouched for ever, so deadlock is not checked.

## The file corrupter: `CorruptFile`, `CorruptFileProperties`

The program `corrupt-file.c`, run up to `MaxRuns` times with any command line of
`Options` on one file, while the database may overwrite, truncate or extend that
file. A byte is where it first stood and which of its bits were flipped, so that
"copied from there" and "flipped once" can be told from the state. One step
handles one chunk (copy, snapshot, restore) or one bit (bitflip), as the
program's loops do; option validation, the exit statuses, the failure of any
system call and the snapshot directory keyed by chunk bounds are modelled.
Random choices (`rand_exp_int`, `rand_source_offset`, the per-chunk dice) are
nondeterministic; the length of a roll is capped by `MaxGap`. The program's
undefined behaviour is a choice over its outcomes: a rate of 0 in `rand_exp_int`
converts an infinite double to `off_t` and gives one of its ends; the roll with
`u = 0` is left out. `copy_file_range` refuses overlapping ranges,
which different chunks never are; were there no chunk for `rand_source_offset`
to settle on, `ToolEnds` would be violated.

| Run | Bounds | Checks |
|---|---|---|
| `corrupt_modes` | 1 run of every mode over files of 0 and 4 bytes, one write by the database, fairness | `CopiesAreClean`, `BitflipsAreCounted`, `OnlyAffectedBytes`, `ToolEnds` |
| `corrupt_rollback` | 3 runs of snapshot, bitflip, restore or clear, 4 bytes, system calls fail | `RestoresAreExact` (while nobody else writes: bytes go back where they came from; restoring every chunk from offset 0 restores all) |
| `corrupt_restore` | as `corrupt_rollback`, no failures | `RestoreRollsBack` — **violated**, finding 2 |

Why the bounds are enough: chunks of one and two bytes in files of at most four,
with regions that start at 0 or 1 and end inside, at or beyond the end of the
file, give empty, whole, short and single chunks at both ends and up to four
chunks in a region; with moduli 1 and 2 and indices 0 and 1 there are affected
and clean chunks on either side. A byte has two bits (`ByteBits`), enough to
flip one, both or none. Three runs are a snapshot, a corruption and a restore.
The safety properties are proved for any of these (`CorruptFileProofs`).
`ToolEnds` assumes weak fairness of the tool: a started program keeps running.
Deadlock is not checked, because the tool really stops after its last run.

## The clock tools: `ClockTools`, `ClockToolsProperties`

`strobe-time.c`, `bump-time.c` and the `bumptime.c` of the cockroachdb suite, which
counts in microseconds, as processes on one node with a monotonic
clock and a wall clock `skew` ahead of it. Every read and every set of a clock is
a step; at most `MaxDelay` passes between a read and the set that uses it.
`timespec` and `timeval` arithmetic is that of the code with `NanosPerSec = 4` and
`NanosPerMicro = 2`, the loops of `balance_timespec_m` in closed form. C leaves the order in which the arguments
of `sub_timespec(wall_now(), monotonic_now())` are evaluated open: both orders
are taken. The sleep of a period between changes may take any time. `Reset` is
the nemesis' ntpdate; `LoseSession` is an SSH session that fails while its
program goes on, after which the nemesis may start another.

- `clock_skew`: two programs, one after the other or, when a session was lost, at
  the same time; deltas of less than a second forward and more than one back,
  failing system calls: `TimesAreBalanced`, `ClockWhereAsked` (a
  program that nothing else met sets the clock to where it found it, or delta
  ahead, up to the delay of this one step: delays never add up). The processes
  are symmetric.

Deadlock is not checked: programs end and the monotonic clock stops at
`MaxTime`. With four nanoseconds to the second and deltas of 3 and -5 sums
and differences borrow and carry, and microseconds truncate. `base` and `alone` are auxiliary.

## The reconnecting wrapper: `Reconnect`, `ReconnectProperties`

Threads that share one wrapper (`reconnect.clj`) through the retrying remote
(`control/retry.clj`) over SSHJ with its permits (`control/sshj.clj`). What runs
under the write lock excludes everyone, so it is one step guarded by
`readers = {}`; everything else is a step of its own: taking the read lock,
acquiring a permit, the body's return, failure or interrupt, the gap between
releasing the read lock and taking the write lock, the reopening or its failure,
the rethrow, the retry, or an interrupt of the sleep before it. A call is a command
or a transfer of files (`kind`); only commands take permits. `open!` and `close!` may
be called by any thread. A connection is open from the return of `:open` on: what
an `:open` that throws leaves behind nobody can close (see below).
`faulted`, `broken` and `tried` are auxiliary.

- `reconnect_shared`: two threads, one retry, one permit, two connections:
  `TypeOK`, `OnlyCurrentIsOpen`, `RetriesUseAnotherConn`, `NoneClosedInUse`,
  `OnlyFailedAreReplaced` and, under fairness, `CallsEnd`. Two threads are one that failed and one that is in a
  body, has already repaired, or closes the wrapper; two connections are one and
  its replacement, after which every `:open` fails. All but `CallsEnd` is proved for
  any number of threads, retries, permits and connections.

The fairness is strong fairness of each thread's own steps: bodies end, the
semaphore is fair, and a reader queues behind a waiting writer
(`ReentrantReadWriteLock`), so neither lock passes anyone over for ever.
Interrupts are not assumed to happen.

## Type invariants

Every module of properties has a `TypeOK`. All are proved, for all constants: the
proof of every component starts from it. A run checks those of `Interpreter` and
`Reconnect`; the others can be checked, as the inductive invariants can, by adding
them to the `INVARIANTS` of a configuration.

## Mutants

Every property of a passing run has a mutant in `PROJECT.json`: a definition
that stands next to the original in the module, changed the way a plausible bug
in that code would change it, under which TLC finds the property violated. They
are the operators whose comment begins with "Mutant"; nothing else uses them.

## What is proved

TLAPS checks every proof module to the last step. The inductive invariants stand
in the modules of properties, where TLC can check them as invariants of a run
(which is how they were found); each proof module has a lemma per action, and
then one theorem per property. What the operations of the context change and keep is
in `ContextProofs`, for the two components that share it: thread `t` runs processes
`t + k * Concurrency` (`Numbered`), so numbers never collide (`NextIsFresh`,
`NextProcessIsNumbered`), and a free process is found when there is one
(`SomeFreeProcessIsFree`).

Part 1 of `InterpreterProofs` proves, for any number of clients, any bounds, any faults and
controls, from `ContextAssumption`, `InterpreterAssumption` and `NoneIsNoOp`:

- `TypeCorrectness`: `Spec => []TypeOK`;
- `ProcessesAreUnique`: `ProcessMapsAgree`, the two maps of the context stay
  inverse, so every completion finds its thread;
- `OperationsAreConserved`: `OneOpPerBusyThread`, every busy thread's operation is
  in exactly one of its queue, its worker and the completion queue;
- `OutstandingIsExact`: `OutstandingExact`, the counter that decides whether the
  run may end is the number of busy threads;
- `MainNeverBlocks`: `MainPutsNeverBlock`, no `.put` of the main thread finds a
  queue full.

None of these is inductive alone. The invariant is `SchedulingInv`, which adds:
a worker holds an operation exactly while it evaluates or answers it; the staged
operation is for a free thread; nobody is interrupted while the loop runs; and
`ProcessNumbering`, a client thread `t` runs processes `t + k * Concurrency`. The
last is why uniqueness survives renumbering: two threads whose processes are in
different residue classes never collide. The maps' inverse property gives that a
completion frees the thread it came from, which with conservation gives the
counter. One lemma per action, then one theorem per conjunct.

`ReconnectProofs` proves, for any set of threads, any number of retries, permits
and connections, from `ReconnectAssumption`:

- `WrapperTypes`: `TypeOK`, which says that the read lock is held exactly in a
  body;
- `NoConnectionIsLeaked`: `OnlyCurrentIsOpen`;
- `RetriesReconnect`: `RetriesUseAnotherConn`;
- `BodiesKeepTheirConn` and `HealthyConnsAreKept`: the action properties
  `NoneClosedInUse` and `OnlyFailedAreReplaced`.

The invariant `WrapperInv` adds that connection names are fresh (`NamesAreFresh`),
that a thread which waits for the write lock failed on what it has bound and
never retries after nil (`FailedForAReason`), and that what a call has failed on
is no longer current or could not be replaced, except while this very thread
waits to reopen it (`Left`).

Part 2 of `InterpreterProofs` goes on, from the same assumptions as part 1, with the
clients:

- `ClientInvariant` and `ClientsAreTheirProcesses`: `ClientsBelongToProcesses`, an
  operation is invoked on a client that was opened for its process;
- `LeavingInvariant` and `NoConnectionIsLeaked`: `NoConnectionLeaks`, a run that
  returns has closed every client it opened.

`ClientInv` says that a worker's process field is its thread's process or an
older one of that thread, that what it holds is an operation of its thread's
process, and that the open connections are exactly those in the workers' fields;
it needs `ProcessNumbering` to know that a renumbered process is none an earlier
client was opened for. `LeavingInOrder` is about the end: no worker leaves before
the exit messages are sent, and from then on nothing is under way, so each worker
that has left has closed its client on its way.

Part 3 is about what the checkers get:

- `HistoryIsDenseAndTimed`: `HistoryDenseAndTimed`, from `JournalInv` (nothing that
  was journaled is dated later than now);
- `NothingIsPendingOnReturn`: `NothingPendingOnReturn`;
- `HistoryRefinement`: `RefinesProcessHistory`, every behaviour of the interpreter
  is, seen through its journal, one of `ProcessHistory`.

The last two rest on `HistoryInv`, which ties the journal to the queues: a process
is running according to the history exactly when its thread has a journaled
invocation in its queue, at its worker or on the way back; it is retired exactly
when its thread went on to a later process; what travels to a worker is an
invocation and what travels back a completion. They have one hypothesis,
`ControlsDoNotCrash`: without it they are false. A `:sleep` that throws is answered
with an `:info`, which is journaled although its invocation was not
(`interpreter.clj:145-184`, `goes-in-history?`). The hypothesis holds in
`interpreter_core`, where both are checked, and in every test whose `:sleep`s have
numbers for values.

`IndependentProofs` proves, for any number of client threads in groups of any size
that divides it, any keys, any number of operations and of crashes, from
`ContextAssumption`, `IndependentAssumption` and `NilAssumption` (nil is neither an
operation nor a generator):

- `KeysAreAccountedFor`: `IndependentInv`, and `TypeCorrectness`: `TypeOK`;
- `EveryKeyHasOneGroup`: `OneGroupPerKey`;
- `OperationsAreRunOnce`: `EveryOperationOnce`;
- `EveryKeyIsRunWhole`: `EveryKeyIsRun`, if fewer keys than there are groups have no
  generator; that this is what it takes is finding 3;
- `NoEventIsMissed`: `EventsReachTheirGenerator`.

`IndependentInv` says what is running (`FlightInv`: operations belong to the busy
threads, under the processes these have now, which is where `Numbered` comes in: a
completion finds its thread, and so its group) and what keys and generators must
look like (`KeysInv`): a key is still to be taken, or belongs to one group, whose
generator accounts for all that was run of it and all that is still to come, or
was run whole. `KeysInv` is stated of any keys and generators, because it has to
hold twice: of those in force and, while a call of `op` goes on (`CallInv`), of the
copy that the call works on. That is what makes it sound to throw the copy away
when the call answers `:pending`, and to put it in force when it answers an
operation. A generator is replaced only when it is exhausted,
which by this account means that its key was run whole. As long as keys remain, each
group without a generator has taken a key that has none, a key of its own
(`CameUponNil`): when all groups are left without one, that many such keys come before
the first key that remains, whence the bound in `EveryOperationOnce`.

`LifecycleProofs` proves, for any finite set of nodes, any number of tries and of
faults, from `LifecycleAssumption` and `NoneIsNoException`:

- `SetupIsClean`: `SetupStartsClean`;
- `PhasesAreSeparated`: `BarrierSeparatesPhases`;
- `SystemOutlivesItsUsers`: `UsersHaveTheirSystem`;
- `NodesAreLeftClean`: `NothingLeftBehind`.

`LifecycleInv` says what each phase of `run!` may count on (`ReadyForPhase`), what a
thread of the phase has done to its node so far (`NodeProgress`, which becomes the
next phase's `ReadyForPhase` once all have returned), what the way back has taken
down (`TornDown`; a session that is still open had its disconnect throw), that whoever waits at the barrier is a thread of this phase
(`WaitingInThisTry`: a retry of `cycle!` starts with nobody waiting, which is why
the barrier cannot let a node of this try through on arrivals of the last), and
that a thread that threw left its exception (`ThrownIsKept`: without it a phase
with a failed node could be taken for one that returned).

`ClockToolsProofs` proves, for any number of programs, any deltas, any length of a
second that is a whole number of microseconds and any delay, from
`ClockAssumption`:

- `ClockTimesAreBalanced`: `TypeOK` and `TimesAreBalanced`;
- `ClocksAreWhereAsked`: the action property `ClockWhereAsked`.

`ClockInv` says for each program that no other has met, at each of its steps, by
how much its own variables may differ from the clock: nothing before its first
set (`StillWhereFound`), the time between its two reads for the normal offset
(`NormalIsClose`), and the time since the last read for what it is about to set
(`TimeToSet`). The lemmas about `balance`, `add_timespec` and `sub_timespec` say
that they keep the number of nanoseconds and bring `nsec` into range.

`StoreFormatProofs` proves, for any size of chunks, any number of operations and
analyses, with or without failing writes, from `StoreAssumption`:

- `StoreInvariant`: `TypeOK` and `StoreInv`;
- `WhatIsIndexedIsComplete`: `IndexedBlocksAreComplete`;
- `WhatIsSealedIsFinal`: the action property `SealedBlocksAreFinal`;
- `StoreContents`: `ContentsInv`, where every operation of the run is;
- `WhatIsLostIsBounded`: `LossIsBounded`;
- `RunReadsWhatItWrote`: the action property `RunReturnsWholeHistory`;
- `StoreRefinement`: `KeepsItsPromise`, every behaviour of the store is, seen through
  what a reader of the file finds, one of `SavedTest`.

`StoreInv` is what the code relies on without locks: the two threads take turns on
the handle (`TakingTurns`); blocks that are being written are open and in the
handle only as reserved ids, so no index that is written meanwhile names them
(`OpenBlocks`); the index block being written is the handle's own, and has the
greatest id (`OpenIndex`); who saves a run's results has read the history back
first (`ReadBack`); and both the handle and the index on disk name complete blocks
of the types that the blocks refer to (`HandleIsSound`, `DiskIsSound`). The handle
has to be sound already while its index is open, hence `DiskWithIndex`: sealing
the index and moving the pointer is then the step from the one to the other.
For `gc!`, what is reachable from the root is closed under references, so that the
copy, which renumbers places and keeps ids, is sound because the original was.

That blocks are complete does not say that they are the right ones. `ContentsInv`
follows the operations: those that the writer has taken are, in order, in the
sealed chunks of its vector, in the chunk it fills and in its hand, and the queue
holds the others and then what closes it (`WriterInv`, `QueueInv`). The history
that the test on disk names holds exactly the saved ones (`DiskHolds`), and so does
the one that the handle names, or the one the writer is about to save
(`HandleHolds`); `RootInv` says which test, of which stage, either of them names.
"Holds" is a statement about chunks, each of which begins where the last one ends;
that such a history has operation `i` at `i` (`NthIs`, `HistoryIs`), whatever the
sizes of its chunks, is the lemma behind everything a reader sees. `LossInv` counts
what is not saved yet, and what is left of that bound when a thread has died.

From this the refinement follows step by step. What a reader sees changes only
when the pointer moves: by the main thread's saves (`SaveInitial`, `SaveHistory`,
`SaveResults`) and by the writer's (`Checkpoint`); an append is `RunOp`, though
nothing is written; and every other step, `gc!` included, which moves to another
file with the same contents, stutters.

`CorruptFileProofs` proves, for files of any size, any command lines, any number of
runs and of writes by the database, with or without failing system calls, from
`CorruptFileAssumption`:

- `ToolInvariant`: `ToolInv`, which holds `TypeOK`;
- `OnlyAffectedBytesChange`: the action property `OnlyAffectedBytes`;
- `CopiesStayClean`: `CopiesAreClean`;
- `SnapshotsGoBack`: `RestoresAreExact`;
- `FlipsAreCounted`: `BitflipsAreCounted`.

The assumption says of a file that its bits can be counted in an `off_t`: files
beyond 2^60 bytes would overflow `bit_offset`. `ToolInv` is what every mode rests
on: a loop runs with valid options on chunks congruent to the index (`RunIsValid`);
a snapshot is no longer than its name says, nor reaches beyond the file
(`SnapshotsFit`); and the end that `corrupt_restore` carries from chunk to chunk is
never ahead of the chunk (`EndLags`), so that it writes too little at worst, and
never into the next chunk. From these, with lemmas about chunks (those that
`chunk_count` counts begin in the region and in the file, and no byte is in two of
them) and about `pread` and `pwrite`, follows what a step can change. Each mode adds
its own: what copies are made from is as it was (`SourcesAreUntouched`); bytes and
snapshots are in place (`BytesAreInPlace`) and, from offset 0 with modulus 1, the
carried end is right and the visited chunks are restored (`RestoredSoFar`); bits
are flipped in the order of the file (`FlipsAreInOrder`), whence the count.

With this every invariant and every action property of a passing run, and both
refinements, have a theorem; and `EveryKeyIsRun`, which a run violates, has one under
the hypothesis that it needs. Only model-checked is liveness, which needs fairness
and ENABLED and is out of this prover's reach: `RunEnds` (of the interpreter and of
the lifecycle), `ToolEnds`, `CallsEnd`, `TestEnds` and `SavingEnds`.

Some theorems say less than one might wish, because the code does: the history is a
behaviour of `ProcessHistory` only if no control operation crashes
(`ControlsDoNotCrash`, above), and `SnapshotsGoBack` speaks of whole restores only
for offset 0 and modulus 1 (finding 2); `NodesAreLeftClean` excepts the sessions whose
own disconnect threw; and `OperationsAreRunOnce` the keys behind too many nil
generators (finding 3).

## Findings

1. `interpreter.clj:334`: after an abort `run!` waits with `future-done?`, which
   is true of a future as soon as it is cancelled. A worker whose `invoke!`
   swallowed the interrupt is never sent `:exit`, waits in `.take` for ever and
   never closes its client (`interpreter_abort`).
2. `corrupt-file.c:437`: `corrupt_restore` adds the chunk size to the previous
   end, not to the start; with a modulus, a start or a skipped chunk it finds no
   snapshot and silently restores nothing (`corrupt_restore`).
3. `independent.clj:203`: a group whose new generator is nil is taken to have found no
   more keys, but `fgen` may have returned nil for the key, and nil is a valid
   generator (`generator.clj:334`). When every group has met such a key the test
   ends, and the keys behind are never run (`independent_nil`). A generator that is
   merely empty does not do this: it is not nil, and is replaced.

Also seen while modelling, and without a run:

- `interpreter.clj:295`: only a time to come is waited for. An operation that its
  generator dated in the past (`generator.clj:282`, `generator.clj:558`) is journaled
  with that time, so the times of a history may decrease from a completion to the
  invocation behind it (`HistoryDenseAndTimed`).
- `core.clj:90`, `core.clj:82`: with-resources "ensures all resources are correctly
  closed in the event of an error"; when `disconnect` throws, its exception is a
  result of `fcatch` that is dropped, and the session stays open (`stuck`).
- `control/sshj.clj:130`: when `auth!` throws after `.connect`, the `SSHClient` stays
  connected and nothing refers to it. `OnlyCurrentIsOpen` is therefore about the
  connections that `:open` returned.
- `reconnect.clj:120`: a `with-conn` after `close!` finds nil, fails, and reopens the
  wrapper its owner has closed. The new connection is the current one, as
  `OnlyCurrentIsOpen` asks; no document says that a closed wrapper stays closed.
- `core.clj:56`, `db.clj:176`: a test has one barrier, and nothing resets it. When
  `setup!` throws `::setup-failed` on one node while another waits in
  `synchronize`, the barrier breaks, and every later try fails in `synchronize`
  with a `BrokenBarrierException`, which is no reason to retry. The docstring of
  `cycle!` says "we tear down and retry the whole process up to `cycle-tries`
  times"; the tidb suite throws `::setup-failed` between calls of `synchronize`.
  `BarrierSeparatesPhases` shows that at least nobody gets through such a barrier.
- `core.clj:183-192`: when a client cannot be opened or set up, or the nemesis'
  setup throws, the finally clause is not entered yet: clients stay open, and the
  nemesis, which may still be setting up while the database is torn down, is
  never torn down. The docstring says "ensures clients and nemesis are torn
  down". This is why `UsersHaveTheirSystem` speaks of runs that entered the case.
- `core.clj:205-206`: when a client's teardown throws, the nemesis' teardown is
  not waited for (`spoiled`). What a finally clause throws replaces the reason
  `run!` failed for.
- `core.clj:49` says that `synchronize` "will deadlock" when another thread throws,
  but for its timeout; in fact `real-pmap` interrupts the threads that wait.
- `store/format.clj:1170`: see `SavingEnds` above. `new-block-id!` marks ids as
  `:reserved`, which the index leaves out; but one thread writes at a time, and no
  index is ever written while an id is reserved.
- `independent.clj:245`: "Updates are routed to the generator which that thread
  is currently executing". A completion that arrives after the group went on to
  its next key is given to the generator of that key (`strays`).
- `context.clj:233`: the rotation index moves for operations of every filtered
  context, whichever it was drawn from. With three clients and a flip-flop of a
  clients and a nemesis generator it passes the same client over for ever, where
  `context.clj:229` speaks of rotating "evenly through threads".
- `strobe-time.c:118`: a strobe retried after its session was lost
  (`control/retry.clj:29`), while the first still runs, takes the strobed clock
  for the normal one and leaves it so. This is why `ClockWhereAsked` speaks of
  programs nothing else met.
- `bumptime.c:31`: the first loop borrows a second also from a balanced time; the
  second loop gives it back (`ReadBumptime`).
- `translation_table.clj:69`: `name->index` computes a position and does not use
  it, so any name that is no integer, nil included, has the nemesis' index
  (`NameToIndex`). An operation for a retired process would pass validation
  while the nemesis is free; no generator of the library names one.
- `corrupt-file.c:546`: the length of a copy is the destination's, so from a short
  source chunk at the end of the region bytes beyond the region are copied, where
  `nemesis/file.clj:101` speaks of "other chunks in the region". This is why
  `CopiesAreClean` does not bound sources by the region.
- `corrupt-file.c:695`: the file size is read once; copies and bitflips in a file
  that is truncated meanwhile write past its end and grow it again. This is why
  `OnlyAffectedBytes` fixes the size only while the database writes nothing.
- `corrupt-file.c:765`: with `--clear-snapshots` alone `opts.file` is freed
  without ever having been assigned (`Exits`).
- `strobe-time.c:86`: `cmp_timespec` has the opposite sign of the "standard"
  comparator its comment names; its one caller relies on that (`Cmp`, `Test`).

## Plan

The plan has been carried out: the interpreter and its context, independent keys,
the lifecycle, the test file, the file corrupter, the clock tools and the
reconnecting wrapper are modelled, each with its runs, and their safety properties
are proved for all constants. In this order the next would be:

1. the hazards that have no property. The rotation index and
   `name->index` are known to misbehave, but no document states a property
   precisely enough to refute; a crash of the machine needs a file system between
   the store and the disk; a nemesis whose setup outlives the teardown needs a
   model of what that nemesis does;
2. the locks of `fs_cache.clj`, where two tests on one machine share a cache;
3. the membership nemesis, once something implements its protocol.

## Not modelled

Shell commands and their output (`control`, `net`, `lazyfs`, `os`), the command
line, the web interface, plots and timelines, byte encodings (`fressian`, codecs),
`adjtime.c` of the CockroachDB suite, which nothing runs, `strobe-time-experiment.c`,
which does not compile, and the database suites. The membership nemesis leaves
its decisions to a protocol that nothing in the repository implements. Checkers,
workloads and most generator combinators are pure functions with unit tests over
examples. Of modelled components: `write-test!` (a migration tool), symlinks and
text files of the store; the shutdown hook that fetches logs; the sequential
generator and the checker of independent keys.
Signed overflow of `start + chunk_size` near `OFF_MAX` in `corrupt-file.c` is
listed as a hazard without a property: the runs' chunk sizes are small.
`PROJECT.json` gives the reason for every component.
