# A verification project for go-sqlite3

go-sqlite3 is the `database/sql` driver for SQLite: Go code that owns C objects,
is called by several goroutines, by SQLite's callbacks and by the garbage
collector, and has to keep the calling contract of a C library. This directory
holds TLA+ modules of the driver's control, TLC configurations that check them
on small instances, and proofs for the TLA+ proof system (TLAPS).

    tlc -config MCLifecycle.cfg MCLifecycle        # one run
    tlapm LifecycleProofs.tla                      # the proofs of one module

`PROJECT.json` lists components, runs, theorems, hazards and, for each
definition, the source lines it stands for.

## 1. Inventory

| component | state it keeps | operations | hard because |
|---|---|---|---|
| Opening (`Driver.Open`) | the connection being built | parse the DSN, `sqlite3_open_v2`, register the password encoder, authenticate, register the SQL functions of user authentication, pragmas, extensions, connect hook | about thirty error returns with three different clean-ups |
| Handles and callbacks (`callback.go`) | `handleVals`: address -> connection, value | `newHandle`, `lookupHandle`, `deleteHandles`, `Register*`, trampolines | one table for all connections, addresses reused, callbacks inside `sqlite3_close_v2` |
| Closing (`SQLiteConn.Close`) | `c.db` | `sqlite3_close_v2`, `deleteHandles`, clear `c.db` | statements and finalizers may still be there |
| Statements, rows | `s.mu`, `s.closed`, `s.s`, `s.cls`, `rc.closed` | `bind`, `exec`, `query`, `Next`, `Rows.Close`, `Stmt.Close`, finalizer | goroutines, finalizer goroutine, two locks |
| Cancellation | a worker goroutine, a result channel | `select`, `sqlite3_interrupt` | the race of result and cancellation; a flag that hits whoever runs, and does not wake who waits |
| Batches, transactions | the tail of the query, `start`, the arguments | loops of `exec` and `query`, `bind`, `Begin`, `Commit`, `Rollback` | index arithmetic over arguments, failure in the middle |
| Aggregates | `aggInfo.active`, `aggInfo.next`, 8 bytes in SQLite | `agg`, `Step`, `Done` | several in flight at once, a constructor that fails |
| Unlock notification | `unlock_notify_table`, a channel per wait | `unlock_notify_wait`, `unlock_notify_callback`, loops in C | callback before registration returns, deadlock, SQLite's mutex held |
| User authentication | table `sqlite_user` | `Authenticate`, `AuthUserAdd`, `AuthEnabled`, ... | its place in Open |
| Tracing | `traceMap`: address of the database -> configuration | `SetTrace`, `traceCallbackTrampoline` | the table and SQLite change one after the other, events of the finalizer goroutine, addresses reused |
| Virtual tables | handles of modules, tables and cursors in `handleVals`, the C structs `goVTab` and `goVTabCursor` | `CreateModule`, about twenty callbacks (`cX...` in C, `go...` in Go) | errors inside callbacks, destruction by SQLite when it likes, also after `Conn.Close` |
| Backup | `b.b` | `Step`, `Close`, finalizer | double close |
| Conversion, errors, encoders | none | pure functions | - |

How they interact: `database/sql` holds the mutex of its `driverConn` around
Prepare, Exec, Query, Next and Conn.Close. `Conn.exec` and `Conn.query` call
prepare, and `Stmt.exec` or `Stmt.query` for each statement of a batch; a
step of a statement runs user callbacks by way of `handleVals`, and in
shared-cache mode may wait in `unlock_notify_wait` for another connection.
`Conn.Close` races with the runtime's finalizer goroutine, which closes
statements nobody references.

For each component, what makes it correct:

* opening and callbacks: a callback finds its own connection's value; a
  connection the program has seen leaves nothing behind when it is gone; one opened
  with `_auth` is protected, whoever adds the first user;
* statements: no C object is used after it is freed or by two threads, each is
  finalized once, every call returns, `exec` reports what the database did, a
  cancelled call stops no other one;
* batches: each statement binds its own arguments, statements run in order up
  to the first failure, every prepared statement is finalized, the driver and
  SQLite agree whether a transaction is open;
* aggregates: each result comes from its own rows, no object is shared or left;
* unlock notification: no wake-up is lost, the callback neither panics nor
  blocks, a deadlock is refused and not waited for;
* tracing: the table holds open databases only, a callback runs for the events it was
  set for and not after it has been removed, an event finds its configuration;
* virtual tables: a callback finds the very module, table or cursor that SQLite means,
  nothing is used after it was destroyed or freed, and when the database is freed
  everything has been released.

## 2. Modules

    SqliteApi <--refined by-- Lifecycle    <- LifecycleProofs
    BlockedWait <-refined by- UnlockNotify <- UnlockNotifyProofs   (RecursionLemmas)
                              Connection   <- ConnectionProofs
                              Batch        <- BatchProofs          (RecursionLemmas)
                              Aggregate    <- AggregateProofs
                              Trace        <- TraceProofs
                              Vtab         <- VtabProofs

**Lifecycle** (`sqlite3.go`: bind, exec, execSync, Next, nextSyncLocked, the Close
methods). State: `db` is `c.db`, `conn` the sqlite3 object behind it, `sq` the
sqlite3_stmt behind `s.s`, `mu` and `closed` are `s.mu` and `s.closed`; `pc`, `on`, `wk`
and `res` are where a goroutine and its worker are. One action is one access to
shared state: `ExecCancelled`, `ExecDefault`, `ExecInterrupt` and `ExecJoin` are the
branches of the two nested selects. `dc` stands for the mutex of database/sql's
`driverConn`; Rows.Close and Stmt.Close are left outside of it although
database/sql holds it there too: the driver has locks of its own for them, and
the finalizer goroutine takes none of database/sql's. A statement is prepared,
queried or executed again, closed, or dropped to the finalizer. A prepared
statement is queried again only when its rows are closed, as database/sql does.
`Procs` are goroutines and the finalizer.

The outcome of a step and the error the caller gets are two things. `res` is what
`sqlite3_step` returned; `errcode` is what `sqlite3_errcode` would return now, of which
the driver tells OK, an interrupt and anything else apart; `WorkerLastError` is
`lastError()`, a call of its own, and `err` the error the worker then sends. Between the
two, Rows.Close or a finalizer may end another statement of the connection and leave OK
behind (`EndOther`); and the reset in `nextSyncLocked`, whose own code decides whether
the error is asked for, may report success. Then `err` is nil although the step failed,
which `lost` records.

`UseClosed` says whether the program may execute a statement it has closed or ask a
closed connection for `AutoCommit`. The driver tests neither. bind of a NULL statement
without arguments succeeds, the step of it reaches `sqlite3_last_insert_rowid(NULL)`
(`WorkerStepNull`), AutoCommit reaches `sqlite3_get_autocommit(NULL)`; both follow the
pointer, and `crashed` is the end of the process.

**SqliteApi** is the contract with SQLite: one thread inside a statement, none after
finalize, finalize once, a closed connection stays as a zombie until its last
statement goes. Lifecycle refines it: a user of a statement is a worker in
step or reset, or Rows.Close in its reset.

**UnlockNotify** (`sqlite3_opt_unlock_notify.go/.c`): the loop around a step that is
refused with SQLITE_LOCKED_SHAREDCACHE, `unlock_notify_wait` with its deferred
calls in their order, the table, the channel with one place, the callback with
its array of arguments. SQLite's blocking lists and its static mutex are external.
A context may end at any time (`StepInterrupted`): a goroutine that is blocked in
`unlock_notify_wait` is not woken by `sqlite3_interrupt`, and only the step after the
wait sees the flag, leaves the loop and may take the whole transaction back, which is
itself an unlock for others.
It refines **BlockedWait**: who is blocked by a transaction waits until it has
concluded, and is refused only when the waits would form a cycle.

**Connection** (`Driver.Open`, `callback.go`, the Register methods, `Conn.Close`):
`handleVals` is the table, `slots` what SQLite has registered, `call` the callback in
progress and the handle it was given. Every step of Open that may fail is an
action with its own way of failing: `Fail` returns, `FailFreeing` closes the
database only, `FailClosing` calls conn.Close. Handles are addresses of malloc and
used again once freed. Hooks run inside `sqlite3_close_v2`: the rollback hook, and
the destructor of a virtual-table module.

**Batch** (`Conn.exec`, `Conn.query`, `bind`, `Begin`, `Commit`, `Rollback`): a query is a
sequence of statements with parameters; a value is its place in the list of
arguments, so what is bound shows where it came from. `Own` is `args[start:start+na]`,
`Appended` the test of the loop that follows, `StmtArgs` that loop, `Targets` the
parameters bind looks up for an argument. It includes the comment without a
statement, the error in the middle, and the ROLLBACK after a failed COMMIT.

**Aggregate** (`aggInfo`): `idx` is the number in SQLite's memory for the aggregation,
`active` and `next` are the fields. An object is the number of rows it has seen.

**Trace** (`sqlite3_trace.go`): `SetTrace` is `SetTracePop`, `SetTraceAdd` and
`SetTraceV2`, the trampoline is `Lookup` (which copies the configuration and tests the
mask) and `TrampolineReturns`, with the user's callback between them. `mask` is what
SQLite has been told; SQLite's side (events, its mutex, zombies, addresses used again)
is external. `GC` is the finalizer goroutine: it ends a statement that the program
dropped while it ran, and so may cause an event between any two steps of `SetTrace` or
`Conn.Close`. A statement the program still has after `Conn.Close` may end there and be
executed again (`AfterClose`): Rows.Close, Rows.Next and Stmt.Exec do not test the
connection, and the zombie still reports the events.

**Vtab** (`sqlite3_opt_vtable.go`): each C callback and the Go function it calls by way
of a handle is one action, `XInit` for `cXInit` and `goMInit`, `XOpen` for `cXOpen` and
`goVOpen`, `XDestroy` and `XDisconnect` for `cXRelease` and `goVRelease`, `XClose` for
`cXClose` and `goVClose`, `XDestructor` for `goMDestroy`. `handleVals` is the table of
handles, `live` the Go objects not yet released, `structs` the C structs allocated,
`kept` those that stay because the release returned an error, `lost` the Go objects
whose C struct could not be allocated. `call` is the callback SQLite is making and what
it was given, which is a handle and not the object: `Found` is the type assertion of the
trampoline. `Conn.Close` leaves a zombie while a statement exists; callbacks of a
connection whose handles are gone are marked in `stray`.

Definitions headed "Faulty variant" are plausible errors in the code. No
specification uses them; each shows that a property is able to fail.

## 3. Runs

| run | instance | checks |
|---|---|---|
| lifecycle_one_goroutine | 1 goroutine, finalizer, 2 statements, `UseClosed` | `TypeOK`, `InterruptIsolated`, `CallsTruthful` |
| lifecycle_locks | 2 goroutines, finalizer, 1 statement, not `UseClosed`, fairness | `ObjectsAlive`, `FailuresAreReset`, `ClosedIsFinalized`, `NobodyStuck`, `ApiObeyed` (refinement), `CallsReturn` (liveness) |
| unlock_notify | 3 connections, 2 tables, 3 transactions, contexts that end, fairness | `TypeOK`, `CallbackSafe`, `NoLostWakeup`, `NoDeadlock`, `ImplementsBlockedWait` (refinement), `StatementsEnd` (liveness) |
| aggregate | 3 aggregations in flight, 2 rows, 5 objects, constructors and steps may fail | `TypeOK`, `ResultsRight`, `ObjectsSeparate`, `NothingLeftBehind` |
| connection | 2 connections to one database, 4 addresses, a DSN for each path of Open | `TypeOK`, `CallbackFindsIts`, `NothingLeft`, `Protected` |
| trace | 2 connections, 2 addresses, 2 masks, 2 calls of SetTrace each, finalizer | `TypeOK`, `TableIsExact`, `CallbackInForce`, `OwnEventsFound` |
| batch | all queries of up to 3 statements of 5 kinds, all lists of up to 4 arguments; without arguments sequences of 4 calls with transactions | `TypeOK`, `BindsRight`, `Finalized`, `RunInOrder`, `TxAgree` |
| vtab | 2 connections, 4 addresses, 4 objects of one connection and 2 of the other, finalizer | `TypeOK`, `CallbackFindsIts`, `TargetsLive`, `NothingLost` |
| aggregate_constructor_error, batch_named, trace_zombie, vtab_open | the least that shows it | find the four disagreements below |

The first run is by far the largest, with 6.3 million states. `ObjectsAlive` and
`ApiObeyed` are asked of programs without `UseClosed` only: with it they are false, by
the two crashes above, and so is `CallsReturn`, as a process that is gone returns from
nothing. The other properties of Lifecycle are proved with and without.

Why the bounds are enough. Two statements are the least for one call to interrupt
another's, or to replace its error; two goroutines and the finalizer for two locks and a third party. A deadlock
of three connections is the least that is not mutual, and three connections allow one
transaction to release two waiters in one callback. Three transactions let a connection
that was waited for begin another and wait itself. Three aggregations let one start
between the end of another and the step of a third. Two connections and four addresses
let a freed address reach the other connection while both have callbacks (the Open of
one needs one, a program's function, a hook and a module). Two calls of SetTrace on a
connection let one replace or remove what the other has set, and with two addresses a
connection may get the address of one that is closed or another one than that of a
zombie. In a batch of three statements the one in the middle has arguments before and
after; calls that follow one another matter to transactions only, so that an argument
list has one call and the empty list four (`MaxCalls`). Of two connections with virtual
tables one makes four objects: a module, a table, a cursor, and a second cursor, table
or module at an address used before; the other makes two, enough to hold an address the
first one freed. `MaxTx`, `MaxRows`, `MaxObjects`, `MaxCalls`, `MaxSets` and `Addresses`
bound counters that the program does not.

Deadlock is not checked: each model reaches an end where the program has opened,
prepared or begun all that the bound allows and closed everything. That nobody
waits for ever is `CallsReturn` and `StatementsEnd`; that nobody waits for one who waits
for him are the invariants `NobodyStuck` and `NoDeadlock`.

Fairness. In Lifecycle a worker and a goroutine inside a call go on
(weak fairness: a step of SQLite ends, the Go scheduler runs every goroutine),
and a goroutine at `s.mu` gets it (strong fairness: sync.Mutex hands over to a
starving waiter). Nothing makes a program begin a call, cancel or close. In
UnlockNotify each connection goes on inside a call (strong fairness, since the
static mutex of SQLite comes and goes) and a program ends its transactions;
without the latter a blocked statement would wait for ever, as it does in the
code. The end of a transaction is strongly fair: it is not possible while a
statement of it runs, and statements may be interrupted again and again.
`StatementsEnd` also rests on the bound `MaxTx`: SQLite does not queue waiters, and without
end others could begin transactions before a statement that was woken tries again.
That nobody starves is not claimed.

### What disagrees

* `aggregate_constructor_error`: the comment at `sqlite3.go:691` lets a constructor
  return an error. `agg` has then already written the index, and Done, which SQLite
  always calls, looks up a method on a zero reflect.Value: it panics.
* `batch_named`: the comment at `sqlite3.go:866` says named arguments not contained in
  the statement's own are appended. The test is `i >= na` and not `i >= start+na`, so
  from the second statement on contained ones come twice. What is bound is right all the
  same (`BindsRight`, proved), and while no argument has been consumed, in the first
  statement above all, the comment is true (`FirstAppendsOnlyOthers`, proved).
* `trace_zombie`: the trampoline panics when an event finds no configuration
  (`sqlite3_trace.go:129`). There are two ways to it. After `Conn.Close` the entry is
  gone, but a statement the program still has can be reset by Rows.Close
  (`sqlite3.go:2109`, no test of the connection), stepped or executed again, and SQLite
  reports the profile or statement event of the zombie. And a statement that was dropped
  while it ran, with `TraceProfile` selected, is ended by the finalizer goroutine; when
  that falls after `SetTrace` or the close event has removed the entry, the process
  panics too. Until `Conn.Close` has returned, what the connection's own goroutine does
  never meets this (`OwnEventsFound`). Under `database/sql` rows are closed before their
  connection and a statement is dropped only with it; it takes a program that uses the
  driver's connection itself, from the connection hook or `sql.Conn.Raw`.
* `vtab_open`: `cXOpen` (`sqlite3_opt_vtable.go:115`) does not look at the error of
  `goVOpen` (a message in `zErrMsg`) and returns SQLITE_OK with 0 as the cursor's
  handle. SQLite goes on with xFilter, and the trampoline panics, although `VTab.Open`
  may return an error and `goVOpen` hands it over. An Open that does not fail leads to
  no panic while the handles are there (`CallbackFindsIts`; `PanicsOnlyThen`, proved).

Without a run of their own, since the models follow the code and no property is about
the other side:

* A comment in Open (`sqlite3.go:1499`) says the DSN's user is added when `sqlite_user`
  exists, and that Open goes on otherwise. The code adds it when the table does not
  exist, as the repository's README says; Connection and `Protected` follow the code.
* The result of a failed call may be nil. When the error is lost as described under
  Lifecycle, `execSync` returns `(nil, nil)`, which says that the statement was
  executed, and Next returns nil as for a row and leaves the values as they were. No
  line of the repository speaks of it beyond the comment that the interrupt is racy
  (`sqlite3.go:2060`). `CallsTruthful` is the strongest statement we know to be true: a
  failure is hidden in these two ways and no other, a success never.

## 4. Proofs

All proofs are for every value of the constants under the named assumptions of
the modules: names of different kinds differ, bounds are natural numbers, queries
and argument lists are finite sequences, a parameter with a name has one of the three
prefixes, connections of a shared cache are finite in number.

**RecursionLemmas.** The loops of the code are recursive functions of the models.
Induction is stated about sets (`UpTo`: a set that has 0 and with each number the next
has all up to a bound), from the well-foundedness of the natural numbers, and `Recursive`
says that a function with a given first value and step exists, so that what a
definition by recursion names is what its equation says.

**LifecycleProofs.** `TypeOK` is preserved with `CallShape` alone, which ties `pc`, `on`
and `wk` of a goroutine. None of the safety invariants is inductive alone; `IInv` adds
what holds between any two steps: at which program counters the two mutexes are held
(`Mutexes`), that nobody closes the statement of an exec (`ExecAlone`), how `s.closed`
goes with the sqlite3_stmt (`ClosedState`), that `c.db` is cleared in the call that
closes (`Handle`), and where a raised interrupt flag can hit (`CancelSeen`,
`OthersShared`, `FlagAimed`): a cancelled statement, one that overlapped a call on
another, or one that is about to be reset by bind. `ErrorKept` follows the error from the
step to the caller: a worker that has seen a failure finds an error to send or is in
`lost`, and one whose step went well sends none. `NoCrash` needs a program without
`UseClosed`. From `IInv` follow `FailuresAreReset`, `ClosedIsFinalized` and
`InterruptIsolated`; `CallsTruthful`, an action property, is proved from the actions in
which exec and Next return. `AlwaysAlive` and `Implements` assume `~UseClosed`, and are
the only theorems that do. `NeverStuck` is
the safety part of `CallsReturn` for any number of goroutines: from `Mutexes`, who holds
`s.mu` waits for no mutex, and from `CallShape`, who waits for a result has a worker.
`Implements` proves `ApiObeyed`: each action is mapped to Enter, Leave, Prepare, Finalize,
CloseV2 or a stutter.

**AggregateProofs.** An index is held by one aggregation (`Distinct`) and every object
in `active` belongs to one in flight; therefore results are right and objects separate.
`PanicsOnlyOnFailure` assumes that constructors do not fail and shows that the
finding is the only panic.

**ConnectionProofs.** `Registrations` says that every handle SQLite holds of an open
connection is in the table with this connection and callback; `CallsInTime` that a
callback runs only while the handles are there. They give `CallbackFindsIts`. `Guarded`
follows a wish for protection from AuthUserAdd to the connect hook and gives `Protected`.

**BatchProofs.** `OneLive` says that only the statement at hand is live, `TxCall`
relates the caller to the query it runs: they give `Finalized` and `TxAgree`.
`RunInOrder` is inductive with `Underway`, which says that a call that goes on has no
result yet: what has been bound are the statements before the place of the call, and the
one that is bound next comes after them. `BindsRight`, for batches and argument lists of
any length, needs `Offset` (`start` is the number of arguments of the statements before)
and what the loop gives a statement: `LoopAppends`, an induction over the arguments, says
that these are its own and then, in order, each that the test lets pass. `GivenOnce` gives
`FirstOnce`, the part of the comment on that loop which is true.

**TraceProofs.** `Places` gives each address one connection until its object is freed;
then `Entries` says what the table holds for each place in SetTrace and Close, which is
`TableIsExact`. `OwnCalls` and `FinalizerCalls` tie a running trampoline to the object whose
mutex it holds: sqlite3_trace_v2 waits for it, and so `CallbackInForce`. `AlwaysFound` shows
that the panic of `trace_zombie` is out of reach of a connection's own goroutine until its
`Conn.Close` has returned; the two ways that are left are the ones named there.

**VtabProofs.** `Held` says that what SQLite holds has its own handle while the
connection's handles are there, `Asked` that a callback is given what SQLite holds,
`Pending` and `Shape` where the program is meanwhile (a cursor has a statement, a
statement a table, a table a module): they give `CallbackFindsIts`. `Lively` says that
what SQLite holds is not released, `Owned` the converse; with `Life`, which empties a
freed object, they give `TargetsLive` and `NothingLost`. `PanicsOnlyThen` says that a
trampoline's type assertion fails for two reasons only: the Open that failed of
`vtab_open`, and a zombie whose handles are gone.

**UnlockNotifyProofs.** `Distinct` and `Handles` tie each wait to one goroutine and its
handle to the table; `Served` says that a running callback still owes a message to each
wait of its array, once; `AllWaits` that whoever waits at its channel has a message, is
in such an array, or is registered with its blocker, whose transaction `Blockers` says
is still to be announced. `CallbackSafe` and `NoLostWakeup` follow. `WaitsAsPromised` is
the refinement: each step is Block, Register, Refuse, Conclude or Resume of BlockedWait,
or a stutter; that the order in which SQLite calls back is a sequence of the waits needs
the connections to be finite. `NoDeadlock` rests on `NeverACycle`: the chain of waits
that is followed before a wait is registered (`ChainEnd`) has as many steps as there are
connections; when it does not lead back, no cycle is closed, because a longer chain would
meet a connection twice and so go round a cycle that was there before (`ElseNoCycle`, by
the pigeonhole principle). Conversely it leads back only on a cycle (`BackIsCycle`):
`RefusedForACycle` says that no statement is refused without one.

Only model-checked: liveness (`CallsReturn`, `StatementsEnd`), which is out of the
prover's reach. Its safety parts, `NobodyStuck`, `NoLostWakeup` and `NoDeadlock`, are
proved. Every other property of a passing run is a theorem.

## 5. Assumptions and what is not modelled

* SQLite is external. A step ends with a row, done, an error or, when the flag is set,
  an interrupt; ROLLBACK fails only when no transaction is open; an authorizer that
  refuses ROLLBACK is left out. In Connection no virtual table is open when its module
  is destroyed; Vtab has the tables.
* The finalizer of a SQLiteConn is left out: it runs only when no statement references
  it, and calls the same Close.
* The text of errors, column metadata, the conversion of values and the parsing of a DSN
  are data the properties do not tell apart.
* `sqlite3_user_add` in a database that has got users since `AuthEnabled` may succeed or
  fail; users are not deleted (SQLite keeps the one who is logged in).
* The sequence number of unlock notifications, a uint that grows by one with each wait,
  is taken not to wrap.
* A connection is opened with the default `_mutex=full`. With `_mutex=no` SQLite takes no
  mutex for a connection: then `sqlite3_trace_v2` does not wait for a trampoline in the
  finalizer goroutine, and `CallbackInForce` is not claimed.
* Sharing one prepared statement's rows after a later query on it is left out.
* `SetTrace` after Close, which gives SQLite a nil connection, is left out; so is a
  trace callback that calls the driver.
* In Vtab a connection has one module name, one table at a time and one statement with
  one cursor; methods of the program's module, table and cursor do not call the driver.
  The data of BestIndex, Filter and Update (constraints, the plan, values) are left out,
  and eponymous modules, which differ in having no xCreate. What the callbacks of a
  zombie do after `deleteHandles` is not judged: their handles are gone, or stand for
  something else by then, and the trampoline panics or finds that; the properties about
  objects speak of runs without one (`stray`).
* User authentication: besides what Open does with them, `AuthUserChange` and
  `AuthUserDelete` are a single C call each, whose rules (who is an administrator, who
  may change what) are SQLite's and are not in this repository.
* Backup is not modelled: it keeps one pointer, each method is one C call, `Close`
  clears the pointer and the finalizer runs only when nothing refers to the backup any
  more, so that nothing interleaves; what remains is SQLite's own rules for a backup.
* Conversion, errors, encoders, serialization, loading of extensions, the pre-update
  hook's data and build options have no state of their own, or are a single C call.
* The C headers (`sqlite3-binding.h`, `sqlite3ext.h`) declare SQLite's interface and
  define nothing; `_example/` is not part of the driver. Its logic is in Go, and in the
  C parts of `sqlite3_opt_unlock_notify.c` and `sqlite3_opt_vtable.go`.

## 6. Plan

1. Done: Lifecycle, SqliteApi, UnlockNotify with contexts that end, BlockedWait,
   Aggregate, Connection, Batch, Trace, Vtab; proofs of every safety property.
2. Several tables of one module, a join with several cursors, in Vtab.
3. User authentication as a state machine of users and administrators, should SQLite's
   extension become part of the repository.
