# Verification of the StrickenKid MySQL plugin

This directory holds TLA+ models of the SA:MP MySQL plugin in `src/MySQL`, the
configurations that check them with TLC, and proofs checked by TLAPS.  The
plugin lets the Pawn scripts of a game server use MySQL.  A query can be
*threaded*: the script gives a `resultid`, the native only queues the query, a
thread of the plugin executes it, and the script is called back
(`OnMysqlQuery`, `OnMysqlQueryArray` or `OnMysqlError`).  The two threads share
all their state without a lock.  That pipeline is the heart of the program and
of this project.

## 1. Inventory

| component | state | operations | talks to |
|---|---|---|---|
| Handle table (`Main.cpp:28`, `Natives.cpp:32-84`) | `my[MAX_CONNECTIONS]` of `MySQL*` | `mysql_init`, `mysql_connect`, `mysql_close`; `CHECK_CONNECTION` | read by both threads at every step |
| Query thread (`Thread.cpp:22-83`) | loop variable, a copy of the query at hand | take a query from `queryQueue`, execute it, set `parsing`, push to `threadQueue`, or call `Error()` | `my[]`, the connection, scripts (through `Error()`) |
| ProcessTick (`Thread.cpp:85-134`) | loop variable | call the scripts for the front of `threadQueue`, pop it, clear `parsing` | `my[]`, scripts |
| Connection object (`Mysql.cpp`, `Mysql.h`) | `mysql`, `connected`, `state`, `result`, `row`, `field`, `queryQueue`, `threadQueue`, `parsing` | `query`, `query_array`, `store_result`, `free_result`, `fetch_*`, `data_seek`, ... | libmysql |
| Script hosts (`Main.cpp:112-130`) | list `pAmx` | `AmxLoad`, `AmxUnload`, the dispatch loops of `ProcessTick` and `Error` | scripts |
| Errors and log (`Main.cpp:160-229`) | `mLogFile` | `Log`, `Error` | scripts, on the caller's thread |
| Strings and buffers (`Main.cpp:132-158`, `Mysql.cpp:302-367`) | none | `GetString`, `SetString`, the buffers of `fetch_row`, `real_escape_string` | AMX memory |
| Script library (`mysql.inc`) | none | `split` | scripts |
| Lifecycle (`Main.cpp:36-72`) | none | `Load`, `Unload` | the log; starts the query thread, never stops it |

The vendored MySQL headers, the SA:MP SDK and the binaries are third-party
code.  libmysql is modelled by the two facts the plugin depends on: a query
that returns rows leaves them on the connection until they are stored, and
until then the connection refuses other queries as out of sync.

What is hard here is concurrency without locks (the flag `parsing` is the whole
protocol), the check of `my[handle]` that is stale when the slot is used,
fields (`state`, `result`) that several queries of a handle share, callbacks
that run scripts in the middle of a loop and, for errors, on the other thread,
and a table that is scanned up to its first empty slot.  What makes each
component correct:

* *pipeline*: every threaded query of an open handle is answered exactly once,
  in order, and in the end; no queue is popped empty, no deleted object used;
* *results*: a callback gets the rows and the outcome of its own query, and
  the connection is never used by two threads or blocked for good;
* *handle table*: an empty slot is reported, a full table is no special case,
  closing a handle concerns no other handle, and two threads that create handles
  get one each;
* *dispatch*: every loaded script gets a callback once, with its data, which is
  freed once;
* *cursor*: what a fetch gives is data of the result that is stored, row by row;
* *strings*: what is written fits what was allocated, and `split` gives back what
  `fetch_row` joined;
* *log and lifecycle*: a line is in the file when `Log` returns, whole and written
  to one open stream.

`PROJECT.json` lists every hazard found at its line.

## 2. Modules

| module | what it is |
|---|---|
| `AsyncQueries` | What a script is promised of threaded queries, with nothing of how: queries are submitted, and the oldest unanswered one is answered; a connection may be lost, and with it that promise. |
| `QueryThread` | Handle table, query thread, `ProcessTick` and the natives, as one state machine of two threads. Safety and liveness properties, the inductive invariant, and the refinement mapping to `AsyncQueries`. |
| `ThreadedScripts` | The same machine under a discipline for scripts that is enough for callbacks to get their own results. |
| `StoredCursor` | What a script is promised of a stored result: store, fetch in order or from a row sought, read the current row again, free. |
| `ResultSet` | One connected handle as scripts see it: queries (run by the native, or queued and executed at any moment), `store_result`, `free_result`, the fetch natives, `data_seek`. |
| `CallbackDispatch` | The list of scripts and the loops over it on both threads, nested in each other; the text that `mysql_query_array` carries to its callback. |
| `MCDispatch` | `CallbackDispatch` with the symmetry of its scripts, for TLC. |
| `PluginLog` | `Log()`, one step for each C library call, on both threads, from `Load()` to `Unload()`. |
| `RowText` | One string on its way: `fetch_row` joins the columns and `split` takes them apart; the buffers of `fetch_row` and `real_escape_string`. |
| `QueryThreadProofs`, `AtMostOnceProofs`, `PipelineRefinement`, `ThreadedScriptsProofs`, `ResultSetProofs`, `DispatchProofs`, `PluginLogProofs`, `RowTextProofs` | Theorems and their proofs. |

`ThreadedScripts` extends `QueryThread` and restricts its scripts; `AsyncQueries`
and `StoredCursor` are instantiated with a refinement mapping by `QueryThread` and
`ResultSet`.  The others stand alone: what they follow (scripts, log, strings) is left
out of the rest.

`QueryThread` and `ResultSet` look at the same object from two sides: the first
splits the two threads into their steps and knows a result only by the query it
came from; the second has one step per native and per executed query, and knows
the rows of a result and the pointer into them.

### How QueryThread corresponds to the code

| variables | code |
|---|---|
| `my` | `my[]` |
| `creating`, `deleting` | the slot that a `mysql_init` in progress has chosen; a `delete` that has not yet set the slot to NULL |
| `conn` | `mysql != NULL` and `connected` |
| `queryQueue`, `threadQueue`, `parsing`, `state` | the fields of that name |
| `result`, `wire` | which rows `MySQL::result` holds, and which rows libmysql still waits to be asked for; a query is named by its number on the handle |
| `qpc`, `qh`, `qcur` | where `QueryThread()` is, `handle`, `mysqlQueryQueue` |
| `spc`, `sh` | where `ProcessTick()` is, `handle` |
| `issued`, `answered`, `returned` | history for the properties; no guard of the program reads `returned` or `answered` |
| `replaced` | history: the handles whose object was deleted, or overwritten by a second `mysql_init`; the properties call the others `Original` |
| `fault` | the undefined behaviour that was reached; such a state has no successor |

The actions of the query thread follow `Thread.cpp:36-77` line by line:
`Scan` (38), `SkipHandle`/`TakeQuery` (40-42), `ExecuteOk`/`ExecuteFails` (45),
`SetParsing`/`ReportError` (50-67, the result read *back from the object*),
`PushResult` (62), `ErrorReturns`, `PopQuery` (75).  Those of the server thread
follow 87-131: `TickStart`, `TickSkip`/`TickDeliver` (89-128), `TickPop` (130),
`TickClear` (131), `TickEnd`.  Every one of them reads `my[handle]` again, as the
code does, so a slot that was closed shows as `QueryThreadDangling` or
`TickDangling`, and a slot that was closed and reused is used as it is.
Scripts run on the server thread between ticks and in `OnMysqlQuery`, and on the
query thread in `OnMysqlError`; in both cases they may call any native.  A
native is one action of the thread that calls it, except the two that write
`my[]`: `mysql_init` chooses a slot (`ClaimSlot`) and stores the new object
there (`CreateObject`), whatever the slot holds by then, and `mysql_close` runs
the destructor (`Close`) while the slot still holds the deleted object
(`CloseDone`).  `InitBy` says which threads run scripts that call `mysql_init`:
with both, two calls may choose the same slot, and the second object replaces
the first under a thread that uses it.

Conventions of the model, each an abstraction of the code:

* one operation on a `std::queue` is atomic, and so is a native.  The code has no
  lock around either; the tearing of a deque's internals, and two natives of the
  two threads overlapping inside libmysql (other than with the query thread's own
  `mysql_real_query`, which *is* detected), are not modelled;
* the constructor of `MySQL` and `MySQL::init` are one step, and a slot that is
  overwritten while the query thread is inside `mysql_real_query` with it is
  reported as a race (`CreateInUse`);
* one script: the loops over `pAmx` are one call (they are the subject of
  `CallbackDispatch`);
* handles given to natives lie within the table (the code never checks that);
* `mysql_query` and `mysql_query_array` differ in what they hand to the callback,
  which is not modelled, so they are one action with a `resultid` and one without;
* natives that use the connection and change no modelled state are `"command"`;
* what lies after `my[]` in memory is a NULL or another word (`WordAfterMy`): a
  choice over what a build may produce.

### How ResultSet corresponds to the code

| variables | code |
|---|---|
| `queued`, `parsing`, `state` | the fields of that name, for one handle |
| `wire` | the query, and the number of its rows, that the connection waits to be asked for |
| `result` | `MySQL::result`: the query, the number of rows, and libmysql's cursor as the number of rows fetched |
| `row` | `MySQL::row`, the pointer: `NoRow` is NULL, `WildRow` one that was never assigned, else the query and number of the row it points to, whether its result still exists or not |
| `shown` | the row whose data the last native gave to its script |
| `freed` | `mysql_free_result` was called, and no result stored since; only the discipline of `FreeFirstSpec` reads it |

Each native is one action, except that `mysql_fetch_field` and `_num` are one,
`mysql_fetch_int`, `_float` and `_string` are one, and natives that leave the
cursor alone, or refuse, are `GiveNoRow`.  What is reported through `Error()` is
left out: it is the last thing a native does, so the natives that a script calls
in `OnMysqlError` come after it.  `refresh` (`Mysql.cpp:110`), which tests the
member `result` where it means `res`, therefore shows only in the list of hazards.
`ExecuteQueued` is the query thread's work on one
query and `CallbackReturns` the end of `ProcessTick`'s; their steps are in
`QueryThread`.  Values of columns, their names and the member `field`, which is
assigned and never read, are left out: a fetch gives data or, for a NULL or
unknown column, none.  Column numbers lie within the result (the code never
checks that).

### How CallbackDispatch corresponds to the code

| variables | code |
|---|---|
| `node`, `loads` | `pAmx`: the node of each script, numbered in the order of the `push_back`s; `AmxLoad` appends, `AmxUnload` erases (`Main.cpp:112-130`) |
| `publics` | the callbacks that `amx_FindPublic` finds in each script |
| `frame`, `depth` | the loops over `pAmx` that each thread is in, innermost last: `Error` (`Main.cpp:205-225`) and `ProcessTick` (`Thread.cpp:95-128`), with the iterator and, for the latter, its copy of `extraVars` |
| `issued`, `done`, `parsing` | the queues of one handle, as `QueryThread` has them |
| `extraVars` | the text that `mysql_query_array` allocated for each query |
| `handle` | whether the handle is open, and whether a loop was running when a script closed it |
| `given`, `calls`, `start` | history for the properties |
| `fault` | the undefined behaviour that was reached; such a state has no successor |

A native that fails calls `Error`, on whichever thread runs the script, so a loop
may start inside a callback of another.  A script may close the handle in any
callback (`CloseHandle`).  What a loop does after a callback is therefore where it can
go wrong, on either thread:

* `UseDangling`: the loop's node was erased meanwhile;
* `UseClosedHandle`: `ProcessTick` reads `logtype` of a handle that is gone
  (`Thread.cpp:108`, `124`), or either thread pops its queue (75, 130);
* `CallFails`: the next script is executed by the other thread, or would get the text
  that was freed when an earlier one returned (`Thread.cpp:102` after 111), or the id of
  a handle that is gone (`Main.cpp:211`).

Conventions:

* `push_back` and `erase` are atomic, and so is a step of a loop;
* the host loads, unloads and calls scripts on the server thread, and only while
  that thread is in none of the plugin's loops;
* one handle stands for all, and its query is executed in one step; once it is closed
  no native is called on it (`QueryThread` has the calls on empty slots);
* loops nest to a depth of `MaxDepth`; the code has no bound.

### How PluginLog corresponds to the code

`pc` is where each thread is in `Log()` (`Main.cpp:160-183`); `mLogFile` and
`timestr` (the static string of `asctime`, whose last character the code cuts off
in place) are shared; `buffer` and `disk` are what was written to each stream and
what has reached `mysql_log.txt`.  `phase` and `left` are the lifecycle: `Load()`
(`Main.cpp:36-61`) makes its log calls and then starts the query thread, `Unload()`
(63-72) makes its own and closes the file.  A call of `fprintf`, `fflush` or `asctime`
is atomic.  The callers' tests of `logtype`, and what a line says, are left out: any call
may or may not come.

### How RowText corresponds to the code

`Init` chooses the columns of a row and the script's string argument; from there
one call is followed.  `FetchRow` and `AddLength` are the first loop of `fetch_row`
(`Mysql.cpp:302-318`), `Allocate` and `AppendColumn` the second (320-329), `SetString`
the return to the script, `SplitNext` an iteration of `split` (`mysql.inc:162-173`).
`OverrunBuffer` is a `strcat` past the end of the buffer (326-328): what follows is
undefined, so that the behaviour ends there and only text that fits is split.
`RealEscapeString` is the other call (`Mysql.cpp:357-367`): which characters libmysql
escapes is left open, so it writes between one and two for each.  A buffer
is the size it was given and the characters written to it.
`strmid` belongs to the server and is modelled as cutting at the size it is given.

Definitions marked `Defect:` are mutated forms of the action after them.  They
are used by no specification; each shows that a property notices that defect.

## 3. Runs

| run | spec | checks |
|---|---|---|
| `pipeline` | every native but `mysql_close` and `mysql_store_result`, on both threads; `mysql_init` on the server thread | `TypeOK`, `TakingTurns`, `ExactlyOnceInOrder`, `PipelineInv`, `Implements` (the step-by-step refinement of `AsyncQueries`) |
| `closing` | every native on both threads: the handle closed, its slot reused, `mysql_init` racing with itself | `AtMostOnce`, `OnceInv`, `Implements` (the same refinement, with lost handles) |
| `gap_below` | handles closed and created on both threads, with fairness | `ExactlyOnceInOrder`, `NoDangling`, `PipelineInv`, `AnsweredUnlessGapBelow` |
| `disciplined` | `ThreadedScripts` with fairness | `CallbackSeesOwnResult`, `ConnectionExclusive`, `OutcomeReported`, `RowsReachable`, `NoCrash`, `DisciplineInv`, `EveryQueryAnswered` |
| `result_set` | `ResultSet` with `FreeFirstSpec` | `TypeOK`, `FetchesStoredResult`, `RowInv`, `Implements` (the refinement of `StoredCursor`) |
| `dispatch` | `CallbackDispatch` (as `MCDispatch`) | `TypeOK`, `EachScriptCalledOnce`, `TextOwnership`, `FaultCauses`, `DispatchInv`, `AnsweredBeforePop` |
| `log` | `PluginLog` | `TypeOK`, `LoggedIsOnDisk`, `WholeLine`, `OneStream` |
| `row_text` | `RowText` | `TypeOK`, `BufferFits`, `RoundTrip`, `SplitLossless` |
| `starvation` | violation of `EveryQueryAnswered` | closing a handle starves those above it (`Thread.cpp:38`) |
| `late_free` | violation of `OutcomeReported` | a success is reported as an error (`Thread.cpp:50`) |
| `lost_rows` | violation of `RowsReachable` | rows that nobody can take block the connection (`Mysql.cpp:201, 224`) |
| `stale_row` | violation of `FetchesStoredResult` | a query keeps the row of the result it frees (`Mysql.cpp:130`) |

**Bounds.**  The theorems hold for every value of the constants; the runs have:

* `MaxConnections` 2 in `pipeline`, `gap_below` and the violations (the source has 4),
  3 in `disciplined`, where one slot stays unused: two handles are enough for one to be
  above another, for the table to be full, and for the threads to work on different
  handles; handles interact only through the scans.  `closing` has one slot, as its
  properties are about one handle number, and 4 queries: that many are needed for
  a query that was taken before a close to be pushed into the queue of the next
  object, and be overtaken there.
* `MaxQueries`, threaded queries on each handle: 2 in `pipeline` and `disciplined`, so that
  a query can wait behind one that is executed or failed; 1 in `gap_below`, where one
  query waiting on each of two handles is the question, and where liveness with 2 takes
  too long.  So the order clauses say little in `gap_below`: `pipeline` checks them with 2,
  and the theorems have no bound.  `AnsweredUnlessGapBelow` speaks only of handles that
  keep their object: a slot that is used again may lose a query as soon as it has two
  (see below), which that bound does not show.  Unthreaded queries, closes, ticks and
  faults are unbounded.  `pipeline` leaves out `mysql_store_result`: it touches neither
  queues nor flag, `disciplined` and `closing` have it, and the theorems of `pipeline`'s
  properties cover it.
* `result_set`: 4 queries with results of at most 2 rows: a result before and after
  another, empty results, and a cursor at the start, in the middle and at the end.
* `dispatch`: 2 scripts with any callbacks, loaded 3 times in all (so one can come
  back at the other end of the list), 2 queries, loops nested twice on each thread;
  states that differ only in the names of the scripts are taken as one.
* `log`: 3 calls on the server thread and 2 on the query thread, 2 streams; `Load()`
  and `Unload()` make one log call each, where the code makes 3.
* `row_text`: 3 columns of up to 2 characters, NULL ones among them, and splitters of up
  to 2, over the letters of NULL and the delimiter; a piece of `split` holds 5
  cells instead of 128, so that `"NULL"` just fits and longer ones are cut.

**Fairness.**  `FairSpec` assumes that the query thread and the server thread keep
taking their own steps: the one loops for ever with a `Sleep` of 4 ms, the
other's `ProcessTick` is called by the server on every tick.  It is strong
fairness because a thread cannot take its own step while a script it runs is
inside `mysql_init` or `mysql_close`; these two natives are fair themselves, as they
run to their end.  A script that closes and opens handles in a loop that
never returns is excluded, and so is a query that never returns.  Nothing is
assumed of the script: `DisciplinedFairSpec` adds only that a callback runs to
its end.

**Deadlock** is checked in `disciplined`, `result_set` and `stale_row`.  Elsewhere a
behaviour ends where undefined behaviour is reached, where the threads stop
logging, or where the call that `RowText` follows is over.

### What the runs show

As long as the object of a handle is not replaced (by `mysql_close`, or by two
`mysql_init` at once), the unlocked handshake is right for that handle, whatever
becomes of the others: the order of the two writes on each side (`parsing = true`
before the push, the pop before `parsing = false`) hands it from one thread to the
other, and every query is answered once, in order, on whichever thread
(`gap_below` checks it with another handle being closed and reused).  A handle
that is replaced is still answered nothing twice, and `OnMysqlQuery` and
`OnMysqlError` each come in order, but the second may overtake the first, queries
may be lost, a deleted object may be used, and the handles above a closed one are
starved.  That holds of the next object in the slot too: a thread that took a query
before the close, and finds two queries of the new object when it comes to
`Thread.cpp:75`, pops one that it never executed, and that query is never answered
though its handle stays open.  No property claims an answer for a slot that is used
again.  What a callback can do with its result
depends on the scripts: `state`, `result` and the connection are shared by all
queries of a handle, and only the discipline of `ThreadedScripts` makes a
callback's rows its own.

The loops over the scripts are right under loading and nesting: no script is called
twice for a callback or left out, and the text of `mysql_query_array` is freed at
most once, though only the first script gets it and, if none defines the
callback, nobody frees it.  A query is popped only when its callbacks are over, whatever loops they
start.  Undefined behaviour of the loops has three causes (`FaultCauses`): two scripts that
both define `OnMysqlQueryArray`, as the second gets the text that was freed after the first;
a script that closes a handle while a loop runs; and `OnMysqlError` on the query thread,
which executes scripts, and reads the list of them, beside the server.  Scripts that
avoid the first two, and whose queries do not fail, meet none.

The log loses no line between `Load()` and the `fclose` of `Unload()`, and lines that
overlap in time may mix; nothing is said of lines logged after the `fclose`.  A joined row
overruns its buffer if and only if one of its columns is NULL or its separators are
longer than the characters reserved for them, one for each column (`BufferFits`): one
character is never too long, two are from three columns on.  Of a row that fits `split`
gives back the columns (`RoundTrip`), and of any text
`split` makes pieces that, with the delimiter between them, are the text again, as long as
none is longer than a piece can be.

The cursor is right if scripts call `mysql_free_result` before they query again (and
once after connecting): then threaded queries may be executed at any moment
without disturbing it.  Without that habit, which no document of the plugin
asks for, `fetch_field` may read a row of a result that is gone.

## 4. Proofs

Every theorem holds for all values of the constants; the assumptions are the
`ASSUME`s of the modules (a table with at least one slot, bounds that are natural
numbers, a delimiter among the characters) and what is named below.

`QueryThreadProofs`:

* `TypeCorrect`: `Spec => []TypeOK`, with every native, `mysql_close` included;
* `PipelineCorrect`: `Spec => []PipelineInv`, with every native as well.  What the
  invariant says, it says of `Original` handles: a step that replaces an object takes its
  handle out of that set, and no other handle is disturbed by it;
* `ExactlyOnce`, `Handshake`, `NothingDangles`: `ExactlyOnceInOrder`, `TakingTurns` and
  `NoDangling` follow from it.

None of these properties is inductive.  `PipelineInv` adds that an object in use
stays in its slot (`SlotsHeld`), whose turn it is at each program point
(`TurnOfThread`: the query thread is past its check only while `parsing` is
false, between its two writes `threadQueue` is empty, ...), that the query at
hand is the front of `queryQueue` (`FrontIsAtHand`), and that queues and history
hold consecutive numbers counted from `Settled`, the number of queries that the
query thread is done with (`Consecutive`).

`AtMostOnceProofs`: `OrderKept`, `Spec => []OnceInv`, and `AnsweredAtMostOnce`,
`Spec => []AtMostOnce`, for any scripts, closes and racing creations included.  Here
the front of a queue need not be the query at hand any more, nor the flag say
anything of the queues.  What is left is `InOrder`: the numbers a handle has given
out increase from the results to deliver, over the query at hand, to those not yet
sent, and what is answered is none of these.  A new object only empties queues,
and a pop of the wrong query only drops a number, so both keep it.

`PipelineRefinement`: `PipelineImplements`, `Spec => Implements`, with no assumption on the
scripts.  The mapping hides the queues: what a handle has pending is what they hold, less
the query a thread has just answered, and nothing once its object was replaced.  For an
`Original` handle the refinement rests on `ExactlyOnceInOrder`: it determines the
unanswered queries from `issued` and `answered`, so every step that changes neither is a
stutter, whatever it does to the two queues.  For a replaced one it rests on `OnceInv`,
which says that what is answered next was not answered before (`AnswerLate`).
`mysql_close` and the creation of a second object in a slot are `Lose`.

`ThreadedScriptsProofs`: `DisciplineKept`, and from it `OwnResults`, `Exclusive`,
`CrashFree`, `TrueOutcomes` and `NoRowsLost`, all for `DisciplinedSpec`.  A step of
disciplined scripts is a step of `QueryThread`, so `PipelineInv` holds throughout, and
`DisciplineInv` adds that no object is replaced, that one slot stays free and those a
scan has passed stay taken (`SlotSpare`, `ScannedOpen`: so no scan leaves the table), that
rows belong to the query at the front of `threadQueue` or at hand (`RowsOfQuery`), and
that nothing writes `state` between the execution of a query and the test of its outcome
(`OutcomeKept`).

`ResultSetProofs`:

* `ResultTypeCorrect`: `Spec => []TypeOK`, whatever scripts call; the type says
  that libmysql's cursor stays within the result;
* `FreeFirstCorrect`: `FreeFirstSpec => []RowInv`, and from it
  `FetchesAreOfStoredResult`;
* `FreeFirstImplements`: `FreeFirstSpec` implements `StoredCursor`.

`FetchesStoredResult` alone is not inductive, as it says nothing of `row`.  `RowInv`
adds that a row that is set is one of the stored result, unless nothing was ever
queried, and that freed means neither row nor result.  The refinement hides `row`
while no result is stored, and needs `RowInv` to know that it is NULL when the
next one is.

`DispatchProofs`: `DispatchTypeCorrect`, `DispatchCorrect` (`Spec => []DispatchInv`), and
`CalledOnce`, `TextOwned`, `FaultsHaveCauses` and `PoppedWhenAnswered`
(`AnsweredBeforePop`, an action property: what a step may pop), for any scripts, loads and depth
of nesting.  As nodes are numbered in the order of the list, "a loop has called
what lies before its iterator and nothing after it" is a statement on numbers
(`LoopOK`), which loading (a larger number) and unloading (one less) preserve; the
text of a query is followed from the native to its callback by `TextOf`, which needs
that a query is in the hands of one loop, the outermost of its thread (`QueryOK`).  For
`FaultCauses` it says that a delivery without its text has called a script that defines
the callback (`GivenOK`), so the script to which it is missing is a second one, and that
no loop is left after a handle was closed outside of all loops (`HandleInv`).

`PluginLogProofs`: `LogTypeCorrect`, `OneStreamOnly`, `LinesWhole` and `LogDurable`, for any
number of calls.  Each has its own invariant, defined there: `StreamInv` (before there
is a second thread the file is open or an `fopen` failed), `WholeInv` (what an
undisturbed call has appended so far is the end of the buffer), and `DiskInv` (the
parts of a line lie in `disk \o buffer`, in order, from the first to the one written last).

`RowTextProofs`: `TextTypeCorrect`, `BuffersFit`, `RoundTrips` and `NothingLost`, for rows and
strings of any length.  The code's loops are steps, so no induction over data is needed:
`BufferInv` compares the characters written so far with those counted for the same columns
(`LengthOf`, `Counted`), and the separators with the room left for them (`Gaps`), so that an
overrun means one of the causes in `TooLong`, and a finished row none;
`TripInv` says where each column starts in the text and that the pieces cut so far are
the columns before that place, and `SplitInv` that the pieces cut so far, however they are
joined, are what was read (`Rejoined`).  `SplitLossless` joins them with a recursive function;
that such a function exists, and its value, are part of the invariant, and one more piece
extends it (`JoinsMore`).

Every safety invariant, every action property and both refinements that a passing run
checks are stated by a theorem.  Only model-checked: liveness (`EveryQueryAnswered`,
`AnsweredUnlessGapBelow`), which is out of this prover's reach.

## 5. Not modelled

* What a native returns or reports, where no property depends on it: the
  return value of `refresh` (`Mysql.cpp:110`), which tests the member `result` where it
  means `res`, and the answers of `ping`, `stat`, `errno` and their like.  They are one
  action, `"command"`.
* The text of an error: `my_error` (`Main.cpp:215`) points into the connection, and a
  script's `OnMysqlError` can change it for the scripts after it.
* What follows the fault: a behaviour ends at undefined behaviour.  That an object
  leaks when two `mysql_init` calls take the same slot, and that a handle whose
  `mysql_init(NULL)` failed can never be closed, are stated by no property, nor is what the
  query thread logs after the `fclose` of `Unload()`.
* The level of the log (`logtype`, an argument of `mysql_init`) and the wording of its lines.
* The library behind the plugin: `src/include` and `src/SDK` are headers of the MySQL
  client and of the SA:MP server.  They are most of the lines of the repository
  (the plugin's own code is about 1 500 of 12 800), and their behaviour appears only as
  the plugin uses it; so does the MySQL server.

Nothing of the plan is left open.  A next step would be to split the natives that use
libmysql into their calls, so that two natives of the two threads can overlap there.
