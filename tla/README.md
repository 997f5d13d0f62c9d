# A TLA+ model of go-dbase

`dbase/` is a Go library that reads and writes dBase/FoxPro tables (`.DBF`),
their memo files (`.FPT`) and databases (`.DBC`). This directory holds TLA+
modules translated from that source, the TLC configurations that check them on
small instances, and proofs checked by TLAPS. `PROJECT.json` maps every
definition to the lines it models, lists the runs, the mutants that show each
property can fail, the hazards of the code, the disagreements found between the
code and its documentation, and the theorems.

Contents: [the system](#the-system), [the modules](#the-modules),
[the runs](#the-runs), [what the runs found](#what-the-runs-found),
[fairness](#fairness), [the proofs](#the-proofs),
[what is not modelled](#what-is-not-modelled), [the plan](#the-plan).

## The system

One `File` is an open table. It owns the header (`RowsCount`, `FirstRow`,
`RowLength`), the memo header (`NextFree`, `BlockSize`), the columns, the row
pointer, two handles (table and memo file) with one seek offset each, and two
mutexes: `dbaseMutex` around `WriteRow` and `memoMutex` around `WriteMemo`. All
work on the files goes through an `IO` implementation: `UnixIO` (`os.File`),
`WindowsIO` (bare handles and `LockFileEx`) or `GenericIO` (any
`io.ReadWriteSeeker`). The three repeat the same steps with other system calls.

| Component | State | Operations | Correct means | Hard because |
|---|---|---|---|---|
| Row storage: `io_*.go`, `Row` and `NewRow` in `table.go`, `file.go` | `RowsCount` in memory and on disk, `Column.Next`, the offset, `dbaseMutex` | `NewRow`, `Add`, `Write`, `Row`, `GoTo`, `RowFromMap`/`Increment` | a transfer happens where its call seeked to; the header counts every row; failures and crashes take no row back; no autoincrement value is given twice | Seek and Write are two calls on a shared offset; positions are computed without the mutex; counting, header and row are three steps that fail separately |
| Memo file: `WriteMemo`, `WriteMemoHeader`, `ReadMemo` | `NextFree` in memory and on disk, blocks, addresses in rows | write a new memo, rewrite one, clear, reopen | memos never share a block and stay readable; an address never precedes its memo | two mutexes, three writes per memo, a crash between any of them; a rewritten memo may need more blocks than it has |
| Table files: `NewTable`, `Init`, `WriteColumns`, `ReadHeader`, `ReadColumns`, `header.go` | column positions, `RowLength`, `FirstRow`, null flag column, the bytes of the file | create, append up to the limits, rewrite the columns, open again | columns tile the row; what opens is what was created; nothing is written over a row | sums in `uint16`, products in `uint32`; four writes that may stop in between |
| In-memory tables: `BytesReadWriteSeeker` | a slice, a position, a reader with both of its own | `Read`, `Write`, `Seek`, `Data` | a table in it behaves as one in a file | two copies of the bytes and of the position |
| Navigation: `Next`, `Rows`, `Search`, `GoTo`, `Skip` | the row pointer, the offset | the two loops, moving the pointer | each row once, in order, and the loop ends | the end moves while rows are appended, and so does the offset between a Seek and its Read; the pointer is unsigned |
| Row conversion: `ToBytes`, `BytesToRow`, `interpreter.go`, `conversion.go` | the bytes of a row, the null flag byte | represent, interpret | a row reads back as it was stored | two bit counters that must agree; length bytes inside cells; day numbers |
| Maps and JSON: `ToMap`, `ToJSON`, `RowFromMap`, `RowFromJSON`, `Modification` | none | turn a row into a map or JSON and back | the row keeps its bytes but for what a map or JSON cannot hold | names and external keys share a map; JSON has neither integers nor bytes, a map no deletion mark |
| Databases: `OpenDatabase`, `Database.Close`, `OpenTable`, `Close` | handles | open all tables, close all | no handle lost without an error, none of another file closed | failure in the middle of a loop, double closing, rows that Search passes over |
| Record locks: `WriteLock` on Windows | locked regions | lock, write, unlock | writers of one place exclude each other, nothing stays locked | regions are given by numbers that are not the bytes written; the error of the unlock is lost |
| Code pages, accessors, structs, errors, configuration | see `PROJECT.json` | | | |

How they interact: `Row.Write` converts the row (`ToBytes`), which writes memos
(`WriteMemo`) while `WriteRow` holds `dbaseMutex`; then `WriteRow` counts the row,
writes the header and the row. Reading goes the other way and takes no mutex.
`Rows` and `Search` drive the same row pointer that `BytesToRow` takes a row's
position from. `Increment` and `RowFromMap` rewrite the column descriptors in the
header. On Windows every write is wrapped in a lock of its own.

The properties are aimed at the hazards listed in `PROJECT.json`, each at the
line where it bites.

## The modules

| Module | Models | Variables and what they are in the code |
|---|---|---|
| `RecordTable` | what a table does for a client that is alone on it: the call decides which row is changed and to what | `rows`: the rows as the client sees them; `pointer`; `held`: the Row the client holds, with its number and value; `asked`: the call it is in; `result` of the last write |
| `RowStore` | `WriteRow`, `WriteHeader`, `ReadRow`, `WriteColumns`, `NewRow`, `Add`, `GoTo` of one shared `File`, step by step | `rowsCount`: `header.RowsCount`; `rowPointer`; `mutex`: `dbaseMutex`; `offset`: seek offset of the handle; `disk`: the file; `pc`, `row`, `target`: each goroutine's step, its `Row`, the place it computed |
| `RowIncrement` | `RowStore` with `Increment`: the autoincrement values of rows made from maps | `next`: `Column.Next` in memory; `diskNext`: in the descriptor; `value`, `stored`: the field of the rows at hand and of those in the file |
| `MemoStore` | `WriteMemo`, `WriteMemoHeader`, `ReadMemo`, reopening | `nextFree`: `memoHeader.NextFree`; both mutexes; `memoFile`; `address`: what the rows hold; history `extent`, `kept`, `reach` |
| `TableLayout` | `NewTable`, `FileSize`, the limits of `WriteRow` | the header fields and columns, with wrapping arithmetic |
| `BytesReadWriteSeeker` | the byte sources, as values: `BytesReadWriteSeeker` and `os.File` | `data`, `pos`, `reader`: the fields of the struct |
| `TableFile` | `TableLayout` with its bytes: `Init`, `WriteHeader`, `WriteColumns`, `WriteRow`, `ReadHeader`, `ReadColumns`, each cut short anywhere, on either source | `source`: `file.handle`; `isNew`; history `written`, `faults` |
| `Navigation` | `GoTo`, `Skip`, `Next`, `Rows`, `Search`, and appends beside them | `rowPointer`, the rows, `pc`, what a loop has collected (`returned`); `offset`: who moved the offset of the shared handle last; `appender`: the step of the other goroutine's `WriteRow`; history `missed`: rows the loop could not read, `displaced`: rows it got other bytes for, `astray`: a displaced write fell into the table |
| `RowCodec` | `ToBytes`, `BytesToRow`, `Represent`, `Interpret`, `ReadNullFlag`, `julianDate`, `julianToDate` | `fields`, `deleted`: the row in memory; `disk`, `mark`: cells, null flag and deletion mark |
| `RowMaps` | `RowCodec` with `ToMap`, `ToJSON`, `RowFromMap`, `RowFromJSON` and modifications | none of its own |
| `Lifecycle` | `OpenDatabase`, `Database.Close`, `OpenTable`, `Close` | `open`: the handle table of the process; `files`: the handles each `File` holds; `todo`, `pending`: what is still to be opened and closed; history `listed`, `found`: the rows of the container and what `Search` gave of them |
| `WindowsLocks` | the `LockFileEx`/`UnlockFileEx` calls around header, row, memo header, memo block and columns | `locks`: regions locked; `stuck`: those a failing `UnlockFileEx` left; `pc`, `job`: what each program writes |
| `RowStore_proofs`, `RowIncrement_proofs`, `MemoStore_proofs`, `TableFile_proofs`, `Navigation_proofs`, `RowCodec_proofs`, `Lifecycle_proofs`, `WindowsLocks_proofs` | the theorems; `TableFile_proofs` is about `TableLayout` and `TableFile`, `RowCodec_proofs` about `RowCodec` with `RowMaps` | |
| `MC...` | constants for TLC | |

Decisions a reader should know:

* **RowStore.** The file is a row of places (header, descriptors, rows). A
  transfer touches the place at the offset and moves the offset one place on; a
  Seek and its transfer are separate steps. Taking the mutex, `ToBytes` and
  counting the row touch nothing another goroutine can see half done (all reads of
  the count outside the mutex are single reads) and are one step, `BeginWrite`;
  the count that the size limit raises and takes back at once is not visible. A
  failing system call moves no bytes: partial writes are left out. `Values`
  includes the deletion mark. `Unlocked` are the goroutines that also fetch rows,
  move the pointer or build rows from maps, none of which takes the mutex (`GoTo`
  only sets the pointer, the others transfer). A Row that was added is written again
  like any other: `Position` stays one past its slot, so the second `Write` counts it
  once more and stores it in its slot, and the third one stores it in the slot
  behind. `RecordTable` says so in as many words (`RewriteLastRow`,
  `RewriteEarlierRow`), and the table a client sees is compared with it; the switch
  `Rewrites` is off only where a run is about something else. A goroutine holds one
  Row at a time: two Rows made by `NewRow` before either is written share a position,
  as two goroutines' do. `UnixIO` is the reference; `GenericIO` and `WindowsIO` have
  the same steps in the same order.
* **RecordTable** ties every change to the call: `asked` is the call, `held` the Row,
  and a write changes the row with the number of the Row to the value of the Row,
  or fails.
* **RowIncrement** is `RowStore` with four more variables: every action of it is
  one of `RowStore` and says what happens to the values. `Increment` reads and
  raises `Next` in one step, which is true of one goroutine only
  (`StepAssumption`); two of them can get one value, which needs no model to see.
  `WriteColumns` can fail before or after `Next` is in the file.
* **MemoStore.** A unit stands for 8 bytes, the size of a block header; `MaxSize`
  bounds the sizes of memos in units.
  `Converters` are the goroutines that also call `Row.ToBytes` on their own, which
  reaches `WriteMemo` without `dbaseMutex`.
  `NextFree` is raised in the step that takes `memoMutex`: nothing reads it before
  the header is written. Two things the library leaves to luck are part of the
  model: a memo that fills its last block has no room there for the 8 bytes nobody
  counts, and a rewritten memo keeps its blocks however long it gets (`Outgrows`).
  What such a memo writes over is recorded in `reach`, and `Clash` is the only
  exception that `MemosKept` and `SavedMemosRead` make: of two memos one of which
  reached the other, either may be gone.
* **TableLayout.** Words and limits are scaled together; `WordAssumption` states
  the inequalities the real numbers satisfy. The branch for rows that are too long
  cannot be reached with the real constants and can be with the scaled ones.
* **TableFile.** A byte is what it is a part of and which part; what the header
  and a descriptor say is in the tag. A call is a chain of writes: all of them
  happen, or a system call on a file fails (or the program dies) after some of
  them, or the slice refuses one that starts behind its end. `AfterWrites` gives
  the source after each number of writes, `ColumnsRead` what `ReadColumns` has
  after each number of descriptors; both are recursive functions, so that they can
  be reasoned about. A table in memory is created over a slice of zeros, long
  enough or not; `Data` and `Reader` of the configuration end in the same source.
  After a failed creation `NewTable` returns no `File`; whether the bytes open is
  up to `OpenTable`.
* **Navigation.** `Word32` is 5, so the pointer wraps. An invalid row stands for
  every reason `BytesToRow` has to refuse one, and any Seek or Read may fail. The
  other goroutine counts a row (`CountRow`) before it stores it (`StoreRow`), and
  may fail in between, so that a counted row stays unwritten for ever: behind the
  end of the file it cannot be read, before it it reads as zeros. Both goroutines
  seek on one handle: `offset` says whose Seek or transfer was the last. A Read
  that finds it moved succeeds with any bytes: the row may be kept or not and is
  `displaced`. A Write that finds it moved falls on any rows of the table, which
  may be anything but unwritten after it, and the history is `astray` until the
  next loop begins with no append under way. This over-approximates where the
  bytes land, and a row written in part counts as one with other bytes. An append
  that fails leaves the row unwritten; rows that another goroutine replaces are
  not modelled apart from that.
* **RowCodec.** Cells are bytes where the conversion is about bytes (characters,
  varchar, varbinary, blobs, decimal text) and records with the number or the date
  elsewhere. A number is the `int32` of an integer column (`int`), the `int64` of a
  numeric one (`long`) or a `float64` (`float`): `Represent` takes them apart, and
  so do values. A whole number becomes the `float64` next to it (`Rounded`: exact up to
  `MaxExact`, then every second number, every fourth, and so on, ties to even), and a
  `float64` beyond int64 becomes what the processor makes of it (`Indefinite`). Dates
  are dates of the calendar of the years 1 to 9999 (`IsDate`).
  `Blanks` are the bytes that `strings.TrimSpace` takes off; it also takes off white
  space beyond ASCII, which is left out with the code pages. What is left out of
  bytes (`Without`), written as digits (`Digits`) and read from them (`NumberIn`)
  are recursive functions.
  `MayBeEmpty`, `MayBeCut` and `SchemasAssumption` name preconditions the library
  does not enforce: empty strings only in nullable columns, numbers that fit their
  column (`InBounds`, a condition on the rows that are stored), variable columns
  with at most 8 flag bits (and, in the schemas of the run, in front of the others).
* **RowMaps.** A column's name is its number, and external keys are numbers too,
  so that a key can be another column's name. `Convert` is a function of the
  client that the library calls in both directions; the model's negates a bool and
  refuses everything else, so that a conversion that is left out, made twice or
  made on the wrong field is seen. `LostInJSON` names the three losses of JSON: a
  whole number beyond 2^53 comes back as the `float64` next to it, a negative one for
  an integer column as 0, raw bytes as base64 text. The row that `RowFromMap` and
  `RowFromJSON` build is a new one, so that the deletion mark of a deleted row is
  lost by either way; `Becomes` puts the new row in place of the client's.
* **Lifecycle.** Opening or closing one table is a single step. The operating
  system hands out the lowest free handle number, which is what makes closing a
  number twice dangerous. `RemembersClose` chooses the handle: an `os.File`
  (`UnixIO`) remembers that it was closed, the number of `WindowsIO` does not, and
  `WindowsIO.Close` does not clear it. With `RemembersClose = FALSE` TLC finds
  `HandlesBelong` violated in four steps: the client opens a table of its own
  (`OpenOther`), closes it (`CloseOther`), `OpenContainer` gets its number, and a
  second `CloseOther` closes the container's file. The run and the theorems are
  about `UnixIO`. `OpenDatabase` takes its tables from `Search`, which passes over
  any row it cannot read or convert without an error: `found` is what it gave, and
  a table whose row it passed over is missing from the Database.
* **WindowsLocks.** The low and high word of offset and length are what the code
  passes: the start and the end of the write. The locked region is therefore not
  the bytes written, and the memo header is locked with the table's `FirstRow`.
  A row has at most one memo. `UnlockFileEx` may fail: the deferred function looks
  at the wrong error, the write goes on and the region stays locked (`stuck`) until
  the program exits. `MaxStuck` bounds how many regions are stuck at a time.

## The runs

"States" are distinct states of a complete search.

| Run | Question | Bounds | States |
|---|---|---|---|
| `row_store_alone` | Does one goroutine see the abstract table, and get fresh autoincrement values, through failures and restarts? | 1 goroutine, 2 rows, 2 values, `Next` up to 3 | 416,272 |
| `row_store_writers` | Do goroutines that only store rows keep each other's writes apart, the counts right, and return? | 2 goroutines, 3 rows, 1 value | 37,490 |
| `row_store_shared` | the same with one goroutine that fetches (violation) | 2 goroutines, no failures | |
| `row_store_adds` | two concurrent appends (violation) | 2 goroutines, no failures | |
| `memo_store` | Do memos keep apart and readable, whoever writes, however they grow and whatever fails, and does every call return? | 2 goroutines, one of which also calls `ToBytes`, 1 field, a memo of one block and one of two, 3 blocks behind the header | 226,134 |
| `memo_store_new` | the memo file of a new table (violation) | `StartFree` 0, no failures | |
| `table_layout` | Do the sums add up, and does a table open as it was created? | 3 columns of 2 lengths, 60-byte files, a file and slices of 0, 4 and 25 zeros, 1 call cut short | 95,238 |
| `navigation` | Do the loops visit each row once, in order, and end, while rows are counted and stored, reads fail, and the offset is shared? | 3 rows, 4 contents, `Skip` by -1 and 2, a word of 5 | 607,900 |
| `navigation_skip` | what the comment of `Skip` says (violation) | the same | |
| `row_codec` | Does a row read back as it was stored, also by way of a map or JSON? | 11 schemas of up to 2 columns, 4 texts, 6 numbers, 41 dates, 4 modifications | 114,700 |
| `lifecycle` | Are handles of `os.File` neither lost nor those of other files closed, and does the Database have what `Search` found? | 2 tables, a container, a table of the client's own, 6 handles | 850,330 |
| `windows_locks` | Do the locks exclude, and never deadlock, whatever stays locked? | 2 programs, 2 rows, 2 blocks, the columns, 1 region stuck at a time | 16,440 |

Why the bounds are enough: two goroutines are what an interleaving of a Seek and
a Write needs, and the theorems extend the write-only case to any number. Room for
two rows gives an append to a filled slot, a replace, a second append after a
failed one, and the limit; three values of `Next` give a value in the file, one in
a row at hand and one that was raised and lost. Three memo blocks behind a
two-block header give two or three short memos side by side, a short one before and
behind a long one, a short one that is rewritten as a long one over a neighbour or
over a free block, and a memo that no longer fits; a short memo never outgrows its
block and a long one only when it replaces a short one, so that `Clash` is the
exception. Of two goroutines one also calls `ToBytes` itself, which gives an
allocation inside `WriteRow` beside one outside it; the theorems hold for any
number of either, and any sizes: a memo that fills its last block (always an
exception) is in `MemosStay` and `SavedMemosStay` only. Three columns give
a first, middle and last position, with and without null bits, on both sides of
every limit; the slices are too short for the header, long enough for the header
but not for the first descriptor, and long enough for a table; one call cut short
is followed by any number of whole ones. A word of 5 for at most 3 rows makes the
pointer wrap in one `Skip`; the rows of a loop differ in whether they convert, are
deleted, hold the value and are written yet. Two flag-carrying columns are the least
that can disagree about a shared byte, and two columns the least whose keys can collide; of
the numbers 8 is the last that is exact as a `float64`, 11 is rounded to 12, and 15
to 16, which is no int64;
the dates are chosen around leap days, the century rules and both ends of the
calendar, and for each of them the day number is compared with one counted from
the calendar. Six handles are what all tables
of the model need together, so a single lost one makes them run out.

What the properties say:

* `row_store_alone`: `ImplementsTable` is the refinement of `RecordTable`: a write
  changes the row its Row stands for, to the value the call was given, when the row
  is written, and a call that fails changes nothing but for one blank row; a fetch
  gives the value and the number of the row at the pointer. What becomes of a row
  that was added and is written again is part of it. `ValuesAreFresh`: no value
  `Increment` will give, now or after a restart, is in a row of the file or in one
  that can still be stored, because a row leaves `RowFromMap` only when the raised
  `Next` is on disk.
* `row_store_writers`: `TransfersHitTheirPlace`, `RowsAreCounted` (the header is
  written before the row, so the file never holds an uncounted row),
  `CountsAgree` (the memory never falls behind the disk), `StoredRowsStay`, and
  `EveryWriteReturns`.
* `memo_store`: `BlocksDisjoint`, `MemosKept`, `SavedMemosRead` (an address in a
  row belongs to a complete memo, also after a crash), `DiskCoversMemos` and
  `NeverReallocated` (a program that reopens the file hands out no used block),
  `EveryCallReturns` (two mutexes, one order).
* `table_layout`: `ColumnsTileTheRow`, `RowsFitTheFile`, `OpensAsCreated` (bytes
  that open have the columns and the layout they were created with, whatever was
  cut short, and a table that is open opens again), `RowsStayInPlace` (no header,
  column, padding or other row is written over a stored row).
* `navigation`: `RowsCollectsInOrder` (rows come in ascending order and each once,
  whatever happens; none is missing or added but those whose read failed or was
  displaced, unless a displaced write has changed the table), `RowsReachesTheEnd`
  (without `skipInvalid` a counted row that is not written yet ends `Rows` with an
  error and is never left out), `SearchFindsAll` (only what could not be read, or
  was read displaced, is missing), `EveryLoopReturns`.
* `row_codec`: `ReadsBack`, `RewriteKeepsBytes` (with the deletion mark),
  `DayNumbersCount`, `MapsKeepBytes` (a row that goes through a map or JSON and
  back is stored as the same bytes, but for fields whose key another one takes,
  for the three losses of JSON, and for the mark of a deleted row).
* `lifecycle`: `HandlesBelong` (no close reaches the handle of another File),
  `NoSilentLeak` (while no call has returned an error every open handle is in a
  File somebody holds), `DatabaseComplete` (every table whose row `Search` gave, with
  all of its files, and nothing else), `ClosedMeansClosed`.
* `windows_locks`: `OneWriterPerPlace`, `OnlyTheWrittenIsLocked`,
  `EveryWriteReturns` (or hangs behind a lock that `UnlockFileEx` failed to
  unlock, and behind nothing else).

`CHECK_DEADLOCK FALSE` is used once, in `table_layout`: a table that is refused
and does not open stops there.

## What the runs found

Four runs expect a violation; `PROJECT.json` quotes the lines they disagree with.

1. `row_store_shared`: the README promises safe concurrent use, but reads and
   `WriteColumns` use the shared handle without `dbaseMutex`; a fetch between
   another goroutine's Seek and Write sends that write to another place.
2. `row_store_adds`: `Add` computes the position before the mutex is taken; two
   concurrent appends get one position and one row overwrites the other.
3. `memo_store_new`: `NewTable` leaves `NextFree` at 0, so the first memo of a new
   table is written over the memo header and its address reads as "no memo".
4. `navigation_skip`: `Skip` clamps the pointer and then overwrites the clamped
   value; its comment says the pointer stays in the table.

Hazards without a property carry a note in `PROJECT.json`: a second `File` on one
path, a fetched row that gets the position of a pointer another goroutine has moved,
more than 8 flag bits, variable columns behind others, numbers that are cut to their
column, handles lost behind an error, and the bare handle numbers of `WindowsIO`.

Some effects the models show without a run of their own:

* An added row that is written again is counted once more and leaves a blank row
  behind it; written a third time, or when another row was appended meanwhile, it
  replaces the row behind it (`RewriteLastRow`, `RewriteEarlierRow`).
* `BytesToRow` takes a row's position from the row pointer after the bytes were
  read: a `GoTo` of another goroutine in between gives the row another position.
* On Windows a File that is closed twice closes the handle that another File got
  meanwhile (`RemembersClose`).
* A table whose row `Search` cannot read or convert is missing from a Database that
  `OpenDatabase` returns without an error (`found`).
* `Rows` and `Search` beside an appender on the same `File` may return the bytes of
  another row, and the appender may write over a stored one (`displaced`, `astray`).
* Two memos one of which outgrew its blocks destroy each other (`Clash`).
* A row built from JSON has 0 for a negative integer, the next `float64` for a
  number beyond 2^53 and base64 text for bytes (`LostInJSON`); one built from any
  map is not deleted.
* A table created over an empty slice leaves its header there and returns an error.
* A region that `UnlockFileEx` failed to unlock blocks its place until the program
  exits (`Blocked`).

## Fairness

`RowStore` assumes weak fairness for the steps of a goroutine that is inside a call
(the Go scheduler runs it and no system call blocks for ever) and strong fairness
for taking a mutex, which `sync.Mutex` provides through its starvation mode.
`MemoStore` assumes strong fairness for the steps of each goroutine inside a call,
which says the same: only taking a mutex is ever disabled and enabled again by
others, any other step stays enabled until it is taken or the call fails.
`Navigation` assumes weak fairness for the turns of a loop.
`WindowsLocks` assumes that a program in a write keeps running and that Windows
grants a lock whose region is free again and again. Nothing is assumed of clients:
no specification forces a call to be made, a call to fail or a program to restart.

## The proofs

Eight modules hold theorems, each for every value of the constants its module's
assumptions admit. Every invariant below was checked by TLC on the instance of its
run before it was proved. The layout is the same everywhere: lemmas about the
operators, the inductive invariant as a conjunction of named parts, one lemma for
each action or group of actions that it keeps the invariant, and the theorems. No
theorem has a hypothesis that is not named here:

| Hypothesis | Where | Why it is needed |
|---|---|---|
| `Unlocked = {}` | four theorems of `RowStore_proofs` | a goroutine that fetches moves the offset under another's write (`row_store_shared`) |
| one goroutine | `FileIsATable` in `RowStore_proofs`, `RowIncrement_proofs` | two appends can get one position (`row_store_adds`), and two goroutines one value |
| `FreeBehindHeader` | `MemoStore_proofs` | with the `NextFree` of 0 that `NewTable` leaves, the first memo is written over the header (`memo_store_new`); files made by other programs satisfy it |
| `VarsInFront` | `StoredRowsReadBack`, `RewritesKeepBytes` in `RowCodec_proofs` | `nullFlagPosition` stops counting at the first column that is not variable, `ToBytes` does not |
| `MayBeEmpty = FALSE` | the same two | an empty string sets the bit behind that of its column, which belongs to the next one unless the column is nullable |
| `MayBeCut = FALSE` | the same two | a number that is cut to its column reads back as another one |
| `RemembersClose` | `HandlesStayOwn`, `AllTablesOpen`, `CloseReportsTheTruth`, `NothingLeaks` in `Lifecycle_proofs` | the handle of `WindowsIO` is a number that does not know that it was closed, and `HandlesBelong` is false of it |
| `ListedOnce` | `NothingLeaks` in `Lifecycle_proofs` | a container that lists a table twice has it opened twice, and the map of the Database keeps only the second `File` |

`RowStore_proofs` holds for any set of goroutines, any values and any limit, with
the assumptions of `RowStore` only (`ProcsAssumption`, `RowsAssumption`,
`SwitchAssumption`):

* `TypeCorrect`: `Spec => []TypeOK`, for unlocked goroutines too. `TypeOK` is not
  inductive: the slot of an append is its position less one, which must not be
  negative, so `TypeInv` adds that rows at hand have positions in reach of the
  count (`RowsInReach`) and that a goroutine inside a write has a row
  (`CallsHaveRows`).
* `WritersHitTheirPlace`, `HeaderCountsRows`, `CountsStayTogether`,
  `StoredRowsSurvive`: `TransfersHitTheirPlace`, `RowsAreCounted`, `CountsAgree`
  and `StoredRowsStay`, under `Unlocked = {}`, without which the first is false
  (`row_store_shared`). They rest on one inductive invariant, `GuardedInv`:
  `TypeInv`, the three invariants, and two strengthenings.
  `MutexGuardsWrites` ties the owner of `dbaseMutex` to the one goroutine between
  its header Seek and its row Write, so nobody else moves the offset;
  `WritesAreCounted` says that a write goes to a slot the count covers, in memory
  from the start and on disk once the header is written. Each group of actions
  has a lemma that it keeps `GuardedInv`; `HeaderTransfer` and `RowTransfer` say
  once what a transfer does to the file.

Its second half is about one goroutine that is alone on a table of any size,
fetches and rows from maps included, with failures and restarts at any step:

* `FileIsATable`: `Spec => ImplementsTable`, the refinement of `RecordTable`. The
  initial state maps to the initial state; a call that begins is `Ask` (`CallAppears`);
  a `RowWrite` is an append, a replace, or one of the two rewrites of an added row,
  of the row and with the value the client asked for (`RowWriteAppears`); a call that
  fails is a failure that leaves a blank row if it had counted one
  (`FailureAppears`); a fetch that returns gives the row at the pointer
  (`ReturnAppears`); a restart loses what the header on disk does not count
  (`RestartAppears`); every other step is a stutter (`InnerStepsStutter`).
  `TableMoves` says once which rows the client sees when the count or one place of
  the file changes.

  The invariant is `AloneInv`. It needs `TransfersHitTheirPlace` and
  `RowsAreCounted`, here without a condition on `Unlocked`, and where the rows at
  hand belong: a new row behind the last, a fetched one in the table, an added one
  where it is or was the last (`HeldRowsPlaced`), a fetch at the row pointer
  (`FetchesPlaced`), a write in a counted slot, and an append with a counted, still
  empty slot at the end, which it fills or, when the row was added before, leaves
  blank (`WritesPlaced`).

`RowIncrement_proofs` adds the autoincrement column, for any step and any limit of
`Next`:

* `NoValueTwice` (`ValuesAreFresh`), from `FreshInv`: a value in the file or with a
  goroutine is below `Next` in memory, and below the one on disk unless the
  goroutine is still inside `RowFromMap` (`StoredFresh`, `HeldFresh`).
* `ColumnChangesNothing`: `IncrementSpec => Spec`, so every theorem about `RowStore`
  holds with the column; `IncrementIsATable` is one of them.

`MemoStore_proofs` holds for any memos, sizes, goroutines and block limit:

* `TypeCorrect`, `BlocksStayDisjoint`, `HeaderCoversMemos` (`DiskCoversMemos`) and
  `MemoBlocksStay` (`NeverReallocated`) rest on `AllocInv`. The strengthenings:
  whoever holds `memoMutex` is inside `WriteMemo` (`MemoMutexHeld`); `NextFree` on
  disk may lag behind the memory but never lies inside blocks taken together, nor
  in the header (`NextFreeCovers`), which is why a restart that forgets the
  difference splits no memo; addresses lead to memos (`RowsHaveMemos`); a goroutine
  that writes a block has it and, after the header, the file counts it
  (`JobsHaveBlocks`).
* `MemosStay` (`MemosKept`) and `SavedMemosStay` (`SavedMemosRead`) rest on `KeepInv`,
  which adds where the units of a kept memo lie. The hard case is `WriteData`, for
  every other memo by the order of the two extents: apart, they are not touched;
  otherwise one outgrew its blocks and the two clash.

`TableFile_proofs` holds for any word size, limits and column lengths with
`WordAssumption`, whose inequalities the real numbers satisfy. About the layout of
a new table (`Spec` of `TableLayout`):

* `TypeCorrect`, `ColumnsTile`, `RowsFit` from `LayoutInv`: the columns follow each
  other from byte 1 (`ColumnsFollow`), `RowLength` is the true sum and at most the
  greatest one (`RowAdds`), `FirstRow` the true size of the header
  (`HeaderAdds`). What the arithmetic needs are lemmas on products and
  quotients (`Multiples`, `QuotientAndRemainder`, `QuotientOfMultiple`), and
  `FitsTheWord`: below its limit a sum does not wrap.

About its bytes (`TableSpec`), in a file or a slice of any length, with any number
of calls cut short at any write and any number of openings:

* `TablesOpenAsCreated` (`OpensAsCreated`) and `StoredRowsStay` (`RowsStayInPlace`),
  and the three properties of the layout once more for tables that were opened
  again (`OpenedTypeCorrect`, `OpenedColumnsTile`, `OpenedRowsFit`). They rest on
  `FileInv`. `OpensAsCreated` alone is not inductive: it says nothing of bytes that
  do not open yet. `FileInv` adds that the source is blank until `NewTable` writes
  (`PhasesPlaced`), that the header is whole or missing (`HeaderWhole`), and that
  the end of the columns is in one place only and in the source only when header
  and descriptors are too, because the chain writes it behind them (`EndPlaced`).
  For the rows it adds that a stored row has its bytes and a header on disk that
  counts it (`RowsPlaced`), that none is missing when nothing was cut short
  (`RowsComplete`), that a slice that took the columns takes every row
  (`MemoryLongEnough`), and that what a source reads is what was written last
  (`Sound`), which for `BytesReadWriteSeeker` is that reader and slice agree.
  `AfterWrites` and `ColumnsRead` are recursive functions: that there are such
  functions, and what they are, is proved by induction over the number of steps
  with `InductionOnSet`, which needs no operator parameter: the numbers a
  formula holds for are a set.

`Navigation_proofs` holds for tables of any size below the word:

* `TypeCorrect`, `RowsInOrder`, `RowsGoesOverAll` (`RowsReachesTheEnd`) and
  `SearchIsComplete` (`SearchFindsAll`) rest on `LoopInv`. What makes it inductive is
  which rows the appender can still change: unless a write went astray only the
  last, and only while it is unwritten (`AppendOpen`). So a row `Rows` has passed and
  read at its place is stored (`RowsPassed`), and one `Search` has passed is stored,
  missed, displaced, or not the last (`SearchPassed`, `IsSettled`). `PointerPlaced` keeps
  the pointer of `Rows` in the table, and `SearchCollects` is what `SearchFindsAll`
  says of the rows passed so far. That the list is in order and without repetition
  needs no exception: a loop appends the position it is at, whatever it was given
  (`AppendsInOrder`).

`RowCodec_proofs` holds for any schema, texts, numbers, dates and modifications
within the assumptions, for rows that are set, stored, fetched and sent through maps
and JSON in any order (`MapsSpec`):

* `RowsTypeCorrect` (`TypeOK`), `MapsKeepStoredBytes` (`MapsKeepBytes`) and
  `DayNumbersCountDays` (`DayNumbersCount`), without hypotheses;
  `StoredRowsReadBack` (`ReadsBack`) and `RewritesKeepBytes` (`RewriteKeepsBytes`)
  under `VarsInFront`, `MayBeEmpty = FALSE` and `MayBeCut = FALSE`. Every theorem
  starts from `CodecInv`: fields are typed values, and the file holds the bytes of a
  row that may be stored.
* Dates: `DateComesBack` is that `julianToDate` inverts `julianDate`, and `DaysCount`
  that the number is the calendar's, for all dates of 9999 years, by arithmetic on
  quotients (a year from March on has a closed form for its months).
* Null flags: `FlagBitsGrow` and `BitsApart` say that the bits of different columns
  are different, `FlagsFound` that the reader looks for the bits the writer counted;
  `VarComesBack` follows, with the length byte of a short string.
* Digits: `DigitsComeBack` and `NumberComesBack` are that the decimal text of a number,
  filled up with spaces, reads as the number, by induction over the digits.
* Maps: `KeptInMap` finds the field a key stands for, `ConvertTwice` that a
  conversion there and back is none, `JSONKeepsBytes` what JSON changes without
  changing the cell. `WordsMean` and `RoundedMeans` say which numbers a `float64`
  keeps, for any widths with 32 bits below the exact range and 64 within 2048 of it.

`Lifecycle_proofs` holds for any tables, containers and number of handles:

* `TypeCorrect`, `HandlesStayOwn` (`HandlesBelong`), `AllTablesOpen`
  (`DatabaseComplete`) and `CloseReportsTheTruth` (`ClosedMeansClosed`) rest on
  `HandleInv`: two Files never hold one handle, a handle that is held is open on
  its own file, a closed one is forgotten (`HandlesSound`); a Database that is
  being loaded holds what it has opened so far of what `Search` gave (`SearchFinds`,
  `DatabaseFresh`, `DatabaseLoads`);
  one that is being closed has closed what it has passed, or knows of an error
  (`CloseProgress`). `NumbersAreFree` proves that the numbers the operating system
  hands out, the lowest free ones, are free and distinct; `OpensEffect`,
  `OpenFailsEffect` and `CloseEffect` say once what opening and closing do.
* `NothingLeaks` (`NoSilentLeak`) rests on `LeakInv`, which adds that before any
  error the rows still to be opened name tables without a `File` (`Orderly`).

`WindowsLocks_proofs` holds for any programs, rows, blocks and layout within the
file limits (`SizeAssumption`):

* `NoLockStays` (`OnlyTheWrittenIsLocked`): besides what `UnlockFileEx` failed to
  unlock, the locks are exactly the regions of the places being written, whichever
  call fails and whoever exits.
* `OneWriter` (`OneWriterPerPlace`): equal places give equal regions, and a
  region is never empty because its high word is not zero, so an equal region
  overlaps itself and excludes the second writer. The invariant is `LockInv`:
  `TypeOK`, `OnlyTheWrittenIsLocked`, and that the regions of two writers never
  overlap (`WritersApart`).

Only model-checked: all liveness (`EveryWriteReturns`, `EveryCallReturns`,
`EveryLoopReturns`), which is outside the prover's reach, as is ENABLED. Every
other property of a passing run is the subject of a theorem. The runs that expect
a violation have no theorem, of course; `AppendFillsFreeSlot` and
`PointerStaysInTable` are false.

## What is not modelled

* Partial writes and partial reads of one system call.
* Two `File`s opened on one path without locks. Each has a count and a `NextFree`
  of its own, and nothing in the code or its documentation says how they should
  agree.
* Autoincrement values that two goroutines take at once, and two Rows of one goroutine
  that share a position.
* Where exactly a displaced Read or Write of `Navigation` lands.
* The second read of `ReadNullFlag` for a varchar while its row is converted.
* Float, double, currency and memo cells, numbers with decimals and the time of day
  in `RowCodec` (memo contents are in `MemoStore`): what their conversion loses is a
  matter of binary fractions. `CollapseSpaces`, which changes texts on request
  before they are stored.
* Handles lost on the error paths of `OpenTable` and `OpenDatabase`: they follow from
  the code at once, and `NoSilentLeak` leaves calls that returned an error aside.
* Code page conversion; rows from and to structs; accessors; error texts and debug
  output; the configuration and file version checks.
* The index files named in the header, which the library does not touch.

## The plan

Built so far, in this order: `RecordTable` and `RowStore` with its proofs,
`MemoStore`, `TableLayout`, `Navigation`, `RowCodec`, `Lifecycle`, `WindowsLocks`
with its proofs; then `RowIncrement`, `BytesReadWriteSeeker` and `TableFile`,
`RowMaps`, memos that grow, reads that fail and rows that are counted before they
are stored, locks that stay.

Proved since: every safety property of every component, and the refinement of
`RecordTable`.

Next, extending the model:

1. Two `File`s on one path, composed of two `RowStore` headers over one disk, and
   what `WriteLock` adds on Windows (composition with `WindowsLocks`).
2. The null flag as a part of the row images of `RowStore`, read by a transfer of
   its own; variable columns behind others in `RowCodec`.
