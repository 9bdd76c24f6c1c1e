# Flood API: models and proofs

This directory holds TLA+ models of the Flood API, a web service on an ESP32 that
answers two GET requests from an SQLite database on an SD card and shows what it is
doing on a two-row display. The modules are translated from `src/src` (and, where the
program depends on it, from the virtual file system of the vendored SQLite in
`src/lib/esp32_arduino_sqlite3_lib`). TLC checks them on small instances; TLAPS proves
for every value of the constants the safety properties of the repository, the routes,
the application, the device as a whole, the VFS and the display, and that the
repository and the VFS implement their abstract specifications.

## 1. The system

| Part | Source | State | Operations |
|---|---|---|---|
| Application | `main.cpp` | the four objects, where `setup()`/`loop()` is | `setup`, `loop` |
| Routes | `FloodRoutes.*` | the web server; locals of the handler that runs | `river`, `rainfallStation`, `getQueryParameter`, `loop` |
| Flood repository | `db/*` | `m_floodDb`, `m_stationMap`, the statement of a call | `init`, `getAllStations`, `stationExists`, `getRiverReadings`, `getStationRainfallReadings` |
| JSON mapper | `mapper/*` | none | `getFloodData`, `getRainfallReadings` |
| LCD display | `display/*` | sticky rows; the controller's cells, cursor and shift | `displayText` (sticky, flash, scroll), `clearDisplay` |
| Loggers | `logger/*` | minimum level (and a mutex in the native one) | `debug` ... `error`, `setLogLevel` |
| MicroSD reader, date helpers | `sd/*`, `date_util.h` | none | used by a test, or by nothing |
| VFS | `esp32.cpp` of the vendored library | a `FILE`, the write buffer of a journal | open, read, write, sync, size, truncate, close, delete, access |
| SQLite | vendored | page cache, statements | prepare, step, finalize |

**Interaction.** Everything is a call in one task. `loop()` calls the web server, which
calls a handler, which calls the display (and waits a second for each flash message),
the repository, the mapper and the server again. Around that task three things move by
themselves: clients, the network and the SD card. There is no `try` in the program:
an exception from anywhere ends in `abort()`, the panic handler restarts the device,
and every connection is reset.

**What is hard here**

* *Failure.* The scan loops take every result but `SQLITE_ROW` for the end of the
  rows, so a failed read gives a short page with status 200, or a station cache
  without some stations. Worse, the VFS reports every failed read as a short one and
  does not fill the buffer, and SQLite accepts a short read: another page's content is
  then taken for the wanted page, and stays in the cache under the wrong number.
* *Restart.* Exceptions are recovered from by starting again. `sqlite3_open` creates a
  missing file, and empties one that `stat()` does not find.
* *Order.* The server listens before the repository is initialized. `stationExists`
  is asked seconds before the station is looked up.
* *Buffers.* The VFS has a write buffer of its own over the one of the C library over
  the one of the file system. A method that flushes can fail half way, and the power
  can go with bytes in any of them.
* *Time.* A handler runs for seconds; clients give up, and others connect meanwhile.
* *Text.* The start text of a request goes into the SQL as it is. With a quote in it the
  statement does not compile, and the throw restarts the device, or it is another SELECT.
* *Numbers.* Text to `int` to `uint8_t`, and `(page - 1) * pageSize` in `int`.

`PROJECT.json` lists each hazard at its line with the properties that cover it.

**What makes each part correct**

* Repository: a reply holds the rows its page number and size mean, in place and
  whole, or visibly short when an error cut it; a station has its right identifier;
  nothing is answered before the database is open; every call ends; and once the
  database stays in the slot the repository can be called again. What it then answers
  may still be short: only `init()` mounts the card, so that after a card was out the
  queries go on failing until something restarts the device.
* Routes: the response carries the page of its own request; no request of integers
  that fit, and of a start text without a quote, takes the device down.
* Application: no client gets another's response, no handler returns without having
  sent one, none runs before `setup()` is over, and nothing but a failure or a request
  that can make a handler throw resets a connection.
* VFS: the bytes of every write are at their offset and are read from there, a sync
  makes them permanent, and a call that fails or a loss of power touches nothing else.
* Display: messages are seen whole, and the sticky message comes back clean.

## 2. The modules

```
Paging <- FloodTables <- FloodStore <- FloodRoutes <- FloodApp
               ^             ^ refines                   ^ instance
               +------- FloodRepository <---------- FloodSystem

FileContent <- SqliteFile
     ^             ^ refines
     +-------- ESP32VFS <- ESP32VFSProofs      LCDDisplay <- LCDDisplayProofs

FloodTablesProofs <- FloodRoutesProofs <------------------ FloodAppProofs
        ^                                                       ^ instance
        +- FloodRepositoryProofs <- FloodRefinementProofs <- FloodSystemProofs
```

* **Paging** - the integers of the code (`CInt`, `UInt8`, wrapping `Wrap`), `Offset`
  as the code computes it, and what a page is over any set of rows: the rows with
  ranks `(page-1)*size+1` to `page*size`.
* **FloodTables** - the three tables, the calls of `IFloodRepository`, which rows each
  `SELECT` matches, the station map, and the three fates of a scan: `whole`, `short`
  (an error ended it) and `spoilt` (it read a page that was not the one it wanted, or
  its statement is not the one that was meant).
* **FloodStore** - the abstract specification of `IFloodRepository`: down or up, one
  call at a time, answers that are the page asked for, a prefix of it, or spoilt.
* **FloodRepository** - `FloodRepository.cpp` step by step. `pc` follows `init()`
  (`off`, `mount`, `open`) and then each query (`prepare`, `step`, `finalize`);
  `aborted` is a throw. One action per call into SQLite or the SD library that can
  succeed or fail: `Mount`, `OpenExisting`, `OpenCreates`, `OpenThrows`, `Prepare`,
  `PrepareThrows`, `StepRow`, `StepDone`, `StepError`, `StalePage`, `SpoiltScan`,
  `NullText`, `Finalize`. `Eject`, `Insert` and `Crash` are the environment.
* **FloodRoutes** - the handlers over `FloodStore`: `Dispatch`, `CallRiver` or
  `CallRainfall`/`SendNotFound`, `ReadPage`, `ReadPagesize`, `StoiFails`, `Query`,
  `TakeAnswer`, `SendPage`, `Done`, `StatementThrows`, `Throws`. Each step ends where the
  code waits on the display or calls another part.
* **FloodApp** - extends the routes with `setup()` (`PowerUp`, `Connected`,
  `StartServer`, `InitReturns`), the server's loop (`Accept`, `HandleRequest`,
  `CloseConnection`, ...), restarts, the network and the clients. The web server is
  external: one connection at a time, a bounded backlog, a time limit for a silent
  client. It calls a handler once for a connection whose request has arrived
  (`arrived`, `handled`), and closes the connection after the handler whether or not
  anything was sent. A request arrives as a whole; one that is still on its way when the
  time limit ends is lost.
* **FloodSystem** - the device as it is built: `FloodApp` with the detailed repository in
  the place of the store (`INSTANCE`). There is one task; `OneTask` says where it can
  be in both at once. Each step of the repository that begins or ends something there
  is one step with that of the handler or of `setup()` that belongs to it:
  `QueryCalled` is `Issue` and `Query`, `DeviceRestarts` is `Reboot` or `Crash` and
  `Restart`, and `RepositoryReturns` is `Finalize` with the handler, or `setup()`, going
  on: what the reply holds is up to the repository alone.
* **SqliteFile** - the abstract file: its content, what of it is durable, and the places
  that are not durable yet (`dirty`). A write puts the caller's bytes at the caller's
  offset, at once or in pieces; a read returns the bytes that are there, and a short one
  leaves out nothing; a sync makes all of it durable; a loss of power takes what is
  dirty; and a call that fails reaches no place that is not dirty. It is what SQLite
  asks of a VFS but for what this one is known to do otherwise, and each of these is
  named there as a deviation: a read that the device fails may return anything (the
  finding of `repository_rows`), a truncate cuts nothing off, a size may leave out bytes
  that are not durable, a failed `fsync` and `fclose` are not reported, a file that
  `stat()` fails to find is emptied, `access()` takes an error for no file, and a delete
  with `dirSync` deletes and then returns an error or crashes. `FileContent` has the
  operators on sequences that both modules use.
* **ESP32VFS** - one file behind the methods of the VFS. What was written can be in
  `aBuffer` (a journal has one), in the buffer of the stream, in the file system or on
  the card (`disk`). `fseek` and `fwrite` write out an arbitrary part. Each method has
  an action for success and one for what its error path leaves; the loop of `ESP32Write`
  is taken one iteration at a time (`BufferedWrite`, `CopyOn`, `CopyFails`). The loop of
  `ESP32Delete` that leaves its array is undefined: it ends in an error or a crash.
* **LCDDisplay** - the display over the controller's memory: two rows that run on into
  each other, a cursor, and a window that shifts. The controller keeps all of it when
  the device restarts.
* **...Proofs** - the lemmas and theorems about the module each is named for.
  `FloodTablesProofs` has those about `Paging` too, `FloodRoutesProofs` those about
  `FloodStore`, and `FloodRefinementProofs` shows that `FloodRepository` implements
  `FloodStore`.
* **MC...** - the instances TLC checks.

Rows are positions in the order in which SQLite visits a table; levels and the text of
timestamps are functions of the row. A start text is any text: one that stays inside its
quotes in the SQL is its place among the timestamps in the order of text, in which
SQLite compares them, and `NoStart` is the empty one. All others are `BadStart`. With it
`PrepareThrows` needs no failure; a statement that compiles all the same selects what
cannot be told, so that its scan is `spoilt` from the start, can throw on a NULL, and
may return more rows than the page size, because a comment in the text can cut off the
`LIMIT`. What is assumed of it is that it ends and changes no table.

## 3. The runs

| Run | Bounds | Shows |
|---|---|---|
| `repository` | 3 station rows (two of one name), 5 river, 5 rainfall rows; 20 calls; 2 faults, 1 eject, 1 crash | `ReplyInPlace`, `ReplyWhole`, `CutIsShort`, `StationIdsRight`, `UpHasDatabase`, the inductive `RepositoryInv`, `KeepsPromise` (the repository implements `FloodStore`), and under fairness `CallsEnd`, `Recovers` |
| `routes` | 43 requests: absent, ordinary, extreme and unreadable parameters, start texts with a quote | `ResponseIsPageAsked`, `StationStillKnown`, `CallsBelongToHandlers`, `FittingRequestsDoNotThrow` |
| `app` | 3 clients, backlog of 2, one throw, reset and loss of the network | `OwnResponse`, `OpenIsKnown`, `ClosedIsAnswered`, `HandledAfterSetup`, `ResetsHaveCauses` |
| `system` | 3 clients, backlog of 1, 1 fault and 1 eject; cards with, without and with an empty database | `OneTask`, `OwnPages`, `RestartsHaveCauses` |
| `system_live` | 2 clients, backlog of 1, 1 fault, eject and loss of the network; the same cards | `EveryoneIsServed`, `ServesAgain` |
| `vfs` | 3 places of 2 values, write buffer of 2, reads of up to 2, 1 fault, any number of power losses | `LayersFit`, `OkKeepsAll`, and `ActsAsFile`: the VFS implements `SqliteFile` |
| `display` | window of 3 in rows of 8; texts of 0, 2, 4, 8, 10 | `FlashInView`, `StickyReturns`, `ScrollShowsAll` |

Five runs end in a violation, each a place where the code does something else than
what the repository says of it:

| Run | Violated | What happens |
|---|---|---|
| `repository_rows` | `RowsMatch` | a read that fails unnoticed returns rows of another page, against the contract of `xRead` |
| `vfs_size` | `SizeIsWritten` | `ESP32FileSize` does not count what is in the buffer of the stream |
| `routes_pagesize` | `PagesizeHonoured` | a page size of 256 becomes 0 |
| `routes_integers` | `IntegersDoNotThrow` | an integer beyond `int` restarts the device |
| `routes_body` | `BodyIsObject` | the body of an empty page is `null` |

**Why the bounds are enough.** The tables are the smallest with a first, a full, a
partial and an empty page, rows that do not match between rows that do, rows out of
the order of their timestamps, and a name that occurs twice. `IntMax` is 1023 instead
of 2^31-1, far above 255 as in the build, so that pages of 255 rows overflow at page 6
(negative) and page 10 (positive again); `uint8_t` has its real width. Two faults let
one failure hit the station scan and another a later query. Every counter bound
(`MaxFaults`, `MaxEjects`, `MaxCrashes`, `MaxThrows`, `MaxResets`, `MaxDrops`) is of the
environment and limits how often something goes wrong, never what the code does;
`MaxBacklog` is the server's. The proofs do not depend on any of them. The display is
16 columns in 40; 3 in 8 keeps the order window < scroll distance < row. The smaller
tables of `app` and `system` do because `repository` and `routes` have settled what a
page is. In `system` two clients are to get different pages, and one of them leaves out
the page number that the other names, so that a page handed to the wrong client, or a
parameter kept from the last request, is seen; the third has a start text that spoils
the SQL and a page size that is no `uint8_t`. A fault and an eject together leave the
card in any of its states at any step. The network is not lost there: it is in `app`,
and in `system_live`, where two clients are enough for one that holds up another, and
one sends a page number that `std::stoi` refuses. One `BadStart` is enough,
because what it does is a choice over all that such a text can do.

A file of three places and a buffer of two are the smallest in which a write fills the
buffer, flushes it and goes on, a second write continues the first, and one goes back
over it. SQLite appends to a journal or goes back to one of its headers, which can be at
any of its sectors: `BufferedWrite` starts at the end or at a place of `Headers`, which
are 0 and 2 in `vfs` and any set of places in the proofs. `vfs` exchanges the two values
(`SYMMETRY`): what a place holds is only ever compared. Its `VIEW`, `WhatActionsRead`,
leaves out `result`, which no action reads, and where the bytes of an empty buffer would
belong; the action properties still see each step with its own result.

**Fairness.** `FairSpec` of the repository has the main task go on: after a restart, in
`init()`, and in a call. Nobody has to make a call or put the card back, and nothing
has to fail; the guard of `Mount` needs a card, so that a device without one may wait
for ever, as the code does. `SystemSpec` says the same of the whole device: its one
task goes on wherever it is (`WF` of `TaskSteps`), `abort()` restarts the device, and
the network is found when it is looked for. `EveryoneIsServed` and `ServesAgain` then
hold under what the environment has to do: a card that stays, or one with the database
(without, the device restarts for ever). Clients are not fair: none has to connect, to
send or to wait. The query of a start text with
a quote is assumed to end as others do. Nothing is assumed of the VFS and the display.

## 4. The proofs

The theorems hold for all tables, calls, requests, clients, texts and bounds that the
assumptions declared with the constants allow (`IntMaxAssumption`, `TablesAssumption`,
`CallsAssumption`, `AnswersAssumption`, `BoundsAssumption`, `RequestsAssumption`,
`ResponsesAssumption`, `AppAssumption`, `SystemAssumption`, `VfsAssumption`,
`DisplayAssumption`). TLC evaluates each assumption in a run. In each module the
inductive invariant is a conjunction of named parts, each action has a lemma that
preserves it, and the theorems follow at the end.

| Module | Theorems |
|---|---|
| `FloodTablesProofs` | `OffsetIsFirst`, `EachRowOnOnePage` |
| `FloodRepositoryProofs` | `RepositoryInvariant`, `TypeCorrect`, `RepliesInPlace`, `RepliesWhole`, `FullPagesUncut`, `StationIdentifiers`, `UpMeansDatabase` |
| `FloodRefinementProofs` | `RepositoryKeepsPromise` |
| `FloodRoutesProofs` | `RoutesTypeCorrect`, `ResponsesArePagesAsked`, `StationsStayKnown`, `HandlersCall`, `IntsDoNotThrow` |
| `FloodAppProofs` | `AppTypeCorrect`, `ResponsesReachTheirClients`, `OpenConnectionsKnown`, `ClosedWereAnswered`, `SetupComesFirst`, `ResetsAreCaused` |
| `FloodSystemProofs` | `SystemTypeCorrect`, `TaskIsOne`, `PagesReachTheirClients`, `NobodyIsTurnedAway`, `RestartsAreCaused` |
| `ESP32VFSProofs` | `VfsTypeCorrect`, `LayersAlwaysFit`, `OkLosesNothing`, `VfsActsAsFile` |
| `LCDDisplayProofs` | `DisplayTypeCorrect`, `FlashSeen`, `StickyComesBack`, `ScrollIsSeen` |

**Paging.** `OffsetIsFirst`: where the first row of a page is an `int`, the wrapped
computation gives it. `EachRowOnOnePage`: the pages of one size, laid end to end, have
each row in one place. The row with rank `r` is on page `(r-1) div size + 1`; ranks are
cardinalities, and two rows of one rank are the same row (`RankUnique`).

**Repository.** None of its properties is inductive by itself. What a reply holds is
decided while its scan runs, so `RepositoryInv` adds

* `ScanInv`: the statement is the one of the call in progress, the rows so far have
  the ranks `skip+1, skip+2, ...`, and rank and remaining skip always add up to what
  has been passed over;
* `FinishInv`: what is known of the rows when the loop has ended, by how it ended;
* `CallInv`: a call in progress names a known station, so that `at()` finds it;
* `DatabaseInv`: the connection is open wherever it is used.

`StationIdsRight` is part of the induction because a rainfall query matches rows
through the station map, and a map from a scan cut short must give the same rows: rows
are read in ascending order and `insert` keeps the first, so any prefix of the table
gives each name it has the identifier of the whole table (`MapOfPrefix`).

**Refinement.** `RepositoryKeepsPromise` shows that `FloodRepository` implements
`FloodStore`: `init()` returning is `Open`, the beginning of a call is `Ask`, an error that
the scan swallows is `Cut` or `Spoil`, the return of a call is `AnswerQuery` or
`AnswerStations`, a throw or a reset is `Lose`, and every other step leaves what the store
shows as it is (`Unseen`). That the rows returned are a page that the store allows comes
from `FinishInv`; `QuietInv` says that nothing is left of a call between calls, and that
a spoilt scan ends with rows that `SpoiltRows` allows.

**Routes.** They are proved over the store, so that the refinement carries the result
to the code. `StoreInv` says what an answer is worth to a caller. `RoutesInv` adds
`LocalsInv` (the parameters that the handler has read so far are those of its request),
`CallInv` (the call in progress is the one that the parameters give, of a station that
is known) and `ResponseInv`; these make `RoutesCore`, which holds whatever it is that
throws. `ThrownInv` says why a handler was left by an exception. A request has any start
text, so that `IntsDoNotThrow` lists it among the causes.

**Application.** `AppCore` adds to `RoutesCore` where the task is (`MainInv`: `loop()`
runs exactly while the repository is up, and a handler works on the request of the
current connection), where each connection is (`HeldInv`: in one place of the backlog or
at the server, never in both, and no handler was called yet for those in the backlog),
what has been received (`GotInv`), and `SentInv`: a handler that has returned has sent a
response, and the client has it if it is still there and the network was not lost. The
server closes the connection after the handler in any case, so that `ClosedIsAnswered`
rests on this and not on a guard of the server; it would go wrong with one path of a
handler that returns without `m_server.send`. What
is about the exceptions of the store stands apart (`ThrownInv`, and in `CauseInv` why
connections were reset), because in the device they have other causes.

**Device.** `SystemInv` is the invariant of the repository, `AppCore` with the repository
in the place of the store, `OneTask`, `FailureInv` and `SystemCauseInv`. The lemmas about
the application are not proved again: `FloodSystemProofs` has them for the store that
the device has (`Device`, an instance of `FloodAppProofs`), and `AppInSystem` shows that
each step of the device is a step that they are about, or one that the application
cannot see. Two steps carry the argument. When the repository returns, `ReplyAnswers` and
`InitAnswers` prove from the refinement what the application assumes of its store; the
action itself says nothing of the reply, so that a repository that returned the rows of
another call would fail here and not be ruled out. When the handler calls it, the
station is one that `stationExists` has found and no restart was in between, so that
`at()` finds it (`QueryGoes`). `FailureInv` ties a card that is gone, a stale page and a
scan that is not whole to a failure, or to the start text of the call in progress
(`Misquoted`), `MisquotedHasCause` leads from that call to the request whose handler made
it, and `SystemCauseInv` keeps a cause from an exception to the restart that it ends in.

The proof of `RestartsAreCaused` found a cause that the runs cannot show: `init()` throws
when no station was read, so an empty station table restarts the device for ever, with
every part of it in order. `NobodyIsTurnedAway` is the safe part of `EveryoneIsServed`
and needs neither a card nor fairness.

**VFS.** `VfsInv` adds to `LayersFit` what makes it inductive: `KindsFit` says which
kinds of handle have a name on the card, that nothing is left of a closed file, and that
whatever waits in a buffer is at a dirty place. What the stream holds, and what a caller
of the VFS sees, are layers of sequences put over each other, so that the lemmas on
`Overlay` carry the proof: two pieces that follow each other are one (`OverlayJoin`), a
piece leaves alone what is outside of it (`OverlayKeeps`), and a write cut anywhere is
the same write (`OverlayCut`, `OverlayContinues`). `DrainedStream`, `SpiltStream`,
`WrittenStream` and `BrokenStream` say what `fseek`, `fwrite` and their failures can do
to the stream. `VfsActsAsFile` shows that `ESP32VFS` implements `SqliteFile`: each
method, as it succeeds or fails, is a step of the abstract file with the same arguments
and the same result. For the methods that fail it has to be shown that whatever the
stream loses is at a dirty place, because nothing else was ever in a buffer
(`KindsFit`). A buffered write is one `Put` for each piece that the loop copies
(`CopyOnPuts`), and that the pieces add up to what was to be written, through a flush
between any two, is `OkLosesNothing`.

**Display.** `DisplayInv` has the type invariant, `FlashInView` and `ScrollInv`, which
relates the loop counter to the shift of the window and to the characters that have
passed. `StickyReturns` is about every return: of a sticky message, whose call is one
step, of a flash and of a scroll message, and of the constructor after a restart; the
only other step that ends idle is `clearDisplay`. The memory is a ring, so that the
lemmas on `Write` and `Seen` establish where a text lies that does not go round.
`ScrollIsSeen` needs as many steps as a row is wider than the window, 24 for 16 columns
of 40; `SCROLL_LENGTH` is 32.

**Only model-checked:** liveness (`CallsEnd`, `Recovers`, `EveryoneIsServed`,
`ServesAgain`), which is out of reach of the prover. Every other property of the passing
runs is a theorem.

## 5. Not modelled

* SQLite itself, 237 000 vendored lines, from whose use `prepare`, `step`, `finalize`,
  `LIMIT`, `OFFSET` and the page cache are modelled. Almost all lines of the repository
  are in its two files, so that the lines these modules stand for are a small share of
  the whole; of the program's own code in `src/src` they are most of what has state.
* How SQLite drives the VFS when it writes: the program only reads. `ESP32VFS` holds for
  a caller that appends, rewrites, syncs and closes as SQLite does, in any order.
* Of the VFS, what keeps no state (locks, control, sleep, randomness, path names), the
  name of a temporary file, and the SQL functions for text compression, which no query
  calls.
* The loggers: one writes a line to the serial port, the other does not compile. The
  MicroSD reader, which only a test that is switched off uses, the date helpers, which
  nothing includes, and the configuration.
* Chronological order: no query sorts, and whether the table is stored in order is a
  property of a file that is not in the repository.
* The texts in JSON and on the display, beyond their length there.
* `callback`, `db_exec` and `cleanup`, which nothing calls.

## 6. Plan

Done: Paging, tables, repository, its abstract store and the refinement; routes;
application; the VFS and the file it implements; the application over the detailed
repository; display; the proofs of section 4, which leave only liveness. Left, in this
order:

1. That the device implements `FloodApp` as a whole. Each of its steps is one of the
   application already (`AppInSystem`), but for the counters of exceptions and resets,
   which would have to be history variables of the device.
2. The routes over the display: what the display shows while and after a handler runs,
   as a composition of `FloodRoutes` and `LCDDisplay`.
