# Buraaq in TLA+

Buraaq is a compiled language with a C runtime. The compiler is a chain of
sequential passes; what is hard to get right lies in the runtime under
`stdlib/runtime/`: threads that share rings, queues and containers, a cache that
every text operation reads, a web service that keeps a database session across
failures, a dock that stores and runs archives, and windows that save notes. These
modules model that runtime. Source paths below are relative to the repository.

## Inventory

| Part | State it keeps | Operations | How it meets the others |
|---|---|---|---|
| Native channels, `buraaq_runtime.c` 476-602 | ring, count, `closed`, one mutex, two condition variables | bounded, send, recv, close, free | called by any OS thread or task |
| Executor, `buraaq_runtime.c` 112-474 | per worker a ring deque under a mutex; ready, shutdown, submitted; a done flag per task | init, submit, join, yield, groups, shutdown | runs jobs that submit and join in turn, and that use channels |
| Length cache, `buraaq_rt.c` 13-73 | eight (pointer, length) pairs, no lock | `buraaq_length_of`, `buraaq_forget_length`, `bq_free`, `bq_realloc` | read by every text function of `buraaq_std.c`, on every guest thread |
| Guest threads, `buraaq_rt.c` 467-620 | thread records, an int32 ring without close; the mutex of `buraaq_std.c` | spawn, join, chan_new, send, recv, lock, unlock | the compiler's spawn and channel forms |
| Containers, `buraaq_rt.c` | growing parallel arrays of a map, vectors, a chained set | new, set, get, push, add | no lock of their own; guest threads share them under a mutex |
| Keel, `buraaq_server.c` 106-173, 315-1519 | listeners, 64 connections, the key and lock, pages and apis, one libpq session, the last good connection string | page, api, store, key, origin, run; pg_connect, pg_exec, pg_quote | one thread; HTTP clients on one side, Postgres on the other |
| Stream, `buraaq_stream.c` | listening socket, 32 stream slots, `g_heard` | bind, hail, wire, say, clip, shot, hear, heard, hangup, run_stream | one thread per process; peers are clients of the same library |
| Dock, index and bur, `buraaq_std.c` 1480-2049, `ship.bq` | `~/.buraaq/dock/live/<app>/app.bur`, the token file, `target/ship/<app>.bur`, the directory archives are unpacked in | pack, launch, ship; PUT, GET, DELETE of an app | HTTP clients, the file system, child processes |
| Hold, `buraaq_hold.c` | 64 tables of named columns and rows of cells | new, stow, pick, keep, order, from_csv, to_csv, view | files |
| Lumen, `buraaq_lumen.c` | the rows of a window, its field, a notes file or the rows of a Keel API | load, refresh, type, create, delete, save | a file shared by windows, HTTP to a Keel API |
| Process and files, `buraaq_std.c` | argv table | argv_new, push, free; run; read, write | the operating system |
| JSON, text, crypto, HTTP client, `buraaq_std.c` | none kept | pure functions, one exchange per call | called by the rest |
| Grid, gfx, flowdesk, ai, board | cells, pixels, pages | data transformation and device output | files, a display, a language model |
| Compiler, `compiler-buraaq/src` | syntax trees and symbol tables of one run | lex, parse, names, MIR, LLVM text, package, format, language server | emits calls of the runtime |

What is hard in it, with the line where it bites, is the list of hazards in
`PROJECT.json`. What makes each part correct:

- channels: a bounded closable FIFO, no thread asleep that should be awake;
- executor: each task once, joined after it has finished, every program ends;
- length cache: the same answer as `strlen`, always;
- guest threads and containers: a FIFO that nobody closes, books that add up
  whatever the threads' order, programs that end;
- Keel: an acknowledged write is stored, once unless the session broke under it; no
  write without the key; each connection answered or closed while databases answer;
- stream: each peer hears its own messages, in order and of their kind, as long as its
  frames come whole; no slot leaks; each peer has its turn once the others are silent;
- ship and dock: a command beside no other runs the build it packed; what is stored is
  an upload; who has the token is let in; no client waits on but behind a silent one;
- hold: filters, sorts and files keep the rows that they have room for;
- desk: a note is there once from its creation to its deletion, if nothing fails.

## Modules

| Module | What it is |
|---|---|
| `FifoChannel` | abstract: what a bounded closable channel promises its callers |
| `Channel`, `Channel_proofs` | `buraaq_channel_*`; implements `FifoChannel` |
| `TaskPool` | abstract: the life of a task, parents outlive the children they join |
| `Executor`, `Executor_proofs` | the work-stealing executor; implements `TaskPool` |
| `LengthCache`, `LengthCache_proofs` | the string-length cache |
| `Containers` | the vector, map and set as functions on records, with failing growth |
| `Guest`, `Guest_proofs` | guest threads, `bq_chan`, the mutex; extends `Containers`; implements `FifoChannel` |
| `Keel`, `Keel_proofs` | the service, its libpq session and the databases |
| `Stream`, `Stream_proofs` | `run_stream` and its peers |
| `Bur` | the archive: entries, what a cut or an alteration leaves |
| `Ship`, `Ship_proofs` | pack, launch, ship and the dock; extends `Bur` |
| `Csv` | the texts of a hold: cutting a line, writing a cell, comparing cells |
| `Hold` | tables and their CSV file; extends `Csv` |
| `Desk`, `Desk_proofs` | the note desk's windows on a file or an API |
| `MC*` | instances for TLC: programs, requests, configurations, frames, texts |

`PROJECT.json`, under "map", gives the source lines of each definition.

### Channel

`buf`, `head`, `tail`, `count` and `closed` are the fields of the struct. The mutex
is not a variable: a call holds it from entry to return except while it sleeps in
`pthread_cond_wait`, so a step is one evaluation of the `while` test with what
follows up to the sleep or the return. A thread is `idle`, `ready` (it wants the
mutex, because it called or was woken) or `asleep`, and `call` tells on which
condition variable. `Signal` wakes one sleeper of one side, `Close` all of both,
`SpuriousWakeup` any at any time. `Free` is only taken with no call in flight, as
its callers must; the code does not look.

### Executor

`jobs`, `head`, `tail` and `mem` are the deques and the state of their memory;
`stack` holds the jobs each thread is inside of, since a full deque makes the
submitter run the job on top of its own; `wpc` and `at` are a worker's place in
`bq_worker_main`, one step per pop and per probe of the stealing scan. What the
program and each task do is a constant, a sequence of submits and joins, with init
and shutdown in the main program. The done flag and the freeing of the task struct
are `task`. The 2 ms timed wait ends with or without a signal, so a nap and the
wake-all change nothing except that the wake-all locks every worker's mutex, which
`Touches` keeps. Touching a deque that is not made yet, or freed, is undefined
behaviour: `fault` records it and nothing happens afterwards.

### LengthCache

`ptr` and `val` are the two tables. A string is an address and a length; releasing
and growing it run `Forget` first, and the address may come back with another
length. The walk is one step per pointer read, the hit's read of the length another,
and the two stores are two steps. The walk for the weakest slot and the wiping loop
are one step each. A string being measured is not released meanwhile, as the
compiler's ownership rules guarantee. `seen` is history.

### Guest and Containers

A program is a sequence of runtime calls per thread. `buraaq_chan_send` and `_recv`
are modelled as in `Channel`, without a close; `record` is a thread's heap record,
which join frees; a spawn, a channel or a growth that finds no memory is a choice
that `fails` counts, and `lost` keeps what it cost. The operations of the containers
are functions of `Containers` on records, a bucket's chain being the set of its keys;
`get` and `put` of a map are two steps with a register in between, so that what the
program's mutex protects is visible. An operation is one step, although it takes no
lock: two threads that are each about to use one container, one of them to change it,
may take the step `Race` instead, which is undefined behaviour and ends the model's
run. A mutex that was not made (`NoMutex`) locks nothing. Growth of the map is two
reallocations: the second failing leaves the map with a pointer that the first has
freed (`half`), and the next use of it is `fault`.

### Keel

One thread: `pc` and `job` say what it does and for whom. `link` is the libpq
session, with a state of its own for a session the server has dropped without libpq
having noticed. `buraaq_pg_connect` is `Connect` for each candidate in `todo`;
`buraaq_pg_exec` is `Exec`, `Send` or one of the two ways a send fails, and `Again`.
The session may break before or after the statement has taken effect. `Route` is
`svc_handle` up to the statement, values quoted while the statement is put together.
A request is its method, path, listener, how much of it was sent, and who sent it.
A database may fall `mute`: what is asked of it then waits, since libpq is given no
limit of time. A `crowd` at the https listener keeps `IsNext` from the http one. An
answer is delivered, or lost without notice, or, when its client has left, a SIGPIPE
that ends the process. The item path names id 1. The start-up files (key, certificate)
and the bytes of HTTP and JSON are abstracted.

### Stream

`spc` is the server's place in `run_stream`, with hail split into the accept and the
handshake. `up` and `down` are frames under way; `srv` and `peer` are the two ends of
each connection. What the server sends goes out whole, not at all, or `cut` after its
header or a part of the payload (`Outcomes`), and the server goes on in each case. A
peer that has read a cut frame is `torn`: the next bytes fill it up, and from there on
it hears anything. A send to a peer that has closed is lost and answered by a reset; a
later send kills the process, since nothing sets SIGPIPE aside. `chat` are pongs and
frames of unknown kind, which `HearChat` swallows; a peer may send them without end. A
body is empty, fits, is at the limit so that its echo crosses it (`edge`), or is over.
Continuation frames, texts with NUL bytes and the bytes of the handshake are left out.

### Bur and Ship

An archive is a magic number and entries; an entry's data is the number of the build
it comes from, 0 when its end never reached the disk, -1 when it was altered. A
command (`cpc`) builds, packs entry by entry into `file`, and launches: it reads
entries one at a time (`at`, `held`) and writes them into `dir`, the one directory
all launches share and nobody empties; what it starts is read from there. No open file
excludes anybody: `shared` keeps who has the archive or an unpacked file open beside
somebody who writes it, and what such a command reads or writes may be a mixture
(`Mixtures`). Only a binary that runs, or is being written, refuses the other of the
two (ETXTBSY). A command that ships takes the token from its environment, never from a
copy of the token file. The dock
(`dpc`) makes or reads its token, binds, and serves one request at a time: read,
check, open the stored archive (which empties it), write, answer. A client sends
nothing, the head, a part or all, and may leave; the dock may be killed at any step
and is started again, with its token file and its archive as they were on the disk.
`spoilt`, `torn` and `crowd` are history: what was cut or altered, whether the last
write of the stored archive was whole, which commands ran beside another.

### Csv and Hold

A text is a sequence of tokens: words, and the comma, quote, blank and line feed
that `parse_csv_fields` looks for. The parser is an automaton folded over the
tokens. `holds` is `g_holds`; one thread calls, and each call is one step, the file
being read or written whole unless the disk fills on the way. `Bare` is the line that `keep`
joins a row in, of `CellBytes` tokens a column and `SpareBytes` more (64 and 8 bytes in
the code): a longer row is cut, and when it passes the line before its last cell
(`Overruns`) the size that is left wraps round, and the program may go on with a heap
that it wrote over, of which nothing is said. A table found by its id is never freed.
`call` and `source` are history for the properties.

### Desk

A window is a process whose handlers run one at a time. A save is two steps, since
opening the file empties it; a load reads up to `Buffer` notes (64 KiB in the code)
and takes a closing brace for the end of a row, so a note is `plain` or one of the
texts the parser takes apart otherwise: `pair` comes back as two rows, the second,
the `tail`, without an id. An id is what the code goes by, a key what the model tells
notes apart by. A delete moves the rows up in place (`Moved`), and reads the id it
goes by where the clicked row stood. A save that meets a longer file leaves the end of
it behind, and where that end begins is decided by bytes (`Leftovers`). Over an API,
each exchange is a step that may be refused, answered with an error, or answered too
late. The API is what `Keel` is: `Posts` may store a note twice, an empty row in its
place, or a row in another database, and be answered in each case. Lists and deletes
that such another database answers are not modelled.

## Runs

Each run takes about a minute or less on two workers, `keel` and `stream` two.

| Run | Instance and bounds | What it shows |
|---|---|---|
| `channel` | 3 threads, 2 messages, capacity 2; 30,231 states | implements `FifoChannel`; `NoLostWakeup`, `NoStandoff`, `CloseReleases`, `SleepersServed` |
| `executor` | 2 workers, rings of 2 slots (one job), 4 tasks, two programs; 13,237 states | implements `TaskPool`; `EachJobOnce`, `StopsDrained`, `FaultsAtEdges`, `MainReturns` |
| `executor_memory` | as `executor` | violation of `NeverTouchesDead` |
| `executor_nested` | 2 parents on 2 workers | violation of `NestedGroupsComplete` |
| `length_cache` | 1 thread, 3 addresses, 2 slots, lengths 0-2; 11,542 states | `RememberedIsCurrent`, `AnswersRight`, `LongestRemembered` |
| `guest` | 3 threads, 3 keys, containers of 1 slot and 1 bucket, two programs, 2 failures; 193,000 states | implements `FifoChannel`; `NoLostWakeup`, `Books`, `Ends` |
| `keel` | 2 databases, 2 requests of 3 and 4 shapes, 3 configurations, 2 events (1 under the lock); 968,108 states | `AckMeansStored`, `DuplicateNeedsCut`, `Authorised`, `IdleDropUnseen`, `EveryRequestEnds` |
| `keel_body` | as `keel` | violation of `InsertsTheBody` |
| `stream` | 2 peers, 2 slots, backlog 2, 2 frames sent each, chatter without bound; 1.16 million states | `EchoInOrder`, `SlotsMatch`, `EveryPeerHasItsTurn` |
| `ship` | 2 commands, 2 clients, 7 scenes, 2 mishaps (none where two commands both pack and launch); 456,090 states | `RunsOwnBuild`, `StoredWhole`, `KeyholdersServed`, `DockServes` |
| `hold` | 2 tables of 2 columns and 3 rows, a line of 4 tokens, 5 calls, 1 mishap; 117,000 states | `KeepFilters`, `OrderSorts`, `RoundTrip` |
| `desk` | 2 windows, 4 rows, 3 notes, 6 scenes up to symmetry of the windows, 2 mishaps (1 for two windows on an API); 2.9 million states | `LoneDeskKeeps`, `CreatedOnce`, `DeletesTheRow` |

Why the bounds are enough for the cases that matter:

- channel: three threads put two on one side, so that a signal can reach the wrong
  one of them, and a third between a signal and the woken thread's test; two slots
  wrap around and can be full, half full and empty.
- executor: rings with room for one job make backpressure and wrap-around happen at
  once; the fork-join program nests a parent; the other starts twice. `MainReturns`
  needs a worker that no join can block, which these programs leave.
- length cache: more addresses than slots, so the table fills and gives a slot up,
  and the same address returns with another length. The single thread is not a
  convenience: with two the properties are false (see the known deviations).
- guest: first capacities of one make every container grow twice, and three keys in
  one bucket chain and rehash; two consumers race for the same messages; two
  failures let both reallocations of the map fail in one program, or the mutex be
  missing beside another failure.
- keel: two databases so that a reconnection may choose the wrong one; two events so
  that a retry can fail as well; requests with and without the key, whole, cut and
  empty, to insert, change, delete and list, over both listeners. `MaxEvents` bounds
  outages, drops, silences, crowds and departures; databases come up and speak again,
  and crowds scatter, or do not.
- stream: two peers, so that one waits in the backlog and the slot of one session is
  reused by the next; two frames, so that order and a message after the last count.
  `MaxSent` bounds a peer's texts, clips, shots and pings; pongs and unknown frames are
  not bounded, and with them a peer can hold the server for ever.
- ship: two commands of one project are enough to write what the other runs; two
  clients so that one can hold the dock while the other waits; the scenes cover
  POSIX and Windows, a token of the environment and of the file, a token file that was
  carried to the machine that ships, `BURAAQ_DOCK_ONCE`. `MaxMishaps` bounds failed
  writes, alterations and kills in each scene; two commands that both pack and launch
  have none, since what is spoilt is outside `RunsOwnBuild`.
- hold: cells with every mark, numbers and words; three rows make an order that goes
  in circles possible. Five calls reach a table made, filled, kept, written and read.
  The line that `keep` joins is shorter than some rows, and one cell overruns it.
  `MaxCalls`, `MaxRows` and `MaxMishaps` bound the exploration.
- desk: `MaxRows` and `Buffer` are small enough for a list that is cut by either, and
  four rows hold two notes with their tails, a delete and what moves up behind it.
  `MaxNotes` bounds what is typed, `MaxMishaps` lost and empty answers, kills and full
  disks in each scene.

`CHECK_DEADLOCK FALSE` stands where the system may really stop: a freed channel, a
program that has ended, a service that found no port, a stream server with no peers
or killed, commands that have ended, a bound that is used up.

### Fairness

- `Channel`, `Guest`: weak fairness of each thread's step inside a call. No critical
  section blocks, so a thread that wants the mutex gets it; a thread of `Guest` that
  runs makes its next call. A program's own mutex is held for finitely many calls.
- `Executor`: weak fairness of each OS thread. Spinning joins yield to the
  scheduler, and deque mutexes are held for a few instructions.
- `Keel`, `Stream`: weak fairness of the server's only thread. Its sockets have
  receive timeouts, so a read that sees no byte ends; a disjunct stands for it. What
  has no timeout is not made to end: a call of libpq on a mute database is not enabled.
- `Ship`: weak fairness of the dock, which includes its next start. Its reads have no
  timeout, so `DockServes` is under the hypothesis that no client holds one for ever.
- `Hold`, `Desk`: none; nothing there is promised to happen.

Of clients, peers, commands and databases nothing is assumed by fairness: they may
stop at any point. Three liveness properties name in their hypothesis what the code
needs of them. `EveryRequestEnds` is for databases that are not mute for ever and a
crowd at the https listener that scatters; `EveryPeerHasItsTurn` for peers that do not
send pongs and unknown frames for ever; `DockServes` for clients that do not hold an
unfinished request open for ever.

### What the violations say

Three runs end in a violation, each against a sentence of the documentation that
`PROJECT.json` quotes:

- `executor_memory`: a worker scans the deque of one that init has not made, or that
  shutdown has freed (`docs/LANGUAGE_PHILOSOPHY.md` 21);
- `executor_nested`: parents on every worker spin in joins, as a join runs no other
  job (`docs/adr/0012-unified-concurrency.md` 43);
- `keel_body`: a row is inserted with empty values and answered 201, as they were
  quoted without a session (`docs/SERVICE.md` 123).

### Known deviations

Behaviour met while modelling that the passing properties make allowance for:

- With two threads the length cache answers with the length of another string: a
  reader between the two stores (`buraaq_rt.c` 59) sees the new pointer with the old
  length. `length_cache` and the proofs of what it answers are for one thread; `Guest`
  does not measure.
- `docs/SERVICE.md` 188-189 puts the other databases behind an "else"; the code tries
  them after a `store(url)` that does not answer (`buraaq_server.c` 881), which is
  why `AckMeansStored` says "in a database".
- `docs/STDLIB.md` 142 lets `run_stream` run for ever; a second send to a peer that
  has gone raises SIGPIPE and ends it (`buraaq_stream.c` 93). `EveryPeerHasItsTurn`
  and `SlotsMatch` allow for the server's death. Keel has the same in `conn_write`
  (`buraaq_server.c` 334), and `EveryRequestEnds` counts the connections as closed.
- A send of the stream server that stops half way is not noticed (`buraaq_stream.c` 94,
  251, 695): the session goes on, and the next header lands inside the cut frame.
  `EchoInOrder` holds up to that frame.
- The receive timeout of the stream begins anew with every byte (`buraaq_stream.c` 75),
  and pongs and unknown frames are read in a loop (632): one peer that sends such a
  frame every few seconds keeps the only thread, and nobody else has a turn.
- `buraaq_http_accept` looks at the TLS listener first (`buraaq_server.c` 478), so that
  a crowd there starves the other one; and no call of libpq has a limit of time (919,
  967), so that a mute database holds every client up.
- `docs/SHIP.md` 68 says that an archive with changed bytes is refused; there is no
  digest, and a cut archive is launched as the entries before the cut
  (`buraaq_std.c` 1539). `RunsOwnBuild` is about archives nobody spoilt.
- Commands that run at once write one archive and one unpack directory with nothing
  between them (`buraaq_std.c` 1555), and may run a mixture; `RunsOwnBuild` is about a
  command beside no other.
- `docs/SHIP.md` 91 says to copy the token file to the machine that ships; `ship` reads
  the variable only (`ship.bq` 76), and is answered 401. `KeyholdersServed` counts such
  a client among those without a token.
- The dock keeps a cut upload and answers 201 (`buraaq_std.c` 1832), and empties the
  old archive before it writes the new one (1953); `StoredWhole` names both.
- `keep` joins cells with bare commas (`buraaq_hold.c` 183): a cell with a comma
  shifts the rest of its row. Its line has 64 bytes a column and 8 more (172): a longer
  row is cut, and one that passes it before its last cell makes `cap - n` wrap round,
  and the heap may be written over. A cell that begins with a blank, or a row of one empty
  cell, does not come back from a file. On a column with numbers and other texts
  the comparison of `order` (221) goes in circles. The properties of `hold` name each.
- Two windows on one notes file overwrite each other's notes, and a note with braces
  is read back in parts (`buraaq_lumen.c` 377); `LoneDeskKeeps` names its conditions.
- A desk over an API takes any 201 for its note, which `Keel` may have stored twice,
  empty, or in another database (`buraaq_server.c` 921, 939, 977). `CreatedOnce` says
  when: a note is there twice only when an answer was lost, the API's to the window or
  a database's to the API, and it is missing only when it was answered for all the same.
- The containers take no lock (`buraaq_rt.c` 221-442): unless the program locks around
  each call, two calls that meet may leave anything. `Books` is for programs that do
  (`Orderly`) and whose mutex was made.
- A delete passes the id in its row (`buraaq_lumen.c` 710), which the moves overwrite
  (502-504). While ids differ nothing comes of it; but when the next row has no id,
  being the tail of a note with braces, every later row without one goes too.
  `DeletesTheRow` says that of rows, and of notes that only the clicked one goes.

## Proofs

TLAPS checks the following for every value of the constants.

- `Channel_proofs`. `TypeCorrect`, by the inductive invariant `TypeOK`.
  `WakeupsCover` is the counting argument behind one signal per store: while a
  receiver sleeps, `count` is at most the number of receivers that are ready. The
  invariant needs both sides, the closed case and the types together, as a
  spurious wakeup or a signal moves a thread between the sets that are counted; the
  lemmas on how their cardinalities change rest on `FiniteSetTheorems`.
  `NeverStandoff` follows from it. `ImplementsFifo`: each step of the ring maps to a
  step of `FifoChannel` or to none. It needs `RingOrder`, that `tail` is `head`
  plus `count` around the ring; then a store appends to `Contents` and a take gives
  its head. Assumed: finitely many threads.
- `Guest_proofs`. `TypeCorrect`, `WakeupsCover` and `ImplementsFifo`, for every
  program, go along the same argument for `bq_chan`, which nobody closes; a
  thread's place is its program counter here, so the refinement also needs that a
  thread inside a call has no answer yet (`NoAnswerYet`). `BooksKept` is for programs
  whose mutex was made and that are `Orderly`, as both programs of the run are: every
  use of a container is under the lock, what is written to the map has just been read
  there, only what is locked is unlocked, and what is listed has just been added.
  That no two calls meet is itself proved: who is between lock and unlock has the mutex
  (`Held`), and every container call is there (`NoneMeet`). The map has one entry per
  key, as many values as keys, and freed memory is used only after the second of the
  two reallocations failed (`MapSound`). The set's count is the number of its keys, and
  each is found in its bucket, since a rehash moves every key to the bucket of its hash
  (`Chained`). The sum needs that who is about to write has read what still stands
  there (`ReadIsFresh`), and that the values add up to the writes the threads have
  behind them (`Balanced`). The list needs that what a thread is about to list is in
  the set, not in the list, and nobody else's (`ListedOnce`), since one add answers 1
  for a key. The sums are the folds of the community modules; that they do not depend
  on the order in which they take the elements, and what one changed or one new element
  does to them, are lemmas (`Total`), by induction over the number of elements.
  Assumed: finitely many threads.
- `LengthCache_proofs`. `TypeCorrect`, for any number of threads; the others under
  the hypothesis of a single one. `NeverStale`: an entry at rest tells the length of
  a live string; the invariant adds that the thread between its two stores holds the
  right length, that a walk has not found the string in the slots behind it, and that
  a hit's slot still has its pointer. `LoneThreadAnswersRight` follows at the step
  that returns. `LongestStay` needs `Longest`: what was measured lives; between the
  two stores the slot was vacant or had a shortest string, shorter than the new one;
  and what the first store drove out is no longer than the string it made room for.
- `Executor_proofs`. `TypeCorrect`: the ring invariant is that the slots between
  head and tail hold tasks; pushes, pops, steals and restarts keep it by modular
  arithmetic that is stated once as lemmas. `FaultsOnlyAtEdges`: outside the loops of
  init and shutdown every worker's deque is live, so what a scan or a submit touches
  exists. `EachJobInOnePlace`, `NoJobLeftBehind` and `ImplementsPool` have the
  hypothesis that every program joins each task in the body that submits it, after
  it, with no shutdown in between (`JoinsItsOwn`), which the code does not check:
  a task that nobody joins may be left in a ring by shutdown, and one that is joined
  twice is used after it was freed. `MCExecutor` has TLC evaluate the hypothesis on the
  programs it runs.
  The invariant has four parts. `Places`: a pending task is in one ring slot or on one
  stack, and there once. `Progress`: what a body has behind it was submitted, or
  joined and freed, and nothing exists that nobody submitted. `Grounded`: of any set
  of pending tasks, one was submitted by none of the set. `Quiet`: tasks are pending
  only between init and shutdown. That shutdown finds the rings empty is then not
  about the rings: if tasks were pending, one of them was submitted by a body that is
  not, so its join is behind that body, so it is freed (`DrainedAtShutdown`).
- `Keel_proofs`. `TypeCorrect`, with what a job is at each place of the thread.
  `AcknowledgedStored`, `DuplicatesAreCut` and `OnlyAuthorised` follow from one
  invariant, `Base /\ Ink`: a row bears the mark of a request only if the request is
  served or waits at its second try after a cut; a waiting request has at most one
  copy before the statement that it sends again; and who reaches Postgres has passed
  the router (`Routed`). The three properties are not inductive: they speak of
  answers, and say nothing of a statement under way. `DropsAreUnseen` is an action
  property; it needs `Undisturbed`: while nothing fails around a request the last good
  database is up, it heads the list of a reconnection, and the second try is on a
  session that was just opened. A mute database, a crowd and an answer that its client
  does not get change none of what the invariant speaks of (`Aside`). Assumed:
  requests are told from the two jobs of start-up (`RequestsAssumption`).
- `Ship_proofs`. `KeyholdersAreServed`: from the socket on, the token in memory is
  that of the environment, or that of the file where there is one, and each copy a
  client has is that token or none (`Tokens`). `StoresWholeUploads`: the property is
  inductive once it is known whom the dock lets write (`Asking`). `LaunchesOwnBuild`:
  who runs beside no other is the only one that runs (`Crowding`), and nobody shares a
  file but those who have run beside another (`Apart`), so that what a lone command
  reads and writes is no mixture, whatever mixtures others have left. What it has
  packed, written and unpacked so far is its own at each of its steps (`Owned`, with
  `Pace` for how far it is); the binary is the first entry of an archive that nobody
  spoilt (`Unspoilt`), and on POSIX executable only by hand (`Executable`).
- `Stream_proofs`. `SlotsAlwaysMatch`: outside a session every slot is free, inside
  one its own is taken by the connection that is held (`Sessions`), and a peer that
  has not come is nowhere; so a session can only take a free slot and leaves all free,
  on each way it ends. `EchoesInOrder`: what a peer hears before the first frame that
  was cut are echoes of its own messages, of their kind and in their order. `Reads`:
  while the session listens, what is on its way up is the end of what the peer sent,
  and the message in hand is the last one taken. `Writes`: on the way down, each echo
  has the number of the message it answers, one more than the echo before, from the
  number of those heard up to that of the messages taken, less the one in hand. An
  echo of which nothing was sent keeps its place on the way down; a cut one ends the
  account, as its peer is `torn`. Both are promised only while the peer is there
  (`Up`), as one that leaves drops what is on its way. `Arrivals` keeps frames of one
  connection out of another's: a connection is accepted once and its welcome comes
  first.
- `Desk_proofs`. `NotesAreAccounted`, for windows over an API that may store a note
  twice, empty or elsewhere: a note in two rows, or in a row and still in its field,
  had a lost answer, and what left its field is in a row, deleted or refused (`Rows`,
  `Fields`); an empty row is no note. `DeleteTakesOneNote`, for any
  number of windows on a file: the ids of a file and of a desk are distinct and below
  the next one to be given out (`IdsInv`), as long as no save has left the end of
  another behind it; what the loop does with an id that moves follows by induction
  over the rows it has passed. `LoneWindowKeepsItsNotes`: a lone window's desk and file
  are the list of what was created and not deleted, between a change and its save but
  for that change, and a load of notes without an opening brace gives back their
  number and their keys (`LoneInv`, `ParsedWhole`). Assumed: finitely many windows, and
  a buffer that a full desk of plain notes fits in (`BufferAssumption`).

Constants are assumed to have their types and nothing more (the `ASSUME`s of each
module), except where a hypothesis is named above; TLC evaluates the assumptions in
the runs.

Only model-checked, and why:

- `CloseReleases`, `SleepersServed`, `MainReturns`, `EveryRequestEnds`,
  `EveryPeerHasItsTurn`, `Ends`, `DockServes`: liveness under fairness is out of
  the prover's reach, as ENABLED is.
- `TypeOK`, `KeepFilters`, `RoundTrip` and `OrderSorts` of `Hold`: they are about what
  the folds that cut, compare and write texts compute for every text, token by token.
  The induction over the rows of a desk or the elements of a sum, which the proofs do
  with the library's theorem on minimal elements, would have to be done here over
  nested sequences and the states of a parser; `RoundTrip` is where that ends.
- `TaskPool`, the abstract pool, has no property of its own.

No module uses a RECURSIVE operator.

## Not modelled

- The index (`buraaq_std.c` 1989-2049): the dock's reader over files it never writes.
- `view` and the column sums of hold, cells of 4096 bytes, and what a program does
  after `keep` has written past its line (`buraaq_hold.c` 181).
- Lumen's widgets, layout, painting, fonts, focus and scrolling.
- Keel's TLS, CORS, static files, its JSON and the limit of 64 connections: the
  thread serves one connection to its end, and holds one slot at most.
- What a desk over an API lists and deletes while a second database answers it.
- `ship BUNDLE HOST` of an archive that was packed elsewhere.
- The argv table, files, JSON, text, crypto and the HTTP client: functions over
  bytes, or one system call per call, with nothing to interleave.
- Graphics, grid, flowdesk, ai and board: output and devices.
- OS threads, fibers and atomics of the native runtime: one platform call each. Two
  threads that start the executor at once, a channel freed under its callers, and a
  worker that leaves while somebody still submits (no program of the model does that).
- The compiler, package tool, formatter, language server, the bootstrap text, the
  copy under `dist`, benchmarks, demos and editors: sequential, written in Buraaq or
  generated.

## Plan

The order of the work: channels first, then executor, cache, Keel and stream; guest
threads with the containers; ship and the dock; hold; the desk. All are modelled and
checked, and every safety property of the passing runs is proved but those of `Hold`.

What is left: a type invariant of `Hold` for the calls that read no file, as the first
step to `KeepFilters`; and the index.
