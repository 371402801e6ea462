# A verification of the homework programs in TLA+

The repository is a collection of C programs, one per homework.  This directory
models those of them that keep state and do something hard with it, checks the
models with TLC, and proves theorems about them with TLAPS.

- [1. The system](#1-the-system): its components, their state and operations
- [2. The modules](#2-the-modules): what models what
- [3. The runs](#3-the-runs): what each one shows, its bounds, the fairness
- [4. The proofs](#4-the-proofs)
- [5. Disagreements found](#5-disagreements-found)
- [6. What is not modelled](#6-what-is-not-modelled)
- [7. Plan](#7-plan)

## 1. The system

The programs do not call each other.  What follows lists, for each, its state,
its operations, what is hard about it, and what makes it correct.

### The package installer (`hw-16`)

`clib-package.c`, in two versions: `hw-16/1/.../clib-package-patch1.c` and
`hw-16/2/.../clib-package.c`, which differ in what they free and in how they read
a thread's result.  The line numbers below are those of the first.

| part | state | operations |
|---|---|---|
| manifest load, `clib_package_new_from_slug()` (595-803) | the manifest cache, `lock.mutex`, `retries`, the response `res` | look up, delete, download with retries, build, save, try the next manifest name |
| dependency tree, `clib_package_install()` (1237-1602), `install_packages()` (345-405) | `visited_packages`, the recursion's frames and freelists, the packages' memory | visit, prepare, fetch, configure, unpack, install dependencies, free |
| fetching of sources, `fetch_package_file*()` (909-1064) and 1389-1547 | files on disk, the package cache, `lock.mutex`, `refs`, the slots `fetchs`, `i`, `rc` | create a thread, join, lock, check, fetch, report, copy from and to the cache file by file |

They interact by calls (the tree loads each dependency, then installs it, which
fetches its sources) and through the one mutex and the two caches.  Hard: one
thread per source with a reused array of slots; failures that must travel through
`pthread_join()` and a recursion; a process that stops in the middle and leaves
files and caches to the next one; copies of directories that fail half-way; retries;
cyclic dependencies; memory with several owners.  Correct means: success implies that what was asked for is there;
every call returns; nothing is freed twice or used afterwards.

### The log library (`hw-12`)

`otuslog.c` and the program `test.c`.  State: the stream and its position,
`wr_ch_count`, the mutex, `localtime()`'s static result.  Operations: `init_log`,
`log_to_file`, `final_log`.  Hard: records are written piece by piece by many
threads, the file rewinds at a limit, the counter overflows, and the program must
not close the log while a thread uses it.  Correct means: records are whole, the
file stays near its limit, calls fall within the log's life, every call returns.

### The hash table (`hw-08`)

`open-hash-table.c`: linear probing, deletion by shifting back, doubling.
Sequential.  State: `table_size`, `occ`, `table_k`, `table_v`.  Operations:
`lookup`, `add`, `rmv`, `rebuild`.  Hard: long sequences of calls that leave the
slots in an order no test sets up, with wrap-around.  Correct means: it is a map
from words to counts, and every call returns.

### The file-size daemon (`hw-19`)

`daemon-filesize.c` and `client.c`.  State: the configuration, descriptors, the
socket file, the queue of connections.  Operations: read the configuration,
daemonize, bind, accept, `stat()`, send, close, stop; connect, receive, print.
Hard: instances that follow on or replace each other, clients that go away,
daemons that are killed, calls whose failure nobody looks at (`unlink()`) or that
only one client is to feel (`send()`), a file that changes.  Correct means: every
client ends with a size the file had while it waited, or because its daemon ended or
could not send it, and descriptors do not run out.

### The weather client (`hw-09`)

`curl-weather.c` and the tokenizer `jsmn.h`, which is in the tree and compiled into
it.  State: the buffer `JSON` and what it holds, the handles of libcurl, the
tokenizer's position, tokens and current superior, the `struct weather`.
Operations: start the transfer, collect a piece (`write_cb()`), tokenize, look for
keys in the first 64 tokens, look for extremes in all, compare the city, print.
Hard: an answer in pieces that may stop anywhere or not fit the buffer; one pass
over the text without a stack, in which every bracket and comma must find its
container again; loops that look at tokens whether or not they are there, and a
report of fields whether or not they were found.  Correct
means: a text that is JSON gives the tokens its grammar has, what is printed is
what the document says, nothing is printed of a document that did not come whole,
and the program ends.

### Three filters (`hw-03`, `hw-04`, `hw20`)

`is-rarjpeg.c` lists the files of an archive behind a picture: it reads chunk by
chunk, searches a signature, and seeks to each name with a second descriptor.
`decode.c` converts one of three code pages to UTF-8 by tables that it fills at
its start.  `crc32.c` prints a checksum of a mapped file, by a table.  State: the
position in the file, the chunk, the sum of the lengths of the chunks; what was
written; the remainder.  Hard: short reads and failing ones, of a name too, signatures at the ends
of chunks, headers that are cut off, the first and last entries of tables.  Correct
means: each header is listed once, under its own name; what is written is the
UTF-8 of what was read; the checksum is that of the published algorithm.

## 2. The modules

| module | models | state and actions |
|---|---|---|
| `WordCount` | what the table promises: a map with `Add`, `Lookup`, `Remove` | abstract specification |
| `OpenHashTable` | `open-hash-table.c` | the globals and locals under their names; one action per iteration of each loop (`ProbeNext`, `ShiftSkip`, `ShiftMove`, `RebuildAdd`, ...) |
| `OpenHashTableProofs` | | theorems about it |
| `OtusLog` | `otuslog.c` | a character of the file is a cell naming its record and its place there; one action per write, and one each for `time()`, `localtime()`, lock and unlock |
| `LogProgram` | `test.c` | extends `OtusLog` by `main()` and its threads, for any script of records |
| `LogProgramProofs` | | theorems about the two |
| `SourceFetch` | one `clib_package_install()`: lines 1319-1547 and 909-1064 | the installing thread's `pc`, a `tpc` per file, the slots, the lock, `refs` as loads and stores; `LoadFile` and `SaveFile` copy one file from and to the cache; `Stop` ends the process at any point, in the middle of a file too, and `Start` starts the next one on what is left |
| `SourceFetchProofs` | | theorems about it |
| `ManifestLoad` | `clib_package_new_from_slug()` | an action per branch of the load; the cache maps keys to manifests |
| `InstallTree` | the recursion, on top of `ManifestLoad` | a stack of frames, one per unreturned `clib_package_install()`; `pkgs` says what became of each package and of its memory |
| `InstallTreeProofs` | | theorems about it |
| `Jsmn` | `jsmn.h` | the parser's fields; one action per branch of the three loops. A character is one of the kinds that the branches tell apart, or a whole word that the tokenizer never looks into |
| `JsonGrammar` | what a JSON text is and the tokens it has | reference definition, a recursive descent |
| `Weather` | `curl-weather.c` | extends `Jsmn` by the transfer, the two loops of `parse_json()`, one token a step, and the report |
| `WeatherProofs` | | theorems about `Weather` and `Jsmn` |
| `ByteFile` | `read()` of a file | bytes, an offset, short and failing reads |
| `RarJpeg`, `Decode`, `Crc32` | `is-rarjpeg.c`, `decode.c`, `crc32.c` | an action per call of `read()`, header, byte written, octet |
| `Filters` | the three programs, one of which is started | |
| `NumberLemmas`, `FilterProofs` | | what proofs need of numbers and sequences; theorems about the three filters |
| `SizeServer` | what the daemon promises: each client that asks and stays gets one answer, from one look at the file while it waited, and is lost only when its server stops or cannot send what it found | abstract specification |
| `FileSizeDaemon` | `daemon-filesize.c`, `client.c` | a `dpc` and a descriptor table per daemon, a `cpc` per client, the owner of the socket file |
| `FileSizeDaemonProofs` | | theorems about it, one of which is that it implements `SizeServer` |

`MCOpenHashTable`, `MCLogProgram`, `MCInstallTree`, `MCWeather` and `MCFilters` hold the
small functions, scripts, repositories, answers and files that TLC needs.  `InstallTree` takes the fetching of a
package's own files, the subject of `SourceFetch`, as one step with any of its
results; `LogProgram` composes the library with its user, and `InstallTree` with the
loader, by extending the module and conjoining the other's `UNCHANGED`.

A definition whose comment begins with "faulty form of" is a plausible mistake
in the one that follows.  It is not part of any specification: putting it in its
place is how one sees that the properties notice.  Three of them are the code of
hw-16/2: `LearnedNothing` (its line 1497 passes NULL to `pthread_join()`, so that a
failed transfer goes unnoticed), `GetFailsFreed` (its line 670 frees the response before a retry; its
error path frees it again) and `DepInstalledFreed` (its line 377 frees the package
that it then puts on the list of packages to free).

### Reading the correspondence

- *Hash table.*  `pc` says which loop runs and `op` which call; `add()` inside
  `rebuild()` is the same code returning elsewhere.  `hash()` is any function to
  the naturals: its 64-bit result is used modulo the table size only.
  `strndup(k, 1024)` is `Stored`.
- *Log.*  `done[t]` and the cells' `at`/`of` are history: they make "this record is
  whole" expressible.  `total` is what `wr_ch_count` would be without `INT_MAX`.
  `Wrap` is what an overflowing `int` does in the builds; by the standard it is
  undefined.
- *Source fetch.*  File `f > 0` is a source and `0` the Makefile.  A file is absent,
  partly or wholly written.  The lock is a variable holding its owner.  The functions of
  `clib-cache.c` are not in the repository: what `clib_package_install()` asks of them is a
  copy of a directory, in which each file in turn takes the place of what is there
  (`Copies`), and which an error or the end of the process leaves where it is, in the
  middle of a file if it is in one (`Cuts`); and a recursive delete, whose result line
  1427 does not look at.  `complete` (the last copy into the cache came to its end) and
  `cut` (what a failed copy from it has left partial) are history.
- *Tree.*  A manifest's name may differ from its repository's, which is why
  `LookupKey` and `SaveKey` differ.  `res` and `mem` are "live", "freed" or "freed_twice".
  `end` is history.  `dir` is the directory a package is installed to: the one the
  program asked for, or that below the unpacked package whose executable needs it.
- *Daemon.*  Daemon processes are interchangeable instances of one program; `path` is
  the daemon whose socket the file is, dead or alive.  `connect()` succeeds when that
  daemon listens, waits while its queue is full, and is refused otherwise.
  `raced`, `kept` and `unsent` are history: another daemon bound the socket since this one's
  `unlink()`, the `unlink()` failed with a file there, the `send()` failed.  What `SizeServer` speaks of is computed from the state, without
  history: `Phase` from the client's place, what it received, and who holds it
  (`Holders`: the daemon in whose queue it is, or which serves it); `Asked` and `Answer`
  from that daemon and its `buf`.  Its `Look` is the `stat()` for a client that is still
  there, its `Send` the `send()`, its `Drop` one that fails, its `Stop` any end of a daemon, by a signal or by itself.
- *Weather.*  Token `i` of the model is `t[i - 1]`; a token that was not allocated is
  not in the sequence, and using one is `Undefined` or has any outcome that the code
  has for what memory may hold.  A field that was never written is `Unset`, and so is
  one whose number no `int` can hold: it may be compared and printed as anything, which is
  what the code does, or be `Undefined`.  A number is one character with a value in
  hundredths; a conversion to `int` drops the fraction (`Whole`, `AsInt`).  `JSON` beyond what was received is the NULs of a static array.
- *Filters.*  A 32-bit word of `crc32.c` is the set of its bits.  The tables are
  functions of the byte, 0 where nothing was assigned, with the low byte written
  first.  `cuts` and `misread` are history: which signatures lay across two chunks, and of
  which headers the length or the name was not read as far as it is there.  Any `read()`
  of those two may give less than there is, or nothing, and `calloc()` no memory.

## 3. The runs

### Runs that pass

| run | shows | bounds |
|---|---|---|
| `hash_table` | the layout is right, the table implements `WordCount`, every call returns | four words, three of which collide at the last of four slots (8 after the doubling); counts up to 2 |
| `source_fetch` | success means fetched and joined (sources of the overflow slot apart), slots are joinable, neither files nor the cache get worse but by a copy that breaks off, the install returns | three sources, concurrency 1, a Makefile, two processes; a directory is copied and deleted in the order of its numbers (`InOrder`); `refs++` and `refs--` are one step (`Racy` is FALSE; the run `refs_race` has them in two) |
| `log_program` | records are whole, the file is bounded, calls fall within the log's life, `main()` ends | three threads and `main()`, seven records, pieces of one character, a file of 8 and an int up to 18 |
| `install_tree` | success covers the tree, nothing is installed twice or freed twice or used when freed, the recursion is bounded and returns | three packages in four slugs: a diamond with an install command, a cycle with a self-dependency, and two versions of one package, one of them for development |
| `daemon` | the daemons implement `SizeServer`, descriptors come back, a stale socket file is no obstacle, clients end | two daemons, two clients, one change of the file, a queue with room for one connection, one spare descriptor; every call of the daemon may fail |
| `weather` | tokens nest, are the text, and are those of the grammar; undefined behaviour happens at the named edges only; a report is of the tokens, true and of a whole document; the program ends | every text of up to 4 characters over 8 and over 6 kinds; every document of two levels with up to two members, some of three; weather documents of 1 to 3 days, padded to the buffer's end and beyond, and with a NUL at each place; a buffer of 79 characters (256 KiB in the code), 22 tokens (4096), 16 tokens in the first loop (64), copies of 1 and 2 words, ints up to 200 |
| `filters` | headers are listed, text is converted, checksums are right | every byte; every text of up to 3 bytes of {0, 192, 223, 239}; every text of up to 6 bytes of the signature's; seven archives; chunks of 7, an input buffer of 2, the length of a name at offset 4, ints up to 24, one short and one failing read of a chunk, any reads of a name |

Why the bounds are enough.  Each is the smallest at which its hard case happens.
In `hash_table` the table can be full, holes and scans wrap around, and the
collisions change on doubling.  In `source_fetch` the slot array wraps: source 2
overflows and source 3 reuses slot 0, and a copy can break off before, in and behind each file.  In `log_program` the file rewinds several
times before the counter overflows.  In `install_tree` a package is reached by
several ways, a failure happens at every depth, and the manifest cache is hit,
missed and deleted.  In `daemon` one daemon can take the path of another at each
step of its start, and a client can be queued behind another.  In `weather` the longest
document has more tokens than the array, documents end one before, at and behind the
end of the buffer, fields are missing, come too late or are all there, the key of the last
one being the last of the first tokens, numbers have fractions of both signs or are
beyond an int, and every pair of neighbouring kinds of characters occurs, at each
depth up to four.  In `filters` a signature lies at each place of a chunk and across
two, and a checksum is of up to six octets, and of the nine whose value is published
(`CheckValue`).  `MaxVal`, `MaxSize`,
`MaxRuns`, `MaxClock` and `MaxChanges` bound what is otherwise unbounded; each is a
guard of the environment's action, never of the program's own step, except that
`add()` and `rebuild()` are not called beyond `MaxVal` and `MaxSize`.

What may surprise in the properties:

- `SuccessMeansFetched` excepts two kinds of files that count as fetched for the code
  because they exist (line 943): those that an earlier process left half-written, and
  those that the copy from the cache has cut before it failed, after which the process
  downloads what is not there.  When the copy succeeds, the sources are what the cache
  has: whether that is all of them is the subject of `CacheIsComplete`.
- `CacheIsComplete` speaks of copies that came to their end.  One that broke off, in the
  process that saved it or under a delete, lacks files, and `clib_cache_has_package()`
  takes it for the package all the same: see section 5.
- `WholeStaysWhole` allows a copy from the cache to cut a whole file, one that it has not
  copied yet: it writes over the package's directory.
- `TreeCovered` accepts a dependency that failed with a result other than -1, because
  line 374 does: a `configure` command that exits with 1 is such a failure.
- `FileBounded` holds until the count of characters passes `INT_MAX`, since nothing
  resets it.  Afterwards the file grows until the negative count is positive again.
- `InstallTree` assumes acyclic dependencies when `opts.force` is set: with it, nothing
  ends a cycle, as nothing is skipped.
- `ClientEnds` allows that a client prints an unset buffer when some daemon ended, or when
  the `send()` of its answer failed (lines 376-379): the daemon then closes the connection
  and serves the next one.
- `StaleFileIsNoObstacle` allows a daemon to find the address in use when its own
  `unlink()`, whose result line 321 does not look at, has failed.
- `TreeCovered` says where a package is only with `opts.force`.  Without, the dependencies
  of an executable go below the directory where it is unpacked (line 1185), count as
  visited, and are then not in the directory that the caller asked for.
- `UndefinedOnlyAtTheEdges` names where `curl-weather.c` leaves what C defines: an answer
  that leaves no room for the NUL of line 298; fewer tokens than the first loop looks at;
  a field that has no key among the first tokens, which lines 188-210 and 308 use all
  the same; a key as the last token of all; and a number that no `int` can hold.  The
  documents `FullText` of `MCWeather` have none of these, and TLC checks that they are
  reported and never undefined.
- `NoReportOfATruncatedAnswer` excepts the text of which nothing is left: an answer that
  begins with a NUL has no tokens, which is no error, and a report is printed from unset
  memory if that happens to hold the city.
- `ParsesJson` speaks of JSON texts.  The tokenizer, as it is configured, also accepts
  texts that are not JSON: what those give is the subject of `TokensNest` and
  `TokensAreTheText`, of which the second says that every character is a part of one
  token, or a blank, a colon or a comma.
- `ReportIsOfTheTokens` takes a value from where the code takes it, the token behind a
  key, whatever that key belongs to.  It says nothing of an extreme when its key is the
  last token: the value is then memory beyond the tokens.
- `EntriesListed` excepts headers whose signature lies across two chunks and files of which
  the read of a chunk failed.  A header whose name or length was read short is listed in
  its place, under a part of a name; names of 256 characters and more are read with a
  wrong length (line 67 multiplies the high byte by 16).  Behind offsets that an `int`
  holds, and where `calloc()` gave no memory for a name (line 67 does not ask), nothing
  more is said: `Undefined` ends the program.
- `TextConverted` excepts the bytes the tables have wrong: KOI8-R 0xc6 (the small ef has
  the code of another letter), ISO-8859-5 0xdf and 0xef (the loops of lines 96 and 99 end
  one early), DEL (the low tables have 127 entries), and everything that is no letter
  above 127, which gives two NULs.

### Fairness

Every liveness property is under weak fairness of the program's own steps, one
condition per thread or process: a thread that can run is run.  No fairness is
assumed of the environment: no call need be made, no process killed, no file
changed.  In particular:

- `EveryCallReturns`: a call that runs goes on running; callers need not call.
- `source_fetch` and `log_program`: weak fairness suffices for a mutex because each
  thread takes it a bounded number of times.  A transfer ends, well or badly.
- `ClientEnds`: each daemon and each client is scheduled.  A client that is in the
  queue of a daemon that ends is told so by the kernel.
- `ProgramEnds` (weather): from the end of the transfer on.  No time limit is set for the
  transfer, so that a server which stays silent keeps the program for ever.
- `InstallReturns` (tree): one program, one thread.  The property allows every result of
  a download, including three failures each time.

Deadlock is checked everywhere.  Where a system really may come to rest (`main()` has
exited, the install is over, every daemon waits for a client and no client is left)
a named stuttering action says so: `Exited`, `NoMoreRuns`, `Stays`, `Waits`.

### Runs that find a disagreement

`full_table`, `overflow_thread`, `refs_race`, `timestamp` and `broken_pipe` check one
property each, which a comment or a test of the repository states and the code does not
keep: see section 5.

## 4. The proofs

TLC looks at small instances; the theorems hold for every value of the constants
that satisfies the named assumptions of the modules.

### The hash table (`OpenHashTableProofs`)

From `TableAssumption` (any set of words, any hash function, any first size):

- `TypeCorrect`: `Spec => []TypeOK`, no index ever leaves the table;
- `ProbesReachTheirKey`, `KeysAreUnique`, `FindKeyIsAlwaysCorrect`: with `ShortWords` in
  addition (`strndup()` keeps the whole word).  The last two are of `NoDuplicateKey` and
  `FindKeyCorrect`, which `TableImplementsMap` stands on; no run checks them by
  themselves, since the mistakes that break them break `CountsWords` as well.

`NoGapBeforeKey` is not inductive by itself.  `IInv` adds that occupied slots hold words,
that a probe has passed nothing but other words since the home slot (`ProbePath`), that
the hole of a shift is free, and that keys are unique.  The heart is the arithmetic of
wrapped distances: `StaysPutOffPath` and `MoveOnPath` say that the case split of `rmv()`
(lines 148-157) is exactly the question whether the hole lies on the entry's probe path.
`ShiftMove` then carries the gap from one hole to the next, and `ShiftDone` closes it.

- `TableImplementsMap`: under `ShortWords`, `Spec => CountsWords`, which is `WordCount` with
  `Count` for its map.  `Count` takes a word to the value of the slot that holds it, and
  during a rebuild, where the new table does not hold it yet, to that in the old one from
  `r` on.  `MapInv` adds what a rebuild needs (`OldInv`): no word is in both.  There is one lemma per
  action (`RmvStart` takes a word away, `ShiftMove` moves one, ...), which shows that it
  maps to a step of the map or changes nothing in it.

### The log (`LogProgramProofs`)

From `LogAssumption` and `ProgramAssumption` (any number of threads and records, any
lengths of pieces, any limit, any width of the counter):

- `TypeCorrect`, `RecordsAreWhole`, `FileIsBounded`, `CallsOnlyWhileOpen`.

`IInv` is `TypeOK` with `LockInv` (who is inside holds the lock), `SizeInv` (the counter is
the total until it overflows, and the position never passes the limit between records),
`RecordInv` (the holder's characters stand from its base on, after whole records) and
`MainInv` (what `main()` has created, joined and opened fits its pc).  `WholeRecords` says
nothing while the lock is held, so the induction needs what the holder has written so far;
`CallsWhileOpen` needs that every thread beyond `created` has not begun and every one up to
`joined` has ended.

### The fetching of sources (`SourceFetchProofs`)

From `FetchAssumption` (any number of sources, any concurrency, any number of processes
that follow on each other):

- `TypeCorrect`, `SlotsCanBeJoined`, `SuccessIsJoined`: by `SlotInv`;
- `SuccessIsFetched`, `CacheStaysComplete`, `WholeFilesStay`: by `FilesInv` in addition,
  which is `FileInv`, `HalfInv` and `CacheInv`.

`SlotsAreJoinable` is not inductive: that a slot holds a thread nobody has joined needs that
the slots are filled in rows of `Max + 1` sources (`RowBegins`, modulo arithmetic on
`next - 1 - i`), that no two slots hold one thread, and that every launched source is in
the overflow slot, joined, or in a slot below `i`.  `FileInv` follows a file from the
thread that looks for it to the join that learns of its failure: until the thread fetches
it, it is as the process found it, and a joined thread with an error leaves the installer
on its way out.  `CopyInv`, a part of `IInv`, says when a copy is under way, and `HalfInv`
how far it is: from the cache, the files it is done with are those of the cache, and the
others are as the process found them; to the cache, the files it is done with are those of
the directory, and the copy does not count as complete.  `CacheInv` is the property: a copy
comes to its end only when every file of the directory has been done, and it begins only
when every source but those of the overflow slot has been joined, without an error.

### The daemon (`FileSizeDaemonProofs`)

From `DaemonAssumption` (any number of daemons and clients, any sizes, any limit of
descriptors from six on, any backlog):

- `TypeCorrect`, in which every `queue` stays within the backlog;
- `DescriptorsAreGivenBack`, by `DescriptorInv`: a connection is in the table exactly while
  the daemon serves it, once, as `sd2`;
- `StaleFilesAreNoObstacle`, by `BindInv`: between `unlink()` and `bind()` the file can only
  be there because the `unlink()` failed, or again because another daemon has bound it;
- `DaemonsServeSizes`: `Spec => ServesSizes`, the implementation of `SizeServer`, by
  `ServeInv`.

`ServeInv` adds to `TypeOK` and `DescriptorInv` that a client is held once, by one daemon,
in its queue or as the one it serves (`OnceInv`), and that whoever is held has connected
and has an answer exactly when it is served and `send()` is done (`SentInv`).  The first
makes `Asked` a function; without the second an answer could go to a client that has one.
Each step then maps to a step of the server or to none: `ConnectAsks`, `StatLooks`,
`SendSends`, `SendFailsDrops`, `ClientEnding` and `EndsStops` are the steps that do something, and
`QuietStutters`, `AcceptStutters` and `CloseStutters` those that clients do not see, such
as `accept()`, which takes a client from the queue to the connection in service.
`SameView` and `OneView` say once which clients see nothing of a step.  `SizeServer` is a
safety specification: that a client ends at all is `ClientEnds`, which TLC checks.

### The tree (`InstallTreeProofs`)

From `TreeAssumption` (any repositories over finite sets of slugs and names, in which
dependencies may form cycles or name several versions of one package):

- `TypeCorrect`, `PackagesInstalledOnce`, `RecursionIsBounded`, `NothingUsedAfterFree`,
  `EverythingFreedOnce`;
- `TreeAlwaysCovered`, under one more hypothesis, below.

`IInv` has these parts:

- `ControlInv` says how the program's place, the innermost call and the load of a manifest
  fit together: only the innermost call is anywhere but in a loop over dependencies, and a
  load is under way only for it or for the program.
- `OrderInv`: a call's freelist, its package and the calls above it name packages in the
  order in which they were built.  This is what makes the owners disjoint: no package is
  in two freelists, or in a freelist and on the stack.
- `MemoryInv`: a package is live exactly while a call, a freelist or a result owns it,
  except for what a failure passes by.  `NoUseAfterFree` and `FreedOnce` are its two sides.
- `VisitInv` and `OnceInv`: what has begun to be installed is visited, and all but the
  innermost call have begun, so without `opts.force` no two packages that have begun share
  a name.  `RecursionIsBounded` counts: the calls below the innermost one are an injection
  into `Names`.

`TreeAlwaysCovered` needs a second invariant, `CInv`, which stands on the first:

- `CacheInv` and `SlugInv`: what is loaded for a dependency has the name of the package in
  that dependency's repository, from the cache as well.  This is where the theorem has a
  hypothesis, `NamesAgree`: *where a repository has the name of some package, it holds a
  package of that name*.  The cache is filled under the name in the manifest (line 741 of
  clib-package-patch1.c) and asked by that of the repository (line 633), so without it a
  package can be served in the place of another one, and `TreeCovered` is false: let the
  repository `lib.c` hold a package `util` and the repository `util` a package `lib`, and
  let a program depend on both.  The instance that TLC checks satisfies the hypothesis.
- `RootInv` and `ChainInv`: a call and the call that it made, or what that one returned,
  are of a package and of the dependency that is next in its list, in the right directory.
- `EndInv` and `ResultInv`: what became of a package is what its call or its result says.
  A package ends in an error only when the whole installation fails, one whose
  installation has begun has a call, and a visited name has such a package: so what is
  skipped is not lost, although it may be installed much later, by a call further out.
- `CoverInv`: unless the installation fails, each call has seen to the dependencies before
  the one that is next, that of an executable to all of them before its command runs, and
  each installed package to all of its own.  At the end no call is left, so what has been
  seen to is installed.

### The weather client (`WeatherProofs`)

From `WeatherAssumption` (any set of answers, cut in any way, any sizes of the buffers):

- `TypeCorrect`, `TokensAlwaysNest`: by `IInv`;
- `TokensAreAlwaysTheText`: by `TextInv` in addition;
- `ReportsAreOfTheTokens`, `UndefinedOnlyThere`: by `ReportInv` in addition.

`IInv` is `ParserTyped` with `NestInv`, `ProgramTyped` and `Stages`.  `TokensNest` is not inductive: a container is closed by the first bracket that finds
it the last open token, so what it encloses is right only because every token so far either
ended before a later one began or encloses it, where an open one reaches beyond the end of
the text (`Nested`), and none lies beyond the position (`Within`).  The tokenizer's sixteen
actions change the tokens in three ways only (`Reads`, `Adds`, `Closes`): `ParseKinds` says
so, and `AddsNest` and `ClosesNest` do the work once.  `Stages` relates the program's place to
the tokenizer's; `LoopMoves` and `EndsUndefined` follow the two loops over tokens.

`TextInv` says of the text up to where the token that is being read begins (`Base`) what
`TokensAreTheText` says of all of it, and of that token that its characters so far are
those of its kind (`Begun`).  Open containers have no last character yet, and the theorem
needs none: a text with an open container is not accepted.  For this question the
tokenizer's steps are of three kinds again, and each is dealt with once: a step skips
characters (`TextSkips`), makes a token of them (`TextMakes`), or shuts a container by a
bracket of its own type (`TextShuts`).  A text without NUL is what `strlen()` of
line 46 of curl-weather.c hands over; the tokenizer's loops would stop at one.

`ReportInv` follows the two loops of `parse_json()`.  After `n` tokens a field is what the
last of its keys among them says (`SaysFirst`), an extreme is among the values so far and
beyond none of them (`Highest`, `Lowest`).  `SaidNext` and `ValuesNext` say what one token
more changes, and `SaidKept` that what a field says lasts while the tokens do.
`UndefinedOnlyThere` stands on the same invariant: behind the first loop a field is `Unset`
only when the first tokens say nothing of it, or nothing that its type can hold
(`UnsetFields`), and `StepEdges` shows that each step into `Undefined` has one of the edges
as its reason.

Memory that nobody wrote is `Unset`, which `WeatherAssumption` takes to be neither a number
nor one of the two exit statuses.

### The filters (`FilterProofs`)

From `FileAssumption`, `RarAssumption` and `DecodeAssumption` (any files, any numbers of
failing and short reads, any sizes of the buffers, any place of a header's length):

- `EntriesAlwaysListed`: by `ListInv`, with `ChunkInv`.  What was searched of the file ends at
  `Searched`; the headers before it that no end of a chunk cuts are those listed, in
  order, whatever the reads of names give; the name is compared where none of it was
  `misread`.  `MatchesAre` translates positions in the chunk to positions in the file, which
  is where the sum of the lengths of the chunks matters.
- `TextAlwaysConverted`: by `DecodeWritten`.  `KoiLetters`, `CpLetters` and `IsoLetters` compute
  the tables, entry by entry, and compare them with Unicode.
- `ChecksumAlwaysRight`: by `CrcInv`.  Division is linear (`DivideXor`), so that eight rounds
  on the remainder mixed with an octet are those on its low byte, which the table has, and
  a shift of the rest (`OctetIs`).

The reference definitions recur over the text or the file.  `NumberLemmas` has what that needs:
`RecursionTo`, that such a recursion up to a bound has a solution, and `InductionTo`, induction
up to a bound, stated of a set of numbers and proved from the least member of its complement.

### What is only model-checked

Liveness under fairness is out of the prover's reach: `EveryCallReturns`, `InstallReturns`,
`ProgramEnds` and `ClientEnds`.  `ParsesJson` and
`NoReportOfATruncatedAnswer` compare with `JsonGrammar`, whose operators are recursive, and
`ReportIsTrue` speaks of the documents of `MCWeather`.

## 5. Disagreements found

| run | the code | what it is said to do |
|---|---|---|
| `full_table` | `find_key()` never ends in a full table; nothing calls `rebuild()` | open-hash-table.c:80, :19 |
| `overflow_thread` | the thread in slot `opts.concurrency` is never joined | package-install.c:59 |
| `refs_race` | `refs` is updated without a lock; the package is then never freed | clib-package-patch1.c:1633 |
| `timestamp` | `localtime()`'s result is shared, and read after another call may have written it | otuslog.c:161 |
| `broken_pipe` | `send()` to a client that has gone ends the daemon | daemon-filesize.c:350 |

The defects of hw-16/2 (section 2) are shown as the faulty forms that
`SuccessMeansFetched`, `FreedOnce` and `NoUseAfterFree` reject.  Without a run of its own:

- `daemonize()` leaves descriptor 0 open, so that the three streams which line 205 of
  daemon-filesize.c names 0, 1 and 2 become 1, 2 and 3.
- A copy of a package in the cache that broke off, or that a delete has left in part, is
  taken for the package (lines 1425 and 1434 of clib-package-patch1.c): the install then
  returns 0 without some sources, or with one that is cut.
- A copy from the cache that fails half-way leaves a cut file, which the download that
  follows takes for fetched (line 943).
- `print_weather()` prints fields that the answer did not have among its first tokens, and
  `main()` compares a city that it may not have had.

The models show the last three as the exceptions of `CacheIsComplete`,
`SuccessMeansFetched` and `UndefinedOnlyAtTheEdges`; no document of the repository states
otherwise.

## 6. What is not modelled

- *Hash table*: `main()`'s reading of the file; words longer than 1024 characters in the
  runs and theorems on the layout; a failing `calloc()` (the program exits).
- *Log*: a write error on the log file; the lengths and wording of messages; frames of a
  backtrace one by one.
- *Source fetch*: what `clib-cache.c` and its recursive copy do besides copying files one
  after another (it is not in the repository); two sources with one basename; failures of `pthread_attr_*()`;
  `opts.global`; the share locks of curl, which use the same mutex around single calls.
- *Tree and load*: a manifest without a name; memory that runs out after a package has
  been built; the author part of a slug; `refs`, which is 0 here and the subject of
  `SourceFetch`; two versions of one package that are unpacked side by side.
- *Daemon*: relative paths (`chdir("/")` comes after the configuration is read), syslog's
  own descriptor, the `-t` and `-h` options; a `send()` of a part of the buffer, and a
  failing `recv()`, which the client treats like a closed connection.
- *Weather and filters*: the check of `argc` and of the arguments; in `is-rarjpeg.c` the
  count of files; everything of libcurl behind
  `write_cb()`.
- *External code*: curl, glib, the kernel and the C library are modelled by what the
  programs see of them.

## 7. Plan

Done, in this order: the hash table with its abstract specification and proofs;
`SourceFetch`; the log with its proofs; `ManifestLoad` and `InstallTree`; `FileSizeDaemon`;
the directories and development dependencies of `InstallTree`; `Jsmn` and `Weather`; the
three filters; `SizeServer` and its refinement; what the weather client's tokens and
reports are.

Next:

1. `SourceFetch`: two sources with one basename, two writers of one file, whose contents
   may then be mixed.
2. An abstract `Installer` that says what a tree of installs promises, implemented by
   `InstallTree`, and the refinement step by step.
