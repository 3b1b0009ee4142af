# NFS_mock in TLA+

NFS_mock is a small network file system: a naming server, storage servers that
register with it, and clients that ask the naming server where a path is kept.
All three are C programs whose processes talk over TCP and whose threads share
globals with almost no locking. This directory holds TLA+ modules for the parts
of it that carry state, TLC configurations that check them on small instances,
and TLAPS proofs of their safety properties for every size of the system.

    tlc -workers 2 -config MCDirectory.cfg MCDirectory      # one run
    tlapm DirectoryProofs.tla                               # one module's proofs

Paths below are relative to the repository. NM stands for
`NamingServerModule.c`, SS for `StorageServerModule.c`, CL for
`clientfunctions.c`.

## 1. The system

### Components

| Component | State | Operations | Code |
|---|---|---|---|
| Registration | `storageServers[10]`, `storageServerCount`, `storageServerMutex` | `storageServerThread` accepts, `handleStorageServer` receives a record, takes a slot, indexes the paths, sends "Registration Successful" | NM |
| Path index | the uthash table `serversByPath`, from path to a copy of a server's record | `HASH_ADD_STR`, `HASH_FIND_STR`; nothing is ever deleted | NM, `uthash.h` |
| Client commands | one `handleClientInput` thread per client | READ, WRITE, GETSIZE, LISTALL answered from the directory; CREATE, DELETE, COPY relayed to storage servers | NM |
| Replicated CREATE | three detached `send_request_async` threads per creation | connect, send, receive, list, index; the thread of the original relays the reply | NM |
| Refresh of a listing | `accessiblePaths`, `numPaths` of a slot; the storage server's global `ss` | `update_list_of_accessiblepaths` and GETPATHS, a handshake of counts and "OK"s | NM, SS |
| Storage server | files below the mount point; two listener threads, one detached thread per request | READ, WRITE, GETSIZE on the client port, CREATE, DELETE, COPY, GETPATHS on the naming server port | SS |
| Start-up and crash | ports, `ss.accessiblePaths` from a directory walk | `registerStorageServer` and `reportToNamingServer`, then the listeners | SS |
| Client program | one socket to the naming server, one per direct request | send a command, wait for an acknowledgement with a timeout, read the reply, contact the storage server | CL |
| COPY | one archive beside the source, one temporary archive beside the destination directory | two checks of the index and one of the listing, archive at the source, relay through the handler, unpack at the destination; neither index nor listing is updated | NM, SS |
| LRU cache | a linked list | look-ups before the table; nothing ever fills it | NM, SS |
| Path strings | none | `strip`, `extractPath`, `getDirectoryPath`, `replacePrefix`, `remove_prefix` | NM, SS, CL |
| Logging | globals `logmessage`, `logfile` | `loggingfunction` | NM |

The experiments `temp*.c`, `test*.c` and the stored data under `src/`, `src1/`
and `src2/` are not part of the system.

### How the parts interact

A storage server walks its mount point, sends one record to the naming server's
registration port and closes the connection; it starts its listeners without
waiting for an answer. The registration thread takes a slot under the mutex,
then adds the server's paths to the hash table after the mutex is released. A
client sends a command on its one connection; the handler looks its path up and
either answers with an address, to which the client then connects by itself, or
connects to a storage server and relays that server's reply. A CREATE of a new
path with three servers or more is handed to three detached threads, for the
path on slot 0 and for `./Backup0` and `./Backup1` on slots 1 and 2, while the
handler goes on to the next command. After a DELETE the handler asks the
storage server for its paths again and overwrites the slot's listing. A COPY is
relayed: the handler connects to both servers, passes the archive from one to the
other and answers 11. Every command is first acknowledged; the client measures
how long that took and gives the command up after its timeout.

### What is hard, and what correct means

| Component | Hard behaviour | Properties that make it correct |
|---|---|---|
| Registration | racing threads, the last slot, a counter that is stored before its slot is filled | every slot is one server's; the counter stays within the array; a refusal only when full; every thread ends |
| Path index | unlocked insertions of two steps, the first table, bucket expansion | an entry names a server of the array; an acknowledged server is indexed; entries do not vanish |
| Client commands | detached threads answering for a handler that has moved on, crashes between request and reply, stale entries | one reply per command; every command is answered; an acknowledged creation can be found; the table tells the truth |
| Replicated CREATE | three threads racing with registrations and with each other | three different servers; all copies are made; writes reach the copies |
| Listing | fixed places, lost increments, aborted refreshes | an acknowledged path is listed |
| Storage server | truncation and flush of one file by several threads, replies before flushes, directories deleted above the file, failing calls, a listener that reads, recycled buffers | an undisturbed write survives; a later reader sees it; every request is served |
| Client session | acknowledgement and reply in one `recv`, late acknowledgements, merged commands, reused and leaked descriptors, clients that leave | a reply is read as the answer to its own command; commands finish; nobody gets a stranger's answer; the naming server survives its clients |
| Refresh | two threads on one global record, a count in an uncleared buffer, "OK" and path in one `recv`, early closes | a finished refresh leaves the paths that exist; handler and thread never both wait |
| COPY | archives shared by overlapping copies, crashes and what they leave on the disk, exits on a refused connection or a lack of descriptors, a relay that waits for a receiver that gave up | an undisturbed copy arrives whole; nothing damaged appears unless copies shared an archive; only what must ends the naming server; copies clean up and are answered |
| Path strings | in-place loops, terminators, empty and absolute paths | the words typed become the paths asked for; CREATE makes that path |

`PROJECT.json` lists the hazards line by line, with the property that covers
each, or why none does.

## 2. The modules

| Module | Role |
|---|---|
| `Directory` | registration threads, array, counter, mutex, hash table |
| `Roster` | abstract specification: what registration promises |
| `DirectoryProofs` | theorems about `Directory`, and that it implements `Roster` |
| `NamingServer` | extends `Directory`: handlers, asynchronous threads, storage servers and clients around them |
| `Catalogue` | abstract specification: what the naming server promises its clients |
| `StorageServer` | listeners and request threads of one storage server, on one file |
| `ReadHistory` | extends `StorageServer` by two histories that say what a READ may answer |
| `Session` | connections between clients and the naming server: acknowledgements, replies, descriptors, departures |
| `PathRefresh` | `update_list_of_accessiblepaths` and GETPATHS, message by message |
| `CopyTransfer` | COPY: handler, the two storage server threads, archives, crashes and restarts |
| `PathStrings` | the string functions on the way of a CREATE line from prompt to disk |
| `NamingServerProofs`, `StorageServerProofs`, `ReadHistoryProofs`, `SessionProofs`, `PathRefreshProofs`, `CopyTransferProofs` | theorems about the module of that name; the first builds on `DirectoryProofs`, the third on the second |
| `ServiceProofs` | that `NamingServer` implements `Catalogue`, on top of `NamingServerProofs` |
| `MC...` | instances for TLC |

Operators whose comment begins with "Mutant:" are faulty versions of the
definition that follows them. They are not used by any specification; replacing
a definition by its mutant must make a property fail.

### Directory

A server stands for its record (address and ports). `regPc` follows the
thread of each server through `handleStorageServer`: record received, mutex
taken, limit checked and counter loaded (`RegCheck`) or refused (`RegRefuse`),
counter stored (`RegCount`), record copied and mutex released (`RegCopy`), then
one `HASH_ADD_STR` for each path and the acknowledgement. `storageServerCount++`
and the copy of the 50 KB record are two steps because other threads read both
without the mutex; the order, counter first, is the one the compiler emits.

`serversByPath` is 0 while the pointer is NULL and otherwise numbers the bucket
arrays the table has had. `chains` holds each bucket's list, the element
`HASH_FIND_STR` meets first at the front. An addition is two steps: reading the
table and the bucket's head (`HashAddBegin`), and linking (`HashAddLink`). What
another thread did in between decides the outcome: a private first table
replaces one published meanwhile, the new head drops an entry linked meanwhile,
or the entry is linked into a bucket array that was replaced. `raced` remembers
that two additions overlapped. Expansion reverses each chain, as
`HASH_EXPAND_BUCKETS` does; which paths share a bucket afterwards is kept fixed,
which no property depends on, since a look-up compares the whole key.

`Boot` and `BootChains` let a behaviour start with servers already registered;
`BootAssumption` says what their registration must have left behind.

### NamingServer

An agent is a thread of the naming server that talks to a storage server: the
handler of a client `c`, or the job `<<c, n, k>>` that sends the n-th command of
`c` to the server of slot k. `pc`, `target` and `reply` are its control state,
its peer, and what the peer has sent. The actions follow `handleClientInput`
branch by branch: `Receive`; `Lookup` (READ, WRITE, GETSIZE); `ListAll`;
`CreateExists`, `CreateMissing`, `CreateSpread`, `CreateAlone`; `DeleteMissing`,
`DeleteFound`, `DeleteConnect`, `DeleteReply`; `RefreshCount`, `RefreshFill`,
`RefreshAbort` for `update_list_of_accessiblepaths`. `RecordPath`, `CountPath`
and `LinkPath` are the code that handler and asynchronous thread have in common
after a reply: the path goes into the listing, `numPaths++` is a load and a
store, the table gets an entry. They differ in the place of the listing they
write to (`PlaceUsed`): the handler appends, the asynchronous thread uses its
slot number. `JobConnect`, `JobReply` and `CreateReply` finish the two kinds.

A storage server is a map from paths to absent, directory, empty file or file
with data, and three states: `starting` (it may have reported, but nobody
listens), `listening`, `down`. `SSCreate`, `SSCreateFails` and `SSDelete` are
`executeNMRequest`, `ClientServed` is `executeClientRequest`. A crash
(`SSCrash`) turns outstanding requests into lost replies: `recv` returns 0 and
the code goes on with its buffer. The asynchronous thread has cleared that
buffer, the handler has not, hence the choices in `RecordNothing`, `CreateReply`
and `DeleteReply`. Nor does the handler terminate what it has read: a reply that
does arrive may be relayed with old bytes behind it (NM 1443, 1469), which the
client cannot tell for a code, so `CreateReply` may answer without acknowledging.

`Catalogue` has no threads, no table and no storage servers. Its state is a set of
entries, each a path and a server, the set of what was ever stored, the commands and
how many of them were answered. Its answers state their reasons: `Route` only to
a server the catalogue has for the path, `Miss` only if it has none, `Confirm` of a
creation only when the path is stored there and catalogued (the answer may be spoilt
by old bytes, and then acknowledges nothing), `Fail` only after a
fault, `Relay` of a DELETE only for a known path; `Store` only of what a client asked
for. Entries are added one by one and never vanish, until two additions overlap
(`loose`); from then on entries may be missing, but without a fault those left are
still true. `NamingServer` implements it (`ImplementsCatalogue`) with `entries` as
the table's, `loose` as `raced` and `faulty` as a fault used up. It does not
promise that every command is answered: that is liveness.

### StorageServer

One server, one file, and one connection and thread for each request. `Accept`
and `ReadRequest` are the listener loops: the listener itself reads the request
and only then starts the thread. The file is modelled at the level of inodes and
stdio streams: `fopen` with "w" truncates at once, bytes stay in the stream's
buffer until `fclose` writes them at offset 0, `remove` drops the name only.

`dir` says whether the file's directory exists. A DELETE of a directory above the
file (`DELETEDIR`) is `deleteDirectory` in its steps: `opendir` and what it lists
(`DirOpen`), an entry made behind its back (`DirFound`), `unlink` (`DirUnlink`), the
return when something is gone already (`DirStops`), `rmdir` (`DirRemove`). Meanwhile
a WRITE or CREATE may find no directory to open its file in: `WriteOpenFails`
answers "Error opening file for writing", `CreateOpenFails` "3". Calls also fail
on their own account, up to `MaxFaults` of them (`Fault`): `fopen`, `fwrite`
(`WriteReplyError`), `fread` (`ReadFails`), `opendir`, and the flush in `fclose`,
whose result nobody looks at (`WriteCloseShort`). `result` is `FAILED` where the
caller is told; `faulted` remembers the requests that met such a failure.

The naming server port reads into memory that `malloc` may have recycled and
that nobody clears (SS 1582); `leftover` is how far that memory holds bytes of
an earlier request. A shorter request that follows a longer one may be read with
that one's tail: `asks` is what its thread then does (`TailAdded`). The path of the
file becomes some other path; the path of a directory above it, or a path that is a
beginning of the file's, may become the file's own. Requests about other paths and GETPATHS are
`OTHER`; a CREATE beside the file makes its directory (`ElsewhereRun`).

`ReadHistory` takes each step of `StorageServer` and records beside it, for each READ
that has the file open, what the file has held under its name since (`held`), and
which inodes a DELETE, of the file or of its directory, removed while a WRITE had them
open (`orphans`). It restricts no step.

### Session

A client is `off`, at its `prompt`, in `waitforAck` (`ack`), in the second `recv`
(`reply`) or `gone`. Up and down streams are sequences of messages, and one
`recv` takes any non-empty beginning of what has arrived: that is how an
acknowledgement swallows a reply (`waitforAck`), or one command the next
(`HandlerRecv`, `KindTaken`). `TimePasses` makes the acknowledgement late. The
kinds of commands say who answers: the handler at once (`lookup`), the handler
after a storage server and before a refresh (`delete`), an asynchronous thread
(`create`), or nobody (`known`, a CREATE of a path in the table).

`files` is the naming server's descriptor table, of `MaxFds` entries. `accept`
and `socket` take the lowest free number; CREATE and DELETE never give theirs
back; a handler closes the client's when its client is gone. An asynchronous
thread has only the number, and sends to whomever it belongs to by then
(`JobReply`). `line` follows the connection as TCP shows it to the sender: open,
closed by the peer, broken (reset, the error not yet reported), reset. A send on
a reset connection raises SIGPIPE, and nothing in the program handles it
(`SendKills`). `slipped` and `starved` remember the clients that a merged, late or
foreign message, or a lack of descriptors, has put out of step: the code has
nothing that brings them back.

### PathRefresh

A refresh is one call of `update_list_of_accessiblepaths` and the request thread
that serves it. The handshake: GETPATHS; the walk (`WalkStart`, then `WalkCopy`
and `WalkCount` for each entry, since `strcpy` and `numPaths++` on the global `ss`
are separate); the count (`SendCount`, `RefreshCount`); the count sent back and
"OK" or "1" (`RecvEcho`, `RefreshOk`); then a path and an "OK" in turn
(`SendPath`, `RefreshPath`, `RecvOk`) up to the count each side believes in.
`RefreshCountDirty` is the `recv` into a buffer that was never cleared. A path that
another thread has cleared meanwhile is the empty string, of which `send` sends
nothing. The thread's loop ends at the shared `ss.numPaths` as it is then
(`SendEnd`) and closes; the handler goes on to its own count and reads empty
paths, and its second "OK" to the closed connection ends the naming server
(`RefreshPathLost`). `Change` and `Crash` are other requests and the death of the
storage server.

### CopyTransfer

Each copy has a handler in the naming server, a sender at the source and a
receiver at the destination. An archive is a sequence of chunks, of which the
last is its central directory. At the source the archive has one name for
everyone who copies the file; at the destination the temporary archive has one
name for everyone who copies into the directory. `open` does not truncate it, so
the receiver writes over what is there (`WriteAt`), and `unzip` and `rm` act on
whatever bears the name by then. `ReceiverRecv` may take chunks together with the
directory's name, which makes another, `garbled` name of it. `mixed` remembers the
copies that met in one name, or found remains there. The new path is the directory
and the last component of the source's path (`NewPath`, `Base`), so files of one
name in different directories meet there.

A connection has room for `Room` chunks; whoever sends into a full one waits
(`RelayChunk`, `SenderSend`). A receiver whose `open` fails returns without
closing its connection (`deaf`), one whose `write` is short leaves its loop and
reads no more (`ReceiverShort`): the relay may then wait for ever (`Stuck`). A send on
a reset connection loses its bytes, returns an error (`SendFails`, after which the
relay ends, and `SenderCut` at the source), or raises SIGPIPE, which neither program
handles (`LostOrKilled`, `SenderKilled`).

A crash ends a server's threads and leaves its files. `live`, `stale` and
`listed` are about addresses: a server that is started again registers under new
ports, so entries of the index made before, and what a handler had already
looked up, lead nowhere. `sockets` are the descriptors of COPY itself, `leaked` those
that CREATE and DELETE have not given back (`Leak`). A refused connection and a
`socket()` that finds no descriptor both end the naming server (`ConnectFails`).
`FileVanishes` is a DELETE that comes between, `SenderOpenFails` an `fopen` of the
archive that fails on its own account and leaves it behind, `ClientLeaves` a client that
does not wait for its answer. The module ends with the naming server.

### PathStrings

Here strings are sequences of characters, because the string functions are what
the module is about. `ClientStrip` and `NamingStrip` are the two functions called
`strip`, with their buffers and terminators; `ExtractPath`, `ExtractPathThird`,
`RemovePrefix`, `BackupPath` the naming server's parsing; `BeforeLastSlash`,
`MkdirNames` and what follows the storage server's CREATE, over a file system that
knows directories by their resolved names. The properties compare them with
reference definitions: the words of the line, and the components of a name.

### Composition

`NamingServer` extends `Directory`: its next-state relation includes every step
of the registration threads, and its agents add to the same table with the same
two steps. `StorageServer` looks inside what is one `SSCreate`, `SSDelete` or
`ClientServed` of `NamingServer`; no refinement between the two is claimed.
They are separate modules because the threads that meet at one file do not
depend on the naming server's state. In the same way `Session` looks inside the
single reply of `NamingServer`, `PathRefresh` inside `RefreshCount`, `RefreshFill`
and `RefreshAbort`, `PathStrings` inside a command's path and `Backup`, and
`CopyTransfer` adds the command that involves two storage servers and no other
state of the directory.

## 3. What the runs check

Sizes are those of TLC's distinct states.

| Run | States | Instance | Shows |
|---|---|---|---|
| `directory` | 3 884 | three servers, two slots, three paths in two buckets, expansion at length 2 | slots, counter, table, `DirectoryOnlyGrows`, `RegistrationIsAnswered`, and the refinement `ImplementsRoster` |
| `replicated` | 1.42 million | three servers up, two symmetric clients, one command each from CREATE, DELETE and WRITE of one path | the refinement `ImplementsCatalogue`, so in particular one justified reply per command; acknowledged creations are indexed where they were made, and so are written files (`DataIsIndexed`) |
| `growing` | 129 519 | two servers up, a third registering, one client with one command of all nine, two faults | `ImplementsCatalogue` with crashes, failing `fopen` and a half-registered third server; replicas apart, entries name servers with slots; under fairness `AnsweredUnlessKnown` and `ReplicasAreMade` |
| `files` | 256 008 | up to three of two writes, a read, a size query, a creation, a deletion, a deletion of the directory and a request about another path; one call fails | streams are open when used; a write or creation that reported success and was not disturbed decides the file; observers sent after its end see it; a READ answers with bytes that the file held while it was open, unless it was removed under a WRITE; every request is answered |
| `session` | 416 881 | two clients, two commands of all four kinds between them, one departure, four descriptors, a CREATE with its original's and one backup's thread | answers match commands, handlers keep their descriptors, stray replies come from the departed only, commands finish |
| `refresh` | 277 755 | two refreshes, two files of which one was deleted and one comes and goes, a crash | a refresh that ran alone leaves a true listing, ends, and does not hurt the naming server |
| `copy` | 449 018 | two copies out of five jobs (a long or a short file of one name into one directory, and the three refusals), connections with room for one chunk, four descriptors, one fault | `UndisturbedCopyArrives`, `DamageNeedsSharing`, `WhatEndsTheNamingServer`, `CopiesCleanUp`, and every copy begun is answered unless the naming server has ended or the relay is stuck on a receiver that gave up |
| `paths` | 415 250 | every line of up to nine characters over `a . / blank tab` that starts with a word and a blank, and every line of up to five | strips, extraction, backups and CREATE against their reference definitions |

The remaining runs each show one place where the program does not do what a line
of its documentation or of its own comments says. TLC finds the behaviour that
refutes the property:

| Run | Property | What the code does |
|---|---|---|
| `directory_race` | `AckMeansIndexed` | two unlocked `HASH_ADD_STR` overlap, an entry is lost, and "Registration Successful" is sent |
| `mixed_writes` | `OneWriterAtATime` | two WRITEs overlap and leave a mixture |
| `departure` | `NamingServerStays` | a client that ends while it is being served brings the naming server down with it |
| `leading_blank` | `StripRemovesBlanks` | a line with a leading blank keeps extra characters at its end |

`PROJECT.json`, under `findings`, quotes the lines on both sides.

More disagreements with the documentation are plain in the models and have no run
of their own:

- `ClientServed` changes one server's disk: a WRITE never reaches the backups
  (README.md:64 of the repository).
- `CreateExists`: a CREATE of a known path is never answered (README.md:38).
- `RecordPath`: an asynchronous thread writes the new path to the place in the
  listing that equals its slot number, over what is there (NM 719).
- DELETE leaves the table's entry, so later commands are routed to a server
  without the file (README.md:43).
- `TailAdded` of `StorageServer`: a request read behind a longer one in
  recycled memory acts on another path and is answered as if on its own (SS 1582).
- A CREATE that has looked its path up before another client created and wrote the
  file empties it: `DataIsIndexed` helps only those who look afterwards.
- A READ of a file that was removed under a WRITE can answer with contents that no
  file ever had: without the exception for `orphans`, `ReadsAreRegular` fails.
- `WriteReply` precedes `WriteClose`: `EndedWritesAreSeen` would fail if it spoke of
  answered WRITEs instead of ended ones.
- `ReadRequest` keeps the listener until the caller has sent, so
  `RequestsAreServed` needs the promise that callers send.
- Overlapping refreshes can leave handler and thread waiting for each other, or
  end the naming server; without the exception for overlaps, `LoneRefreshEnds` and
  `LoneRefreshIsHarmless` fail.
- A WRITE answered with "Written n bytes" may lose them: `fclose` is the write and its
  result is not looked at. Without the exception for `faulted`,
  `UndisturbedWriteSurvives` fails.
- A destination that cannot open or write its temporary archive leaves the relay
  waiting once the connection is full: without `Stuck`, `CopyIsAnswered` fails.
- Two sources with one last component pass the check of the listing together and
  end as one file: `UndisturbedCopyArrives` promises the file of one of them.
- `RelayEnd` answers 11 as the four bytes of an integer, not as text, so the
  client's "Successfully done" (CL 415) is never printed, and it answers so
  whatever happened at the two ends.
- `CreateFile`: an absolute path and a path without a slash cannot be created.

### Bounds

- Servers and slots: three servers for two slots (`directory`) give a race, a
  full array and a refusal. `NamingServer` uses three because CREATE changes its
  behaviour at exactly three and never looks at a fourth.
- `HASH_BKT_CAPACITY_THRESH` is 2 in `directory` so that expansion happens among
  the other additions; in `NamingServer` it keeps its value 10 and no chain of
  the instances reaches it.
- `MaxRequests`, `MaxFaults`: one command each of two clients for races between
  handlers, one command with two faults for a failure during the recovery from
  another. `MaxFaults` of `NamingServer` counts crashes and failing `fopen`s
  together, that of `CopyTransfer` crashes, failing opens, short writes, vanished files, leaked
  descriptors and departed clients: one of them hits every pair of steps of two copies.
  Commands that overtake the threads of the one before them are in `session`.
- `MAX_PATHS` leaves room for every creation of the instance, on top of what was
  reported and of every path a refresh can find (`RoomAssumption`). The code has no
  check; beyond 500 paths it writes past the array, which is not modelled.
- `StorageServer`: up to `MaxCallers` of the eight requests are made in one behaviour,
  any three of them, with `MaxFaults` 1: three suffice for a write, its disturbance and
  an observer, for a READ, a WRITE and the DELETE that makes the exception of
  `ReadsAreRegular`, and for a CREATE whose directory is deleted after a longer request
  has ended. The theorems are about any number of both.
  Payloads have different lengths, both shorter than the file's first contents, so
  that truncation, overlay and mixture differ.
- `Session`: `MaxCommands` 2 in all, so that one client has two commands, of which
  the second meets what is left of the first, or each has one; `MaxDepartures` 1
  with two clients lets a descriptor be reused by the other; `MaxFds` 4 is reached
  by two clients and two sockets.
- `PathRefresh`: `MaxPaths` is what overlapping walks can count together;
  `MaxChanges` 2 allows a change and a crash. `Garbage`, the numbers that old bytes
  are read as, is {0}: larger ones only lengthen the loop of empty paths.
- `CopyTransfer`: archives of two chunks and of one, so that a shorter archive can
  leave a tail of a longer one behind; `Room` 1, so that the relay of the longer one
  can get stuck; `Descriptors` 4, just enough for two copies, so that one leaked
  descriptor is too many. The theorems are about any number.
- `PathStrings`: `MaxLength` 9 and `MaxBlankLength` 5: nine characters hold a
  command, two paths with a directory part, runs of blanks between them and at the end.

Clients are interchangeable in `replicated`, hence the symmetry set: they start
alike, choose from the same commands, and no property tells them apart.

Every configuration says `CHECK_DEADLOCK FALSE`: an instance holds finitely many
registrations, commands, refreshes and copies, and a system whose last command has been served
rests.

### Fairness

Weak fairness is assumed of every thread that has been started: a registration
thread (`RegThread`), a handler, an asynchronous thread, the threads and
listeners of a storage server that is up, and the client program once it has its
reply. Each is an operating system thread that is never suspended or cancelled,
so a step that stays possible is taken. The mutex needs no strong fairness in
these instances: each server locks it once, so only finitely many others can
pass a waiting thread. Nothing is assumed of users: starting a storage server
(`RegRecv`), sending a command (`ClientSend`), a caller that connects
(`CallerConnects`), or faults. `Fairness` of `StorageServer` also promises that a
caller that has connected sends, which the client and the naming server do in
the next statement. `SSListen` is not assumed either: `AnsweredUnlessKnown`
and `ReplicasAreMade` except the threads that were refused by a server which did
not listen yet, and behaviours in which a fault has happened.

`Session`: the accept loop, handlers and asynchronous threads run, and a client
whose `recv` can return goes on; typing, waiting and leaving are the user's.
`PathRefresh`: handlers and request threads run. `CopyTransfer`: handlers of begun
copies, senders and receivers run; crashes, restarts and the
other faults may or may not happen.

## 4. What is proved

Every safety invariant that a run checks is a theorem for every value of the
constants, except those of `PathStrings`; so are the action properties
`DirectoryOnlyGrows` and `ReadsAreRegular` and the refinements `ImplementsRoster` and
`ImplementsCatalogue`. The proofs use no fairness: they are about `DirSpec`,
`NSSpec`, `ReadSpec` and the `Spec` of the other modules, which the fair
specifications of the runs imply. `OneAnswerPerRequest` and `EntriesWereStored` are
proved and have no place of their own in the runs: `ImplementsCatalogue`, which is checked,
implies both (the second of the entries a look-up can find), and its proof rests on them.

| Module | Theorem | Property |
|---|---|---|
| `DirectoryProofs` | `TypeCorrect` | `DirTypeOK`: in particular the counter never passes the array |
| | `SlotsCorrect` | `SlotsHandedOutOnce` |
| | `IndexedCorrect` | `IndexedServersHaveSlots` |
| | `AckedCorrect` | `AckedServersAreIndexed` |
| | `GrowsCorrect` | the action property `DirectoryOnlyGrows` |
| | `RosterImplemented` | `ImplementsRoster`: every step is a step of `Roster` or none |
| `NamingServerProofs` | `NSTypeCorrect` | `NSTypeOK`: in particular listings stay within the array |
| | `AnswersCorrect` | `OneAnswerPerRequest` |
| | `LocatableCorrect` | `CreateAckedLocatable` |
| | `EntriesCorrect` | `EntriesWereStored` |
| | `ReplicasCorrect` | `ReplicasApart` |
| | `DirectoryCorrect` | the three directory invariants, now among handlers and asynchronous threads |
| | `GrowsServing` | `DirectoryOnlyGrows`, likewise |
| `ServiceProofs` | `CatalogueImplemented` | `ImplementsCatalogue`: every step is a step of `Catalogue` or none |
| | `DataCorrect` | `DataIsIndexed` |
| | `RosterServing` | `ImplementsRoster`, now among handlers and asynchronous threads |
| `StorageServerProofs` | `TypeCorrect` | `TypeOK`: in particular streams are open when used |
| | `WritesSurvive` | `UndisturbedWriteSurvives` |
| | `CreatesStand` | `AnsweredCreateStands` |
| | `EndedWritesSeen` | `EndedWritesAreSeen` |
| `ReadHistoryProofs` | `RegularReads` | the action property `ReadsAreRegular` |
| `SessionProofs` | `TypeCorrect` | `TypeOK` |
| | `DescriptorsKept` | `HandlersKeepTheirDescriptors` |
| | `StraysFromTheDeparted` | `StraysComeFromTheDeparted` |
| | `AnswersMatch` | `AnswersMatchCommands` |
| `PathRefreshProofs` | `TypeCorrect` | `TypeOK`: in particular overlapping walks stay within the bound |
| | `HarmlessCorrect` | `LoneRefreshIsHarmless` |
| | `ListingCorrect` | `RefreshedListingIsTrue` |
| `CopyTransferProofs` | `TypeCorrect` | `TypeOK` |
| | `UndisturbedArrives` | `UndisturbedCopyArrives` |
| | `DamageSharing` | `DamageNeedsSharing` |
| | `EndsForACause` | `WhatEndsTheNamingServer` |
| | `CleansUp` | `CopiesCleanUp` |

### Assumptions

TLC evaluates each of them in the runs of the module that states it.

- `Directory`: positive sizes, a threshold above 1 (`SizesAssumption`), distinct
  names and a hash function (`NamesAssumption`), one to `MAX_PATHS` reported paths
  for each server (`MountAssumption`), and an initial table that is what the first
  servers' registration leaves: their paths at their addresses, and nothing else
  (`BootAssumption`).
- `NamingServer`: handlers and asynchronous threads are different threads, and not
  those of registrations (`AgentsAssumption`); the files that CREATE names are not
  directories (`CommandsAssumption`); finitely many clients and paths, and room in
  a listing for all of them (`RoomAssumption`). The last one takes the place of
  the check that the code does not have: `NSTypeCorrect` shows that this much
  room is enough.
- `StorageServer`: finitely many requests, each with a kind and a positive length,
  payloads that are sequences.
- `Session`: names that stand for nobody are nobody's. `CopyTransfer` likewise, and
  finitely many copies, archives of at least one chunk, room for one in a connection.
- `PathRefresh`: finitely many refreshes, at least one, and finitely many paths;
  the first listing names each file once.

### Registration

None of the properties is inductive by itself. `DirInv` is:

- `TypeInv`: `DirTypeOK`, and a thread in the middle of `HASH_ADD_STR` has a path
  to add and a view of the table (`LinkingInv`);
- `SlotInv`: exactly the mutex's holder is inside the critical section
  (`MutexInv`); in there its slot is the counter, or one below it and still empty
  (`CounterInv`); a copied record is in its slot (`CopiedInv`); a slot's server
  owns it (`OwnerInv`); slots below the counter are filled or about to be
  (`FilledInv`). Without `CounterInv` a thread that has loaded the counter might
  overwrite another's slot;
- `ChainInv`: the servers in the table have copied their records, and so have the
  servers in every chain that a thread has read and will link behind its own
  entry. The second half is needed because a stale chain can come back to life
  when its reader links;
- `EmptyInv`: no table, no entries, so replacing a missing table loses nothing;
- `IndexInv`: the loop counter of a registration tells which entries exist, as
  long as additions have not overlapped.

Each part has its lemma for the initial states and for a step, one case per
action; `HashAddLinkWithin` and `HashAddLinkKeeps` carry what the four outcomes
of a link do to the chains, `ChainAmong` and `ChainHas` what prepending and
reversing do to one. In the refinement `RegCopy` is the admission of
a server, `RegRefuse` its refusal, and the other steps are none; it rests on `SlotInv`.

### The naming server at work

`NSInv` extends `DirInv`, which handlers and asynchronous threads must preserve
too since they add to the same table:

- `RequestInv`, `TargetInv`, `ReplyInv`, `ViewInv`: the commands threads work on
  have been sent, a thread that creates talks to the server of the slot whose
  listing it will write to, only a thread that has asked awaits a reply, and the
  table it has read names servers with slots;
- `AnswerInv`: at most one thread can still answer a command. A handler that has
  spawned the three threads of a CREATE is idle, the command it handed over is the
  last one received, and only the thread for slot 0 may answer. `OneAnswerPerRequest`
  compares two counters and says nothing of who may raise them next;
- `RoomInv`: a listing's count, and the count each thread has loaded and will store
  plus one, leave room for the creations that have not counted yet (`Unused`).
  `numPaths++` is not atomic, so the bound has to hold of the loaded values as well;
- `AckInv`: until additions overlap, a thread about to report success has its
  entry in the table;
- `StoredInv`: entries of the table, and of every chain a thread has read, name
  paths that their server reported or stored.

### The naming server as a catalogue

A reply is sent several steps after its reason was found. `ServiceInv` adds to
`NSInv` what has become of the reason meanwhile:

- `MadeInv`: a creation that a storage server has reported to a thread is stored there;
- `FoundInv`: the path a DELETE has found is in the table until the server has
  answered, and `RouteInv`: so is the path a client was routed for while it talks to
  the storage server. Both until additions overlap;
- `DataInv`: a file with data is in the table, or its server's registration has not
  yet come to it. `DataIsIndexed` follows for acknowledged servers. A WRITE makes
  data only where `RouteInv` has an entry.

In the refinement the replies are the answers of the catalogue (`Lookup` is `Route` or
`Miss`; `JobReply` and `CreateReply` are `Confirm` or `Fail`; `DeleteReply` is
`Relay`), `SSCreate` and `ClientServed` may be `Store`, a link is `Enter`, or
`Loosen` if it overlapped another, faults are `Fault`, and the rest is no step.
`LinkAdds` shows that a link that did not overlap adds exactly one entry, `AckInv` that a
confirmed path is in the table, `AnswerInv` that nobody answers twice.
The proofs about the roster are repeated for the larger system: its steps leave
array, counter and mutex alone, except for listings inside the slots.

### Files

`FileInv` follows a request from the listener's queue to its end. `QueueInv`: it is in
one place of one queue, or in the listener's hand, and gets one thread. `RoomInv`:
inodes made do not outnumber requests that have begun. `TailInv`: what a thread does is what
its request asks for, unless a longer request has ended. `DeciderInv`, the heart: from
its `fopen` on, a WRITE or CREATE that nobody disturbed, that was told of no error and whose
flush did not fail knows which inode the name refers to and what is in it, and no other
WRITE has bytes to flush. Whoever takes the name away, `DirUnlink` too, disturbs it; an
`fopen` that fails makes no decider and disturbs none. `SeenInv`: a reader
sent after such a WRITE had ended has that inode open.

`RegularInv` adds, for `RegularReads`, that a WRITE with bytes to flush has the named
inode open, or an orphan (`OrphanInv`), and that a READ's inode is an orphan or holds
something from `held` (`HeldInv`). While the inode has the name, each change
of it is recorded; when it loses the name it either stops changing or becomes an orphan.

### Sessions

`SessionInv` has two halves. Descriptors: a connection waits to be accepted once
(`BacklogInv`), a descriptor that names a client is that client's, and one that has passed to
another belonged to somebody who has left (`FdInv`). Answers: while nothing has slipped,
a client has one command under way, and `Calm(c)` says for each place it can be in
(stream, handler, the original's thread, answered) what is in the streams; `ToldInv`
what the client was told of the earlier ones.

### Refresh

`RefreshInv`: `WireInv` lists the few combinations of handler, thread and streams
that the handshake leaves. `CountInv` bounds the shared count by the entries that the
overlapping walks have met: each increments it without looking at the others.
`AloneInv` says that while a refresh is alone nobody else runs; `FrozenInv`, that then
nobody counts behind the thread's back, so the number announced is the number sent;
`TruthInv`, that the record holds what the walk has met, and the listing what has been
received of it. `ListingCorrect` also covers a refresh after others that failed or
overlapped.

### COPY

`CopyInv` has, beside the types (`TypeInv`):

- `CrashInv`: without a crash every address is good and no connection is reset;
  `SocketInv`: only copies under way hold sockets, at most two each, so by counting
  them a `socket()` that fails finds `WhatEndsTheNamingServer` true;
- `RemoverInv`: an archive or temporary archive that is there has a thread that will
  remove it, has crashed, or could not open it;
- `RelayInv`: what has been sent, passed on and read at the end of each phase, also of
  receivers that broke off;
- `ShareInv`: a receiver that met nobody created its temporary archive, alone writes it,
  and it holds the first `pos` chunks of its source, after a short write perhaps with a
  piece of the next (`Written`). Such a file is no archive, so `unzip` takes nothing from it;
- `OldInv`: a file that was there before is listed, and a copy to its path is refused;
  `OriginInv`: where nobody met anybody, an intact file is of a copy to that new path;
  `ArriveInv`: a whole archive that was unpacked has left a file there. The three give
  `UndisturbedCopyArrives`;
- `DamageNeedsSharing` and `WhatEndsTheNamingServer` themselves.

### Only model-checked

- Liveness, which this prover does not reach: `RegistrationIsAnswered`,
  `AnsweredUnlessKnown`, `ReplicasAreMade`, `RequestsAreServed`, `CommandsFinish`,
  `LoneRefreshEnds`, `CopyIsAnswered`.
- `PathStrings`: what it says of every line up to a length would take induction over
  the line for all lengths, and through the folds its loops are written with.

The inductive invariants were model-checked on the runs' instances before they
were proved; `RefreshInv` also with larger `Garbage`.

## 5. Not modelled

- The record of a storage server arrives whole (NM 326 does one `recv` for all of
  it); a new hash table is published and its first entry linked in one step; the
  application-order list of uthash is omitted, as the program never iterates.
- In `NamingServer` the handshake of a refresh is reduced to its outcomes, a
  client's reply is one message, and requests reach the storage server intact; the
  details are in `PathRefresh`, `Session` and `StorageServer`. A storage server that
  is started again is another server there; `CopyTransfer` has restarts.
- `Session` does not split a message between two `recv`s; they are short and sent
  by one call each. Storage servers answer there.
- `CopyTransfer`: directories as sources (an archive with several files), an `unzip`
  that is killed half-way. Its storage servers are up when a behaviour begins.
- `deleteDirectory` is one step in `NamingServer`. In `StorageServer` it is taken apart
  as far as one file can tell: sub-directories and other files are not listed one by one,
  and `stat` and the first call on the path are one moment of a DELETE. A CREATE whose
  lengthened path goes through the file as if it were a directory is not modelled.
- In `Session` a refresh always returns (`HandlerRefresh`); how overlapping refreshes
  block or kill is in `PathRefresh`.
- `PathStrings` looks at CREATE lines without "..".
- Paths beyond `MAX_PATHS` or longer than their arrays: what is overwritten then
  depends on the memory layout.
- The LRU cache: `initializeLRUCache` and `addServertoCache` have no caller, so the
  list stays empty and each look-up misses. Also without a caller: `getDirectoryPath`,
  `replacePrefix`, `removeWhitespace`, `get_path_ss`, `send_request`,
  `sendCommandToServer` and the functions on it, and the COPY branch of
  `executeNMRequest` (SS 920-1301): the naming server never sends it a COPY.
- Logging and the wording of messages. `logmessage` and `logfile` are shared
  without a lock, so lines of the log can be wrong; nothing reads the log.

## 6. What to do next

1. More action properties: an answer is never taken back, a finished request never
   writes, a copy that has ended leaves the files alone.
2. A specification of one file for READ and WRITE together, in which a WRITE that nobody
   disturbs takes effect at one moment; `ReadHistory` says this of READs alone.
3. The three refresh actions of `NamingServer` as a summary of `PathRefresh`. It is no
   refinement as it stands: `RefreshFill` replaces the listing in one step.
4. The record of a registration arriving in pieces (NM 326).
