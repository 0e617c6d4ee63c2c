# Verification of Network-Systems

This directory holds TLA+ models of the programs of this repository, TLC
configurations that check them on small instances, and proofs, checked by
TLAPS, that some of the properties hold for every instance.  It is written
next to the code and refers to it as `file:line`.

    tlc -workers 2 -config DfsCrash.cfg MCDfs.tla     # one run
    tlapm Dfs_proofs.tla                              # one module of proofs

`PROJECT.json` lists the runs, which lines each definition models, the
hazards of the code with the properties that cover them, a mutant of the
model for every property (the property must catch it), and the theorems.


## 1. The system: inventory

The repository has four independent programs (two to four C files each) and a
directory of exercises.  They share no code and do not talk to one another.

### PA4: a distributed file system (`src/PA4`)

The program with the most state of its own, and the one modelled first.

* **Server** `server/dfs.c`, started four times with a directory and a port.
  One thread per accepted connection (`main`, 334-411), each in a loop of
  `recv` and one of the commands `put`, `get`, `list` (`service_request`,
  38-311).  State: the directory of chunk files, named `file-chunk-timestamp`,
  which outlives the process; the mutex `file_lock`, shared by the threads.
  A failed `recv` ends the whole process (`error`, 32-36), and so does SIGPIPE.
* **Client** `client/dfc.c`, one process per command.  It connects to all four
  servers (100-149, 282-296) and has one second of patience with each `recv`.
  State: `live_servers`, the timestamp of a put, `chunks_received`, the local
  file, the list of names.
* **Placement**, a part of the client (399-719): cut the file in four, send
  each server two chunks according to the MD5 of the name.

They interact over TCP.  *put*: header and bytes of a chunk, then wait for an
acknowledgement, eight times per file.  *get*: for each chunk, ask server
after server; a server that has it answers with the size and waits, **holding
the mutex**, for `Ready`; then come the bytes.  *list*: every server sends its
directory.  At the end `put done`, `get done`, `ls done` without an answer.

What is hard: threads of one server under one mutex, with the directory read
outside it; several clients at once; a protocol without identifiers, where a
late answer could pass for another; timeouts on one side only; clients and
servers that end in the middle, with TCP resets and SIGPIPE taking processes
with them; half-written files that outlive a crash; timestamps as versions,
chosen per chunk.

What makes it correct: readers get whole chunks; an acknowledged chunk is
stored and stays; a get gives the file in order, from the last complete put or
a later one, and fails only if two neighbouring servers cannot help; the two
sides of a connection stay in step; nobody waits for ever; the list tells the
truth.

### PA1: file transfer over UDP (`src/PA1`)

`client/uftp_client-2.c` reads commands and `server/uftp_server-2.c` serves one
at a time from one socket: get, put, delete, ls, exit.  Files of 8192 bytes or
more go packet by packet, each answered by `+ACK`; datagrams carry neither a
transfer nor a sequence number.  The client waits two seconds, the server five
(in a put) or for ever (in a get: 235, 253).  State: what each side is waiting
for, the two directories, the datagrams on their way.  What is hard: loss,
duplication and reordering; a leftover datagram that is taken for the next
request, acknowledgement or block.  What should hold: without loss, a transfer
that says it was successful left the same file on both sides.

### PA2: a web server (`src/PA2`)

`server.c`: a process per connection, keep-alive with a ten second timeout,
error answers, SIGINT for a graceful end: the handler closes the listening
socket and clears `check`, children finish what they are at, the parent waits
for them.  State: `check`, the connection header of the request, the sockets,
the page files (none is ever closed).  The processes share nothing after
`fork`; the client and the user with Ctrl-C are what they meet.
What is hard: the signal arrives anywhere, in a child too, where the handler
closes a number that is a page file by then; a signal that is on its way when
`fork` happens; which paths close, exit, or go around the loop on a closed
socket; requests sent without waiting, which are read as one; the descriptors
of a long connection.  What should hold: a page is sent as it is in `www`; a
page that is there is found; nothing follows an answer that says "close"; after
SIGINT a child sends one more page at most and the parent ends after all its
children.
`threaded_server.c` is an earlier form that the makefile does not build.

### PA3: a caching web proxy (`src/PA3`)

`proxy.c`: a process per connection; a directory of cached answers named by a
hash of host and path, fresh for a given number of seconds; record locks
(`fcntl`) on cache files; a blocklist read through a file handle opened before
`fork`.  What is hard: several processes on one cache file, where `fopen "wb"`
empties it before the lock is asked for (489-491) and the lock is gone before
the last bytes are flushed (532-539); the shared offset of the blocklist
(345-367); expiry while a file is being sent; SIGINT as in PA2.  What should
hold: what is sent from the cache is one whole answer of the remote server, no
older than the timeout; a blocked host is never relayed.
`proxy-threaded.c` is the same with threads and is not built.

### Sockets (`src/Sockets`)

Exercises and sample programs of the course; no part of the assignments.


## 2. The modules

| module | what it is |
|---|---|
| `DfsPlacement` | operators: the table of `send_chunk` calls, the chunk sizes |
| `MCDfsPlacement` | the table as written out in the code; all inputs for TLC |
| `Dfs` | clients, connections, server threads, mutexes and directories of PA4 |
| `ChunkStore` | abstract: what the servers of PA4 promise, without threads, mutex or messages |
| `DfsStore` | the refinement mapping: `Dfs` implements `ChunkStore` |
| `MCDfs` | which commands run, on which files, for TLC |
| `DfsParse`, `MCDfsParse` | two threads of `dfs.c` that take requests apart at the same time |
| `Dfs_proofs` | theorems about `DfsPlacement` and `Dfs`, for any number of servers and clients: the table, mutex, types, whole reads |
| `DfsPuts_proofs`, `DfsGets_proofs`, `DfsLists_proofs` | the same of what each command promises; each EXTENDS the one before |
| `DfsStore_proofs` | that `Dfs` implements `ChunkStore`, and that the two sides of a connection stay in step |
| `Uftp` | clients, server and datagrams of PA1 |
| `MCUftp` | which files there are at the start, for TLC |
| `Uftp_proofs` | theorems about `Uftp`, for any number of clients, any files and buffer |
| `Proxy` | parent and children, cache, locks and blocklist of PA3 |
| `MCProxy` | page sizes and what may happen, for TLC |
| `Proxy_proofs` | theorems about `Proxy`, for any number of processes, pages and hosts |
| `HttpServer` | main, children, page files and signals of PA2 |
| `MCHttpServer` | a small `www`, requests, and what may happen, for TLC |
| `HttpServer_proofs` | theorems about `HttpServer`, for any site, children and descriptors |

`Dfs` EXTENDS `DfsPlacement`, `DfsStore` EXTENDS `Dfs` and has an INSTANCE of
`ChunkStore`; each MC module EXTENDS the module it instantiates (`MCDfs`:
`DfsStore`).  The four programs have nothing in common, and neither have their
models.

### How `Dfs` corresponds to the code

*Granularity.*  Every action is what the code does between two points where
it can wait or where another process can see it: a `recv`, a `send`, the
mutex.  For a thread of `dfs.c` these are: take a request off the socket
(`RecvPut`, `RecvGet`, `RecvGetNotFound`, `RecvList`, `RecvDone`,
`RecvError`); lock and open (`PutOpen`, `GetOpen`); write to the end, close and
unlock (`PutClose`); answer (`PutAck`, `GetSend`).  For `dfc.c`: one round of
the loop of connects (`Connect`), the branches of `main` (`PutRefused`,
`PutStart`, `GetStart`, `ListStart`), and in each command the sends and the
ways in which a `recv` can end.

*State.*

| variable | in the code |
|---|---|
| `cpc`, `arg`, `srv`, `pos` | where `main` of `dfc.c` is; its loop variables |
| `live`, `got`, `ts`, `local`, `names` | `live_servers`, a slot of `chunks_received`, `time_in_mill`, the file being written, `dfs_list` |
| `result` | what the client printed |
| `c2s`, `s2c`, `clientEnd`, `serverEnd` | the TCP connections (external) |
| `up`, `lock`, `spc`, `cur` | the server process, `file_lock`, its threads, `relative_path` |
| `disk` | the directory: per path who put it and how much is there |
| `clock`, `slow`, `crashes`, `restarts`, `kills` | the time; counters that the bounds limit |
| `died`, `eofAck`, `base` | history: no counterpart, read by properties only |

*Data.*  A chunk is who put it and whether it is empty, in part or whole there;
sizes only matter as 0 or more.  The hash of a name is a constant.  `Alias`
says for which names `grep` finds those of others; `NameRank` is the order in
which `sort -r` has the names.

*TCP.*  Streams are sequences of units.  Four things are kept, because the
programs react to them: bytes that have arrived survive the sender's end;
`recv` returns 0 after an orderly end; a process that ends with unread bytes
resets its connections; and `send` to a peer that has reset raises SIGPIPE,
which neither program handles.  Where systems differ the model has both
outcomes (`"fin_rst"`).  A chunk with bytes arrives in two units, so that the
writer can be seen half way.

*Waits.*  Only `recv` of the client has a timeout (dfc.c:140-146).  The `send` of a
chunk (165) has none: of a chunk that is bigger than the sockets it returns when
the server's thread reads, and not before.  `PutSend` puts the chunk into the
stream at once; while its second unit is unread the run may be in `send` still
(`MayBeSending`), and `Fairness` asks nothing of it.  Requests, `Ready` and answers
fit into the socket.  A thread that has nothing to send (`GetSend` of a file of
size 0) sends that to a client that has gone, too, with or without SIGPIPE.

*Undefined behaviour.*  `chunks_received` is not initialised (324, 354): with
no live server `GetMissing` and `GetJunk` are both possible.  `fwrite` with the
-1 of a failed `recv` as its size (183-186, 751-753): the process dies or goes
on (`GetDataFails` / `GetDataForEver`, `ListFailsDies` / `ListFails`).

*Time.*  A `recv` of the client times out when the server will not answer
without somebody else's doing; that it times out although the server is about
to answer happens up to `MaxSlow` times.  The late answer then arrives at a
client that has gone on.

### What `ChunkStore` promises, and how `Dfs` maps to it

`ChunkStore` knows which chunk files are stored (whole), what each client has
asked each server and which file the server settled on, and the answer that has
not been taken.  A file is stored once and never changes or goes; the server
settles on a file than which nothing stored at that moment is newer; it gives
only what is stored; "Not Found" is said only of a chunk of which nothing is
stored; and it answers only what was asked.  `DfsStore` maps to that:

| of `ChunkStore` | in `Dfs` |
|---|---|
| `stored[s][p]` | the `ver` of `disk[s][p]` if its `st` is `"whole"`, else `None` |
| `reading[s][c]` | a `get` in `c2s[c][s]` (stamp 0: no file yet); `cur[s][c]` once a thread has its file |
| `answer[s][c]` | `data` or `not found` in `s2c[c][s]` |
| `gone[c]` | the client has exited or was killed |

So a put is a stutter up to the `fclose` (`PutClose` is `Store`), `GetQuery`
is `Ask`, the `popen` (`RecvGet`) is `Find` or, with nothing found,
`Deny` at once, in one look at the directory, and `GetSend` is `Give`.  That
the file found outside the mutex may be one that is still being written, and
that nobody sends it before it is whole, is the point: the mutex is what makes
`GetSend` a `Give`.  The mapping says nothing of the size that is sent first: it
is no answer yet.  `Erratic` is the exception for a server that was started
again after it died: its directory may hold torn files, which it sends
(dfs.c:257-274), so from then on only what is stored is promised, not what is
answered.

### How `DfsParse` corresponds to the code

`Dfs` lets a thread parse a request in one step.  `DfsParse` is about that step:
six calls of `strtok` (dfs.c:110-129), whose place is one pointer of the process
(`olds`).  The header is five values with their keys; every call is two actions,
the read of the pointer (`Begin`) and what it finds and sets (`Value`, `Skip`).
After the first call has put a 0 behind the first word, the calls of `strstr` at
122 and 127 find nothing, and `strtok(NULL)` goes on from the pointer; this
works as long as one thread at a time is there.  **`Dfs` assumes that**: it
holds outright when requests arrive one after the other (`dfs_crash`); in the
runs with clients at once the results are those of executions in which no two
headers are taken apart in the same few microseconds.

### Left out of `Dfs`

Reading `dfc.conf`, failing `socket`, `bind`, `malloc`; buffers too small for a
name; headers cut in two by TCP; the 1024 bytes a client reads of a list; file
systems that fill up; requests not sent by `dfc`; clocks of several client
hosts that differ (there is one clock); names with `-` in them.

### How `Uftp` corresponds to the code

*Granularity.*  Both programs are sequential and wait only in `recvfrom` (and
the client at its prompt), so an action is what follows one datagram, one
timeout or one line of the user, up to the next wait.  The client: `Get`, `Put`,
`PutNoFile`, `Delete`, `ListOrExit` for a command that is entered; `GetSize`,
`GetSmall`, `GetLarge`, `PutAck`, `Replied`, ... for what arrives;
`...TimesOut` for two seconds without.  The server: `Serve...` for a request or
what it waits for in one, `Put...TimesOut` for five seconds without.

*State.*

| variable | in the code |
|---|---|
| `cpc`, `cmd`, `cfile` | where the client is; `command`, `file_requested` |
| `need`, `done`, `rest` | `size_of_file`, `received`, what `fread` has still to give |
| `spc`, `sfile`, `sneed`, `sdone`, `srest`, `peer` | the same of the server; `clientaddr` |
| `dir`, `disk` | the two directories |
| `ctimer`, `stimer` | seconds left of `SO_RCVTIMEO` |
| `told` | what the client printed last |
| `sq`, `cq` | datagrams on their way or in a socket (external) |
| `entered`, `faults` | counters that the bounds limit |
| `clean`, `lost`, `odd` | history, read by properties and set by the network only |

*Data.*  A datagram is a kind and the units that end in a file if it is taken
for a block.  It has neither transfer nor number, so the model takes, as the
code does, whatever is next.  Messages that are sent with the length of the
buffer and not of their text are `FullMsg`.  A file is a sequence of units, and
`Buf` of them are a full buffer: what matters is less than `Buf`, `Buf`, more.

*Time.*  `Tick` is a second, and comes only when nobody can do anything: both
programs answer at once.  A datagram that takes seconds is the fault
`"delay"`.

Left out: names with directories in them; files whose text is a number or a
command; lines that are no command, which the client sends to the server like the
others (uftp_client-2.c:145, 406-409), so that one could be taken there for an
ACK or a block; what `strcpy` copies beyond a block of 8192 bytes that is taken
for a request, for it has no 0 at its end (uftp_server-2.c:144; `ServeOther`
passes over it as over any text); failing `socket` and
`fopen` for writing; a listing longer than the buffer that `ls` joins it in
(uftp_server-2.c:435); the address that `recvfrom` writes over `clientlen` (280).

### How `Proxy` corresponds to the code

*Granularity.*  Every call that can wait or that another process sees is an
action of its own.  Of `relay`: the scan of the blocklist (`ScanStart`, `Scan`,
`ScanEnd`), the answer of the remote server (`Fetch`, `FetchOther`,
`ConnectFails`), `fopen "wb"` (`Truncate`), the lock (`WriteLock`), each `recv`
(`Fill`), unlocking (`WriteUnlock`), `fclose` (`Close`).  Of
`send_from_cache`: lock, size and header in one step (`ReadLock`: no other
process can see the steps between), each `fread` and `send` (`SendPiece`), the
end (`Sent`).  What is refused (400, 505) is answered in a step of its own
(`RefusedRequest`, `Refuse`).  `Accept` is `accept` and `fork`, `ChildSigint` the
handler in a child, at any point of it: a `recv` of a request fails or goes on,
and a `send` of a block of the page goes on or returns short.  After a short one
the sum of 672 never comes to `fsize`, and the child reads at the end of the file
for ever (`"starved"`).

*State.*

| variable | in the code |
|---|---|
| `ppc`, `pc` | where the parent and its children are |
| `host`, `conn`, `check` | the request's host and connection; the child's copy of the flag |
| `ver`, `got`, `off` | the page in `relay`: which, how much was received, how much of it `write` has had |
| `size`, `sent` | `fsize`; what was sent |
| `file`, `fresh` | the cache directory; younger than the timeout |
| `writer`, `readers` | the record locks (they belong to processes, and end with any `close` of the file) |
| `blocked`, `top`, `kept` | the blocklist; its shared offset; a child's own buffer of it |
| `page` | what the remote servers have (external) |
| `sigint`, `budget` | what the environment did and may still do |
| `fetched`, `disturbed`, `overlapped`, `late` | history, read by properties only |

*Buffers.*  What `fwrite` was given is not yet in the file: `Flush` may write
it out at any moment, `Close` does at the end.  So a small page reaches the file
after the lock was given up (532-539).  `fgets` on the blocklist reads all of it
at once into the child's buffer, and a later `fseek` within it does not read
again but sets the shared offset to the buffer's end (`ScanKept`).  Without a
blocklist nothing is read (`NoScan`).

*Undefined behaviour.*  `fwrite` of -1 bytes when `recv` fails (`ServerEnds`);
`strlen` of a field that is not in the request (`Malformed`); a pointer to a
pointer for a socket, and a NULL, when a host is unknown (`Unresolved`).

Left out: the text of requests; more than one page of a host (a page and its
host name one cache file); two names of equal hash; names too long for their
buffers; a child that cannot open a file.

### How `HttpServer` corresponds to the code

*Granularity.*  `Accept` and `Fork` are apart, for a signal may come between
them.  A child: `Recv`; `parse_request`, which refuses (`Refuse`, with the four
error routines as `Error`) or goes on to `service_request` (`Serve`); there the
look for an index page (`Index`, 264-277), `fopen` (`Open`, `NotFound`,
`NoExtension`), `fseek` and `ftell` (`Size`), each read of `fread` (`Read`), the
header with its look at `check` (`Header`), and `send` with what follows it
(`Send`).  `RecvFails` is the way out of the loop (602-618).  `MainSigint` and
`ChildSigint` are the handler, at any point of its process; `Interrupt` is a
signal to main alone or to all (Ctrl-C).

*State.*

| variable | in the code |
|---|---|
| `ppc`, `pcheck`, `psig` | where `main` is; its `check`; a SIGINT on its way to it |
| `pc`, `check`, `sig` | the same of each child |
| `inq`, `sopen` | what the client has sent (external); `client_socket` is open |
| `req`, `path`, `conn` | `client_request`, `relative_path`, `http_response.connection` |
| `fds`, `three` | open page files; what number 3 is: free, the file being read, an older one |
| `nread`, `whole`, `closed` | reads done; they were all good; `fp`'s number was closed under it |
| `may` | what the environment may do in this behaviour |
| `last`, `served`, `late` | history: the answer sent last; requests for what is there; pages after SIGINT |

*Descriptors.*  In `main` the listening socket is 3 and a connection 4.  A child
closes 3 (564), so the first file it opens gets 3, and the handler, which the
child inherits, closes `sockfd`, that is 3 (93).  `MaxFiles` is how many page
files a process may have open; the code closes none (268, 279).

*Requests.*  What is in the socket is taken for one request (581).  Several that
were sent without waiting give one answer, with the first line of the first and
the first `Connection:` in any of them (`Merged`).  A request without that field
has another field taken for it, because `strtok(NULL)` goes on in the buffer
before (380-386): `"other"`.  With no field at all the default of the version
applies (`Asked`).

*Undefined behaviour.*  `strcmp` of a NULL connection ends the process
(`"null"` in `Error`); the size -1 of a closed file ends it too (`NoSize`).

Left out: content types (`contentType` is not initialised for an extension that
is unknown) and the text of headers; requests cut by TCP or longer than the
buffer; the error answers' padding to 8192 bytes, which a client that reads on
would take for the next answer; `fork` or `malloc` that fail.


## 3. The runs

All of them were made to finish in minutes; `PROJECT.json` has the same in
short.  "Mutant" is a bug put into the model to see that the property catches
it.

| run | instance | asks |
|---|---|---|
| `placement` | N = 4, all hashes, all sets of live servers, sizes 0..12 | the table of the code equals the formula used elsewhere; reachable exactly without a gap of two; chunks tile the file |
| `dfs_concurrent` | N = 2, put ∥ put ∥ get of a name, no faults, fair | types; the mutex; chunks in order; the servers implement `ChunkStore`; all end; the mutex is always released |
| `dfs_crash` | N = 3, put; put; get with a crash and a restart anywhere | acknowledged is stored; the get is not stale; it fails only when both holders cannot help |
| `dfs_faults` | N = 2, put ∥ get, a late answer, two crashes, a restart | acknowledged is stored; no torn read; no mixed-up answer; both sides in step while the server lives; a get fails only when no server could give some chunk; `ChunkStore` still, when clients give up in the middle and take servers with them |
| `dfs_ends` | N = 2, put of two names (one missing); then a put ∥ a list, a kill anywhere, fair | list is honest and shows what was stored; lists end, and puts that a killed run's mutex does not keep in `send` |
| `dfs_mixed` | N = 4, put; put that gives up; get | **violated**: `OneVersion` |
| `dfs_parse` | two threads, a put each | **violated**: `FiledAsNamed` |
| `uftp` | one user, two commands of any kind, two faults of UDP, fair | whatever is lost, a get or delete that says it was successful was (a get as far as `GetIsPrefix` says); a put, with at most one loss; nothing left over; commands and puts end |
| `proxy` | two children, requests without bound, up to three pages of the server, a change, a failure, SIGINT or a blocked host, fair | a cache file at rest is whole; a request alone gets a whole page; one page after SIGINT; the blocklist, read alone, holds; who ends after SIGINT |
| `proxy_sent` | two children, one page, nothing fails | **violated**: `SentIsAPage` |
| `proxy_blocked` | two children, a blocked host | **violated**: `BlockedIsRefused` |
| `http` | one child with eight kinds of request and two SIGINTs; one whose requests come two at once; two children and a SIGINT; fair | a page is sent as it is unless the handler broke it; it is found until descriptors run out; nothing after "close"; one page after SIGINT; every child ends that its own client does not keep, and main after them |

*Bounds.*  With N = 2 both servers hold both chunks and each is the other's
only neighbour: the smallest ring in which a chunk has two holders.  With N = 3 a
server holds two of three chunks, so that "not here, ask the next" and "the
other holder" occur.  N = 4 is the program's; `placement` shows its table, and
the theorems of `Dfs_proofs` show that the other rings have the same
properties.  Two puts of one name and one reader are what versions need; a
third would repeat the second.  `dfs_crash` has N = 3; the concurrent runs have
N = 2, for what happens under one mutex happens at one server.  One crash can tear one chunk per server,
two can take both holders; one late answer can meet every kind of next
question.  `Kill` in the model loses the tail of a chunk on its way: one
killed client suffices to block a server.  In `dfs_ends` the second put and the
list come after the first put, which may be killed in the middle of a chunk (the
second then waits for its mutex) or be complete (the list then has to show it);
`MaxCrash` is 0 there, for a server ends without a crash too, when a killed client
resets its connection.  `MaxStamp` is the number of puts,
so the clock never runs out before a put.  `IsChunkStore` is checked where two
puts of one name and a get meet (`dfs_concurrent`) and where servers die
(`dfs_faults`).

`uftp`: with `Buf` = 2 the lengths 0, 1, 2, 3 are the empty file, a short one,
a full buffer, a buffer and a rest.  Two commands let what is left of one meet
the next; two faults let the answer to a fault be lost too.  There are no
second users in the run: the server does nothing to keep them apart, and no
promise speaks of them (`odd`).

`proxy`: two processes are what a lock, a torn file and a shared offset need.
What may happen is bounded by scenario (`MCInit`), so that each is explored in
full: three relays of one page (two that meet, and a third over what they
left), a new version of the page in the middle, a server or client that
fails, SIGINT, a blocked host.  The second version is the shorter one, so
that a rest of the first would be seen.  Pages that a server sends are bounded
(`budget.pages`); requests, those answered from the cache or refused included,
and expiry are not, so a client may ask for ever.

`http`: one child meets every branch by itself, for children share nothing; the
requests go on for ever and only the queue is bounded.  Two SIGINTs are the
signal and a second while the first is handled.  `MaxFiles` = 3 lets number 3 be
free, the newest or an older file, and runs out within two pages of a directory.
The second scenario reads requests at once; the third has a child that is forked
while the signal is on its way to main, and one that was there before.  A page
of two pieces is read and sent in more than one step, one of one piece at once.

*Fairness.*  `Fairness` asks of every client and of every thread that it takes
a step if it can keep on taking one: the operating system runs them, and a
`recv` with a timeout returns.  It does not make the mutex fair, and asks for
no crash, restart or kill.  No strong fairness is used.  Waits that the code does
not bound are left out of it: in `Dfs` a client that may be in the `send` of a
chunk, in `Proxy` a child that waits for its server or for its client to read
(`Waits`), in `HttpServer` a child in the `send` of a page (`WaitsForNobody`).
Headers and error answers are taken to fit into the socket.  `Uftp`: both programs
run and time passes (`Tick`); nobody has to enter a command.  `Proxy`: the
parent and every child run on when they can, and SIGINT reaches all children, as
Ctrl-C does; requests, failures, expiry, what servers send and the library's
`Flush` are not asked for.  `HttpServer`: main and every child run on, and ten
seconds pass; no client has to send, read or leave.

*Deadlock* is not checked (`CHECK_DEADLOCK FALSE`): when all commands have
ended, or no budget is left, nothing is left to do.  Who ends, and who may wait for
ever, is what `PutsAndListsEnd`, `AllEnd`, `MutexReleased`, `CommandsEnd`, `PutsEnd`
and `GracefulEnd` say; `MutexReleased` and `AllEnd` need that no client is killed and
no server crashes (see below).

### What the violated runs show

* `dfs_mixed`.  `dfs` picks the newest file of each chunk (218-231).  After a
  put that stopped half way a get joins chunks of two puts and says success.
* `dfs_parse`.  `strtok` (110-129) keeps one place for the process: the second
  header's first call moves it, and the first thread reads the second one's file
  name or number.  The chunk is stored under it and acknowledged.  (With a
  NULL for a name the process ends.)  The comment at dfs.c:40 says threads have
  their own stack; what `strtok` keeps is not on it.
* `proxy_sent`.  `fopen "wb"` (proxy.c:489) empties the cache file before the
  lock is asked for (491), and `check_cache` looks at name and age only: a
  second request finds the file, takes the read lock first and sends a page of
  0 bytes.  The comment at 284 has the page stored, and then sent.
* `proxy_blocked`.  The blocklist is opened before `fork`, so its offset is one
  for all.  Each scan resets it (350), as the comment at 349 says it must; but two
  that reset before either reads leave one of them at the end of the file, and
  it relays a host that is blocked.

### Known behaviour that the properties step around

These are in the model; the properties say where they stop.

* A file under four bytes has chunks of size 0.  `dfc` takes the size 0 for "not
  there" and asks the next server; `dfs` waits for `Ready` (dfs.c:265, with the
  comment on 264) and swallows the client's next request.  With such a file
  neither `InStep` nor `IsChunkStore` holds (TLC shows it with a file of one byte
  in place of `Big` in `dfs_faults`); both are stated for chunks that have a byte.
* `grep` finds `file-chunk` anywhere in a name (dfs.c:220-231): a get of `b` may
  be given the chunks of `ab`.  `Alias` is empty in the runs; `IsChunkStore`,
  `OneVersion` and `ListShowsStored` are about names that do not contain each
  other.
* `eofAck`: the 0 of a server that ended counts as an acknowledgement
  (dfc.c:429 tests for less than 0), so a put may say it stored a chunk it did
  not.  `AckedIsStored` and `base` are about the other puts.
* `CannotGive`: the newest file of a chunk may be an empty one, left by a crash
  in the middle of a put; the server offers it rather than the older whole one,
  and the client takes it for nothing.
* A torn file that has some bytes is served as it is after a restart:
  `NoTornRead` is about processes that have not died (`died`).
* A client killed in the middle of a chunk leaves the thread in a loop of
  `recv` = 0 with the mutex held (185-198); a get whose server ends in
  mid-chunk loops likewise (dfc.c:180-187).  So `AllEnd` and `MutexReleased` are
  checked without kills.  With them, a put that meets that mutex waits for ever if
  its chunk does not fit into the sockets, for its `send` has no timeout
  (dfc.c:165); `PutsAndListsEnd` makes an exception for it (`KeptOut`) and for no
  other put or list.  Without the exception TLC finds such a put in `dfs_ends`.
* `Uftp`: after two losses in one put the client may be told of success that
  is none: the server gives up after five seconds, the client waits three
  times two (an ACK, another, the answer).  Hence `lost[c] <= 1` in
  `PutIsStored`; without it TLC finds such a put.  The promises of get and delete
  hold however many datagrams are lost.
* `Uftp`: after a loss the next command may suffer: its request is taken for the
  ACK that the server of a get still waits for (uftp_server-2.c:235), or a late
  answer to the command before is taken for its own (uftp_client-2.c:349).  Nothing in
  the code prevents either; both are in the model, and `PutIsStored`, `GetIsPrefix` and
  `AnswerIsTrue` speak of commands that began with nothing under way (`clean`).
* `Uftp`: a get that lost a datagram leaves a beginning of the file, or what
  `fwrite` of -1 bytes left, and prints "Get Successful" (212-216).
* `Proxy`: a child whose server ends in mid-page asks it for the rest for ever,
  with the write lock held (`"spin"`), and one whose file was emptied under its
  read lock, or whose `send` SIGINT cut short, reads at the end of it for ever
  (`"starved"`); every later request for that page waits.  Waits for a server and
  for a client that does not read its page have no timeout either.  `GracefulEnd`
  makes an exception for a child that is kept in one of these ways, for one that
  waits for the lock of such a child on the same page (`Kept`), and for one whose
  client asks for ever for what is not answered from the cache: 400, 403, 505 and
  the server's own errors never look at `check` (`AsksOn`).  It has no exception for
  a client that asks for cached pages for ever, nor for what one child does to
  another by anything but a lock.
* `Proxy`: an answer without a length is cached as an empty page (`NoLength`), and
  a relay that died leaves a torn one (`Torn`); the promises are about files of
  known versions.  A blocked host that was relayed in the race of
  `proxy_blocked` is in the cache, and then served to everyone until it
  expires, for the blocklist is only read in `relay`.
* `HttpServer`: SIGINT can break a page that is being read or sent (number 3 is
  closed at 93; a long `send` is cut short and not repeated, 346), although the
  comment at 91 has children finish servicing a request.  `SentIsThePage` says it
  is the only way.
* `HttpServer`: an error answer closes the socket for `close` and not for `Close`;
  an error answer after SIGINT does not close, so a child may go on with a client
  that keeps asking for what is not there (`KeepsAsking` in `GracefulEnd`).
* `HttpServer`: the `send` of a page (346) has no timeout, so a client that stops
  reading a long page keeps its child, and with it `main` in its wait (631)
  (`NeverReads`).  `GracefulEnd` says of each child that only its own client can
  keep it, and of `main` that it ends if no client is like that.
* `HttpServer`: requests sent without waiting are answered once (581).
* One server that is not reached is enough for a put to be refused (310), where
  the comment above it suggests two.


## 4. The proofs

TLAPS checks these for every value of the constants that satisfies the named
assumptions: `NAssumption` (at least two servers), `DfsAssumption`,
`UftpAssumption`, `HttpAssumption` and `ProxyAssumption` (types of the constants, and model values
that differ from data).  No bound of the runs enters: `MaxCrash`, `MaxKill` and the
others are any numbers, the sets of clients, files, pages and hosts any sets.
Where a theorem takes more of the constants it says so in its statement.
Every safety theorem has the same shape: an invariant that the initial states
have and every step keeps, with one case per action, and the property from it.

**`Dfs_proofs`** begins with the operators of `DfsPlacement`: `SlotIsChunk`;
`HoldersAreNeighbours` (each chunk is on exactly two servers, neighbours on the
ring);
`ReachableWhenNoGap` (all chunks can be had exactly when no two neighbours are
gone); `ChunksTile` (the chunks in order are the file).  They rest on arithmetic
around the ring (`WrapInRing`).

It goes on with what everything about PA4 rests on.

* `MutexSafe`: `Spec => []MutualExclusion`.  `MutexInv` adds `NoThreadYet`: a
  client that is still connecting has no thread at the servers it has yet to
  come to.  Without it the step that accepts a connection could overwrite a
  thread that holds the mutex.
* `TypesHold`: `Spec => []TypeOK`.  `TypeInv` adds `LoopsInRange` (where the loop
  variables of a client are used they name a server, a slot, an argument, a
  stamp) and `PathsInUse` (a thread that writes or reads has a path, and its
  file is there).
* `ReadsAreWhole`: `Spec => []NoTornRead`.  `ReadInv` adds `TornOnlyIfWriting`:
  until a server dies a chunk file that is not whole has a thread writing it;
  that thread has the mutex, so a reader that has it sees none.
* Lemmas for the rest: a step of one process leaves the others' variables alone;
  threads and messages keep to the command of their client (`RolesKept`); ends
  are final; two puts have different stamps (`StampsApart`).

**`DfsPuts_proofs`**: `AcknowledgedIsStored`, of `AckedIsStored`.  The invariant
`PutsInv` follows the chunk that is being put as a token: it is in exactly one
place (still in the client, a header and bytes in the stream, open at the
thread, stored with the acknowledgement on its way), and every chunk before it
is whole at its server.  Assumed: no two puts start in one microsecond
(`~SameMicrosecond`), and none names a file twice (`NoFileTwice`): `put f f`
writes the same names again, so for a moment a chunk that was acknowledged is
an empty file.

**`DfsGets_proofs`**.  `TalkInv` says what can be on the connection of a get: one
question or its answer or, after a timeout, an answer too late at a server
that was given up.

* `AnswersAreTaken`, of `AnswersMatch`, and `FilesInOrder`, of `FileInOrder`:
  nothing assumed.  Their point is that the protocol has no identifiers and
  needs none, for a client asks nothing more of a server that was late.
* `NothingStale`, of `NoStaleChunk`: `FreshInv` carries the newest complete put
  before the get (`base`) to the file a thread settles on, and to what it sends.
* `OnlyCutIsIncomplete`, of `IncompleteOnlyIfCut`: `OnceInv` and `CutInv` say of
  every server the get has passed why it gave nothing.  Both assume what
  `AcknowledgedIsStored` does and that no name is found in another
  (`Alias = {}`).

**`DfsLists_proofs`**: `ListsAreHonest`, of `ListIsHonest` (nothing assumed: no chunk
file ever goes), and `StoredIsShown`, of `ListShowsStored` (assumed: what
`AcknowledgedIsStored` does, and that servers answer within the client's second,
`MaxSlow = 0`, for a list goes on without the names of one that is late).

**`DfsStore_proofs`**: the servers are a store, and the two sides stay in step.

* `DfsIsAStore`: `Spec => IsChunkStore`.  `StoreInit` maps the initial states,
  `StoreSteps` every step, one case per action: `PutClose` is `Store`, `GetQuery`
  is `Ask`, `RecvGet` is `Find`, `RecvGetNotFound` is `Deny`, `GetSend` is `Give`
  or, to a client that has gone, `Forget`, what the client reads is `Take`, its end
  is `Leave` and a server's is `Die`, and what a restarted server tells anyone is
  `Erratic`.  The other actions are stutters, which is most of the work: what
  `AnswerIn` and `RequestIn` make of a queue must be the same after the step.
  That takes `LineInv`: on a get's connection there is one word at most in each
  direction, none while its thread is at work, and never a second question.
  `SizedInv`, with `NoEmptyChunk`, gives a whole chunk bytes, so that its size is
  never the 0 that a client goes on from; `DiedKnown` says that only a death ends
  a connection on the server's side.
  It assumes what `OnlyCutIsIncomplete` does: two puts of one stamp, or of one name
  twice, would empty a file that is stored, which no store does, and a get that is
  given the chunk of another name is no `Find`.
* `SidesInStep`, of `InStep`.  `WordInv`: what is on its way to the thread of a get
  is `Ready` if and only if the thread waits for that.  `PutLineInv` says of a put
  what can be on a connection: nothing, a header with or without its bytes, the
  bytes once a thread is writing, an acknowledgement, `put done`.  It is `InTurn`
  of `PutsInv` without the directories, so nothing is assumed of stamps and names.

  Both assume `NoEmptyChunk`: no file that is put has fewer bytes than there are
  servers.  That is needed, as said in section 3.  The program promises nothing
  about such files, so this is a limit of the program and not of the proof.

**`HttpServer_proofs`**.  `TypeInv` adds `ServedAreGood` (what is served was not
refused, so `connection` is no NULL) and `ThreeIsOpen`.  `Inv` adds, per child:

* `LastOk`, `BegunOk`, `CloseOk`: after an answer that says "close" the child is on
  its way out or has closed the socket.  `NothingAfterClose`, of the action
  property `CloseIsLast`.
* `PageOk`: a file was closed under its reader only if the handler has run
  (`PagesAreSent`, of `SentIsThePage`).
* `LateOk`: a child that made a page after the handler says "close" with it
  (`OneMorePage`, of `OnePageAfterSigint`).
* `FilesOk`: `fds` is at most twice the pages asked for, and less by what the
  present request may still open (`FirstPagesFound`, of `FirstPagesAreFound`).

**`Proxy_proofs`**.  `TypeInv` is `ProcOk` of every process: a sender has a file to
send, a relay no more than its page.  `Inv` adds:

* `ScanOk`: a scan that met no other finds the offset where it left it
  (`BlockedAloneHolds`).
* `FileOk`: the process that was the last to empty a cache file, which no page of
  another version has met, has lost nothing: the file, then its buffer, then
  what it has yet to receive make the page.  The others only write again what is
  there (`RestHolds`, of `RestIsWhole`).  This is why the late lock does no harm to
  what stays in the cache, although it does to what is sent (`proxy_sent`).
* `AloneOk`: the same for a request that met no relay, up to the bytes sent
  (`AloneHolds`, of `AloneIsWhole`).
* `LateOk` (`OneMorePage`).

**`Uftp_proofs`**.  `TypeInv` adds what is in the queues (`QueuesOk`: a request
names a file where it has to and is never empty, and a client gets only what it
can print), and that a transfer has a file, which is there once it is written to
(`ServerOk`, `ClientOk`).  `TypesHold` is `Spec => []TypeOK`.

* `NothingIsLeft`, of `NothingLeftOver`.  `OrderInv` says, as long as UDP did nothing
  wrong, of the one client that is using the server: nobody has waited yet, so
  no timeout is near (`Prompt`); what is in the server's socket is a row of
  whole commands, a put with its size and first block (`Orderly`), and the server
  is at the point where the first of it is expected (`HeadOk`); and for each wait
  of the client, what it waits for is either behind the last datagram in that
  socket, or in its own, with the count that belongs to it (`PhaseOk`).  The
  counts carry the lengths: of a long get `done + block + srest = need`, of a long
  put `sdone + block + rest = sneed`, so the last ACK, the last block and the last
  answer are the last on both sides, for any length and any buffer.  A put of a
  file that is not there and a long get leave a datagram behind in the server's
  socket when the client is at its prompt again; the invariant says which two
  kinds, and that the server passes over them before the next command.

* `PutsAreStored`, `GetsArePrefixes` and `AnswersAreTrue`, of `PutIsStored`,
  `GetIsPrefix` and `AnswerIsTrue`: what a command promises when some of its
  datagrams are lost: a put one at most, a get or a delete any number.  `OrderInv`
  is of no use here, for after a loss the counts no longer agree.  `LossInv` says instead, of a command that began with nothing under
  way (`CommandOk`): nobody else waits for anything, and the command is in one of
  these states.
  - delete (`DeleteOk`): the request or its answer is under way or lost; when it is
    answered the file is gone.
  - get (`GetOk`): the request, the refusal, or size and first block are under way
    (`AskedOk`); one of the two was lost, and whatever comes is taken for the other
    (`Halved`); in a long file the next block is under way or the ACK for it
    (`BlockComes`, `AckComes`), and then what the client has, the block and what the
    server has left make the file; or something was lost and nothing will come any
    more (`Nothing`), and then what the client has is a beginning of the file.  The
    server is left in `get_ack`, and what it takes there can only be an ACK.
  - put (`PutOk`, `Putting`): as long as all arrived, server's file, block and rest
    make the client's file (`DataGoes`, `AckBack`, also after a lost ACK,
    `AckLost`), until all is stored (`StoredOk`).  A lost request leaves a server
    that ignores the rest and answers nothing (`IgnoredOk`).  A lost size or block
    leaves one that expects more than is still to come (`Missing`), or does not
    know how much: in `LackGoes`, `LackAcked` and `LackWaits` it cannot count to the
    end.  The one answer it can give early, of a block it took for the size, comes
    to a client that waits for an ACK and takes it for one (`LastWord`).

  What remains is the server's own timeout, after which it says "PUT successful" of
  whatever it has.  Here the invariant needs the timers (`Later`): while the client
  waits for an ACK the server has three seconds more, and while it waits for the
  answer one more, because the server's five began no earlier than the client's
  two, and after the ACK that does not come the client has two for the answer.  So
  the client has always given up first.  The mutant of the run `uftp`, a server that
  waits three, breaks just that.  TLC finds `LossInv` to hold with files of up to
  six units, with two faults of any kind and with four losses.

  The arguments about queues rest on a handful of lemmas about sequences of up to
  three elements (`SameShort`, `ShortTails`, `ShortJoins`, `DropIs`, `ShortDrops`),
  and on one frame lemma for each kind of step (`ServersFrame`, `ClientsFrame`,
  `LossIs`, `TickIs`).

Only model-checked:

* `SlotIsTable`, `ReachableIffNoGap` and `ChunksTileFile` of `MCDfsPlacement`: they
  compare the operators with the table as it is written out for four servers,
  which is one instance; `Dfs_proofs` has the general facts.
* Everything under fairness: liveness and ENABLED are beyond this prover.
* What the violated runs are about: it does not hold.


## 5. Plan

Done: every program of the assignments has its module and its runs; `Dfs` is
proved to implement `ChunkStore`; every safety property that a passing run checks
of `Dfs`, `DfsStore`, `Uftp`, `Proxy` and `HttpServer` is a theorem.  What is open:

* Liveness (`AllEnd`, `MutexReleased`, `PutsAndListsEnd`, `CommandsEnd`, `PutsEnd`,
  `GracefulEnd`): model-checked on the instances of section 3.
* A put that lost two datagrams or more: it promises nothing (see above), so
  what could be stated is when its false success may come.


## 6. Not modelled

* `threaded_server.c` (PA2) and `proxy-threaded.c` (PA3): no makefile builds
  them; they are earlier forms of programs that are modelled.
* `src/Sockets`: exercises, each a few calls with no state to speak of.
* `src/PA2/www`, the sample chunks of PA4: data.
* Configuration files, argument checks, and failures of `socket`, `bind`,
  `malloc`, `fork`: the programs print and exit.
* Contents and headers as text, and buffers that a long name overruns: the models
  tell apart only what the properties are about.
