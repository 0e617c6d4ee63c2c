-------------------------------- MODULE Proxy --------------------------------
(***************************************************************************)
(* The caching web proxy of PA3 (proxy.c): a process per connection, which *)
(* takes requests, relays a page that is not in the cache to the server it *)
(* comes from, and sends from the cache; record locks on the cache files;  *)
(* a blocklist read through one file that all processes share; SIGINT.     *)
(*                                                                         *)
(* Each host has one page.  Page versions are numbers, and a file is a     *)
(* sequence of pieces, each of which is the version it comes from, or Hole *)
(* where nothing was written.  NoLength is the answer of a server that     *)
(* does not say how long its page is: the proxy takes it for an empty one. *)
(*                                                                         *)
(* An action is what a process does between two calls in which it can wait *)
(* or that another process can see.                                        *)
(***************************************************************************)
EXTENDS Integers, Sequences, FiniteSets

CONSTANTS
  Proc,        \* the child processes there may be, one per connection
  Host,        \* hosts of which pages are asked
  MaxPage,     \* bound on the versions of a page
  PageSize,    \* how many pieces each version has
  NoOne        \* no process, no host, no piece of a page

ASSUME ProxyAssumption ==
  /\ MaxPage \in Nat \ {0}
  /\ PageSize \in [1..MaxPage -> Nat \ {0}]
  /\ NoOne \notin Proc \cup Host \cup 0..MaxPage

Hole == 0
NoLength == 0
Torn == 0 - 1                  \* in fetched: a process that died in mid-page
Absent == <<NoOne>>

VARIABLES
  ppc,         \* where the parent is
  sigint,      \* SIGINT was sent
  pc,          \* where each child is
  host, conn,  \* hostname and connection of its request
  check,       \* its copy of the global flag
  ver,         \* relay: which version it receives,
  got, off,    \* how much it has, and how much of this is out of its buffer
  size, sent,  \* send_from_cache: fsize, and what it has sent
  file, fresh, \* the cache, and whether a file is younger than the timeout
  writer, readers,       \* record locks
  blocked,     \* the hosts that the blocklist names, {} if there is none
  top,         \* the shared offset of the blocklist is at its beginning
  kept,        \* the child has the blocklist in its own buffer
  page,        \* the version of its page that each server has now
  budget,      \* what users, servers and clients may still do
  fetched,     \* history: versions written since a file was last at rest
  disturbed,   \* history: another relay met this request
  overlapped,  \* history: another scan of the blocklist met that of the child
  late         \* history: pages a child began to send after its handler ran

request == <<host, conn, check>>
relaying == <<ver, got, off>>
sending == <<size, sent>>
cache == <<file, fresh>>
locks == <<writer, readers>>
list == <<blocked, top, kept>>
hist == <<fetched, disturbed, overlapped, late>>
vars == <<ppc, sigint, pc, request, relaying, sending, cache, locks, list,
          page, budget, hist>>

Scanning == {"scan", "scan_end"}
Writing == {"lock", "fill", "close", "spin"}      \* between fopen and fclose
Relaying == {"fetch", "open"} \cup Writing
Sending == {"read", "send", "starved"}
Busy == {"resolve"} \cup Scanning \cup Relaying \cup Sending
Stuck == {"spin", "starved"}

\* A start with the given blocklist and pages, in which that much can happen.
Start(names, pages, bounds) ==
  /\ blocked = names /\ page = pages /\ budget = bounds
  /\ ppc = "accept" /\ sigint = FALSE
  /\ pc = [p \in Proc |-> "unborn"]
  /\ host = [p \in Proc |-> NoOne] /\ conn = [p \in Proc |-> "keep"]
  /\ check = [p \in Proc |-> TRUE]
  /\ ver = [p \in Proc |-> NoLength]
  /\ got = [p \in Proc |-> 0] /\ off = [p \in Proc |-> 0]
  /\ size = [p \in Proc |-> 0] /\ sent = [p \in Proc |-> <<>>]
  /\ file = [h \in Host |-> Absent] /\ fresh = [h \in Host |-> FALSE]
  /\ writer = [h \in Host |-> NoOne] /\ readers = [h \in Host |-> {}]
  /\ top = TRUE /\ kept = [p \in Proc |-> FALSE]
  /\ fetched = [h \in Host |-> {}]
  /\ disturbed = [p \in Proc |-> FALSE] /\ overlapped = [p \in Proc |-> FALSE]
  /\ late = [p \in Proc |-> 0]
Budget == [hosts : SUBSET Host, pages : Nat, signals : Nat, failures : Nat,
           changes : Nat]
Init == \E names \in SUBSET Host, pages \in [Host -> 1..MaxPage], bounds \in Budget :
          Start(names, pages, bounds)

(* ------------------------------- helpers ------------------------------ *)

\* One of the things that are bounded happens.
Spends(what) == /\ budget[what] > 0
                /\ budget' = [budget EXCEPT ![what] = @ - 1]

SizeOf(v) == IF v = NoLength THEN 0 ELSE PageSize[v]
Whole(v) == [i \in 1..SizeOf(v) |-> v]
Writers(h) == {p \in Proc : pc[p] \in Writing /\ host[p] = h}

\* write(2) of pieces i..j of version v, past the end of the file or not.
Written(data, i, j, v) ==
  [k \in 1..(IF j > Len(data) THEN j ELSE Len(data)) |->
     IF k \in i..j THEN v ELSE IF k \in DOMAIN data THEN data[k] ELSE Hole]

At(p, state) == pc[p] = state
Goto(p, state) == pc' = [pc EXCEPT ![p] = state]
\* The local variables of a function are gone when it returns.
RelayReturns(p) == /\ ver' = [ver EXCEPT ![p] = NoLength]
                   /\ got' = [got EXCEPT ![p] = 0]
                   /\ off' = [off EXCEPT ![p] = 0]
SendReturns(p) == /\ size' = [size EXCEPT ![p] = 0]
                  /\ sent' = [sent EXCEPT ![p] = <<>>]

RequestReturns(p) ==
  /\ host' = [host EXCEPT ![p] = NoOne] /\ conn' = [conn EXCEPT ![p] = "keep"]
  /\ disturbed' = [disturbed EXCEPT ![p] = FALSE]
  /\ UNCHANGED check
\* After an answer: a connection that was closed makes recv fail, and the
\* child sends its 408 to nobody and exits.
Answered(p) == /\ Goto(p, IF conn[p] = "close" THEN "closed" ELSE "recv")
               /\ RequestReturns(p)
\* A process that ends loses its locks, and what it has not written out.
Ends(p) ==
  /\ Goto(p, "gone") /\ RelayReturns(p) /\ SendReturns(p) /\ RequestReturns(p)
  /\ writer' = [h \in Host |-> IF writer[h] = p THEN NoOne ELSE writer[h]]
  /\ readers' = [h \in Host |-> readers[h] \ {p}]

(* -------------------------------- parent ------------------------------ *)

\* accept and fork.  The handler may run between the two: the child then
\* starts with check = 0, and the parent's next accept fails.
Accept(p) ==
  /\ ppc = "accept" /\ At(p, "unborn")
  /\ Goto(p, "recv")
  /\ \/ UNCHANGED <<ppc, check>>
     \/ sigint /\ ppc' = "wait" /\ check' = [check EXCEPT ![p] = FALSE]
  /\ UNCHANGED <<sigint, host, conn, relaying, sending, cache, locks,
                 list, page, budget, hist>>

Interrupt ==
  /\ ~sigint /\ sigint' = TRUE /\ Spends("signals")
  /\ UNCHANGED <<ppc, pc, request, relaying, sending, cache, locks, list, page,
                 hist>>

\* The parent's handler closes the listening socket, and accept fails.
ParentStops ==
  /\ sigint /\ ppc = "accept" /\ ppc' = "wait"
  /\ UNCHANGED <<sigint, pc, request, relaying, sending, cache, locks, list,
                 page, budget, hist>>

\* wait returns -1 when there is no child left.
ParentEnds ==
  /\ ppc = "wait" /\ \A p \in Proc : pc[p] \in {"unborn", "gone"}
  /\ ppc' = "done"
  /\ UNCHANGED <<sigint, pc, request, relaying, sending, cache, locks, list,
                 page, budget, hist>>

\* The handler in a child, which may be anywhere.  recv of a request, which
\* has a timeout, fails or goes on.  send of a block of the page goes on or
\* returns short: then the sum of what was sent never comes to fsize, and
\* at the end of the file the child goes on to read and send nothing.
ChildSigint(p) ==
  /\ sigint /\ check[p] /\ pc[p] \notin {"unborn", "gone"}
  /\ check' = [check EXCEPT ![p] = FALSE]
  /\ \/ UNCHANGED pc
     \/ At(p, "recv") /\ Goto(p, "gone")
     \/ At(p, "send") /\ size[p] > Len(sent[p]) /\ Goto(p, "starved")
  /\ UNCHANGED <<ppc, sigint, host, conn, relaying, sending, cache, locks,
                 list, page, budget, hist>>

(* ------------------------------- requests ----------------------------- *)

\* recv gives a request.
Takes(p) ==
  /\ At(p, "recv")
  /\ UNCHANGED <<ppc, sigint, check, relaying, sending, cache, locks, list, page,
                 budget>>

RequestAlwaysCached(p, h, connection) ==   \* a mutant: any page is found
  /\ Takes(p)
  /\ host' = [host EXCEPT ![p] = h]
  /\ conn' = [conn EXCEPT ![p] = connection]
  /\ Goto(p, "read")
  /\ disturbed' = [disturbed EXCEPT ![p] = Writers(h) # {}]
  /\ overlapped' = [overlapped EXCEPT ![p] = FALSE]
  /\ UNCHANGED <<fetched, late>>

\* A request for the page of h, and check_cache.
Request(p, h, connection) ==
  /\ Takes(p)
  /\ host' = [host EXCEPT ![p] = h]
  /\ conn' = [conn EXCEPT ![p] = connection]
  /\ Goto(p, IF file[h] # Absent /\ fresh[h] THEN "read" ELSE "resolve")
  /\ disturbed' = [disturbed EXCEPT ![p] = Writers(h) # {}]
  /\ overlapped' = [overlapped EXCEPT ![p] = FALSE]
  /\ UNCHANGED <<fetched, late>>

\* A request with another method or version.
RefusedRequest(p) == Takes(p) /\ Goto(p, "refuse") /\ UNCHANGED <<host, conn, hist>>

\* 400 for the method, with which the connection may close; 505 for the
\* version, with which it stays.
Refuse(p) ==
  /\ At(p, "refuse")
  /\ Goto(p, "recv") \/ Goto(p, "closed")
  /\ UNCHANGED <<ppc, sigint, request, relaying, sending, cache, locks, list,
                 page, budget, hist>>

\* strlen of a method or version that is not there.
Malformed(p) == Takes(p) /\ Goto(p, "gone") /\ UNCHANGED <<host, conn, hist>>

\* Ten seconds pass, or the client is gone; a 408 and the end.
RecvEnds(p) ==
  /\ pc[p] \in {"recv", "closed"} /\ Goto(p, "gone")
  /\ UNCHANGED <<ppc, sigint, request, relaying, sending, cache, locks, list,
                 page, budget, hist>>

(* --------------------------- relay: blocklist ------------------------- *)

\* No such host: an answer from a wrong pointer, and then a NULL one.
Unresolved(p) ==
  /\ At(p, "resolve") /\ Goto(p, "gone") /\ RequestReturns(p)
  /\ UNCHANGED <<ppc, sigint, relaying, sending, cache, locks, list,
                 page, budget, fetched, overlapped, late>>

\* In scanning, p and every other process that scans met.
Meets(p) ==
  LET others == {q \in Proc \ {p} : pc[q] \in Scanning} IN
  overlapped' = [q \in Proc |-> overlapped[q] \/ q \in others
                                \/ (q = p /\ others # {})]
ScanStep(p) ==
  /\ Meets(p)
  /\ UNCHANGED <<ppc, sigint, check, relaying, sending, cache, locks, blocked,
                 page, budget, fetched, late>>
GoesOn(p, state) == Goto(p, state) /\ UNCHANGED <<host, conn, disturbed>>

\* Without a blocklist there is no scan.
NoScan(p) ==
  /\ At(p, "resolve") /\ blocked = {} /\ Goto(p, "fetch")
  /\ UNCHANGED <<ppc, sigint, request, relaying, sending, cache, locks, list,
                 page, budget, hist>>

ScanStartNoSeek(p) ==          \* a mutant: the file is not set back
  /\ At(p, "resolve") /\ blocked # {} /\ ~kept[p]
  /\ UNCHANGED list
  /\ GoesOn(p, "scan") /\ ScanStep(p)

\* fseek to the beginning, of the offset all processes share, unless the
\* child has the beginning in its buffer.
ScanStart(p) ==
  /\ At(p, "resolve") /\ blocked # {} /\ ~kept[p]
  /\ top' = TRUE /\ UNCHANGED kept
  /\ GoesOn(p, "scan") /\ ScanStep(p)

\* It has: then fseek sets the shared offset to where its buffer ends.
ScanKept(p) ==
  /\ At(p, "resolve") /\ blocked # {} /\ kept[p] /\ top' = FALSE /\ UNCHANGED kept
  /\ IF host[p] \in blocked THEN Answered(p) ELSE GoesOn(p, "scan_end")
  /\ ScanStep(p)

\* The first fgets reads all of the file, or nothing if the offset is not
\* where this process put it.  A hit stops the scan: 403.
Scan(p) ==
  /\ At(p, "scan")
  /\ top' = FALSE
  /\ kept' = [kept EXCEPT ![p] = top]
  /\ IF ~top THEN GoesOn(p, "fetch")
     ELSE IF host[p] \in blocked THEN Answered(p)
     ELSE GoesOn(p, "scan_end")
  /\ ScanStep(p)

\* Another read finds the end of the file; what was in the buffer is gone.
ScanEnd(p) ==
  /\ At(p, "scan_end") /\ GoesOn(p, "fetch")
  /\ top' = FALSE
  /\ kept' = [kept EXCEPT ![p] = FALSE]
  /\ ScanStep(p)

(* ----------------------- relay: the remote server --------------------- *)

Fetches(p) ==
  /\ At(p, "fetch")
  /\ UNCHANGED <<ppc, sigint, sending, cache, locks, list, page, fetched,
                 overlapped, late>>

\* connect failed: error() exits, without an answer.
ConnectFails(p) ==
  /\ Fetches(p) /\ Goto(p, "gone") /\ RequestReturns(p)
  /\ UNCHANGED <<relaying, budget>>

\* Anything but 200 is passed on, and not cached; the connection stays open.
FetchOther(p) ==
  /\ Fetches(p) /\ Goto(p, "recv") /\ RequestReturns(p)
  /\ UNCHANGED <<relaying, budget>>

\* The header, and the first pieces of the page with it.
Fetch(p) ==
  /\ Fetches(p) /\ Goto(p, "open") /\ Spends("pages")
  /\ UNCHANGED <<request, disturbed>>
  /\ \E v \in {page[host[p]], NoLength} : \E first \in 0..SizeOf(v) :
    /\ ver' = [ver EXCEPT ![p] = v]
    /\ got' = [got EXCEPT ![p] = first]
    /\ off' = [off EXCEPT ![p] = 0]

(* -------------------------- relay: the cache file --------------------- *)

WriteStep(p) == UNCHANGED <<ppc, sigint, check, list, page, overlapped, late>>

\* fopen "wb": the file is empty from now on, whoever has a lock on it.
Truncate(p) ==
  LET h == host[p] IN
  /\ At(p, "open") /\ Goto(p, "lock")
  /\ file' = [file EXCEPT ![h] = <<>>]
  /\ fresh' = [fresh EXCEPT ![h] = TRUE]
  /\ fetched' = [fetched EXCEPT ![h] = IF Writers(h) = {} THEN {ver[p]}
                                                         ELSE @ \cup {ver[p]}]
  /\ disturbed' = [q \in Proc |-> disturbed[q] \/ (q # p /\ host[q] = h)
                                  \/ (q = p /\ Writers(h) # {})]
  /\ UNCHANGED <<host, conn, relaying, sending, locks, budget>> /\ WriteStep(p)

WriteLock(p) ==
  /\ At(p, "lock") /\ Goto(p, "fill")
  /\ writer[host[p]] = NoOne /\ readers[host[p]] = {}
  /\ writer' = [writer EXCEPT ![host[p]] = p]
  /\ UNCHANGED <<host, conn, relaying, sending, cache, readers, budget, fetched,
                 disturbed>>
  /\ WriteStep(p)

\* The next piece from the server, into the buffer of the process.
Fill(p) ==
  /\ At(p, "fill") /\ got[p] < SizeOf(ver[p])
  /\ got' = [got EXCEPT ![p] = @ + 1]
  /\ UNCHANGED <<host, conn, pc, ver, off, sending, cache, locks, budget, fetched,
                 disturbed>>
  /\ WriteStep(p)

\* The server ends too early.  recv gives 0 for ever; or it fails, and
\* fwrite of -1 bytes is the end of the process, or has no end.
ServerEnds(p) ==
  /\ At(p, "fill") /\ got[p] < SizeOf(ver[p]) /\ Spends("failures")
  /\ \/ /\ Goto(p, "spin")
        /\ UNCHANGED <<host, conn, disturbed, relaying, sending, locks, fetched>>
     \/ /\ Ends(p)
        /\ fetched' = [fetched EXCEPT ![host[p]] = @ \cup {Torn}]
  /\ UNCHANGED cache /\ WriteStep(p)

PutOut(p) ==
  LET h == host[p] IN
  /\ file' = [file EXCEPT ![h] = Written(@, off[p] + 1, got[p], ver[p])]
  /\ fresh' = [fresh EXCEPT ![h] = TRUE]

\* The library writes the buffer out whenever it likes.
Flush(p) ==
  /\ pc[p] \in {"fill", "close"} /\ off[p] < got[p]
  /\ PutOut(p) /\ off' = [off EXCEPT ![p] = got[p]]
  /\ UNCHANGED <<host, conn, pc, ver, got, sending, locks, budget, fetched,
                 disturbed>>
  /\ WriteStep(p)

\* The lock is given up; the buffer may not have been written out yet.
WriteUnlock(p) ==
  /\ At(p, "fill") /\ got[p] = SizeOf(ver[p]) /\ Goto(p, "close")
  /\ writer' = [writer EXCEPT ![host[p]] = NoOne]
  /\ UNCHANGED <<host, conn, relaying, sending, cache, readers, budget, fetched,
                 disturbed>>
  /\ WriteStep(p)

CloseNoFlush(p) ==             \* a mutant: what is in the buffer is lost
  /\ At(p, "close") /\ Goto(p, "read") /\ RelayReturns(p)
  /\ UNCHANGED <<host, conn, sending, cache, locks, budget, fetched,
                 disturbed>>
  /\ WriteStep(p)

\* fclose writes out what is left, and gives up every lock on the file.
Close(p) ==
  /\ At(p, "close") /\ Goto(p, "read") /\ RelayReturns(p)
  /\ IF off[p] < got[p] THEN PutOut(p) ELSE UNCHANGED cache
  /\ UNCHANGED <<host, conn, sending, locks, budget, fetched,
                 disturbed>>
  /\ WriteStep(p)

(* ---------------------------- send_from_cache ------------------------- *)

SendStep(p) == UNCHANGED <<ppc, sigint, check, cache, list, page, fetched,
                           overlapped>>

ReadLockKeepsAlive(p) ==       \* a mutant: the connection stays as it is
  /\ At(p, "read") /\ Goto(p, "send")
  /\ writer[host[p]] = NoOne
  /\ readers' = [readers EXCEPT ![host[p]] = @ \cup {p}]
  /\ size' = [size EXCEPT ![p] = Len(file[host[p]])]
  /\ sent' = [sent EXCEPT ![p] = <<>>]
  /\ late' = [late EXCEPT ![p] = IF check[p] THEN @ ELSE @ + 1]
  /\ UNCHANGED <<host, disturbed, relaying, conn, writer, budget>> /\ SendStep(p)

\* Open and lock the file, find its size, send the header.  After SIGINT
\* the header says close, and the connection will be.
ReadLock(p) ==
  /\ At(p, "read") /\ Goto(p, "send")
  /\ writer[host[p]] = NoOne
  /\ readers' = [readers EXCEPT ![host[p]] = @ \cup {p}]
  /\ size' = [size EXCEPT ![p] = Len(file[host[p]])]
  /\ sent' = [sent EXCEPT ![p] = <<>>]
  /\ conn' = [conn EXCEPT ![p] = IF check[p] THEN @ ELSE "close"]
  /\ late' = [late EXCEPT ![p] = IF check[p] THEN @ ELSE @ + 1]
  /\ UNCHANGED <<host, disturbed, relaying, writer, budget>> /\ SendStep(p)

LeftButLast(p) ==              \* a mutant: off by one
  IF size[p] > 0 THEN size[p] - Len(sent[p]) - 1 ELSE 0
Left(p) == size[p] - Len(sent[p])
SendPiece(p) ==
  LET data == file[host[p]]
      i == Len(sent[p]) + 1 IN
  /\ At(p, "send") /\ Left(p) > 0 /\ i \in DOMAIN data
  /\ sent' = [sent EXCEPT ![p] = Append(@, data[i])]
  /\ UNCHANGED <<host, disturbed, relaying, pc, size, conn, locks, budget, late>>
  /\ SendStep(p)

\* The file has become shorter than fsize: fread gives 0 for ever.
Starve(p) ==
  /\ At(p, "send") /\ Left(p) > 0 /\ Len(sent[p]) >= Len(file[host[p]])
  /\ Goto(p, "starved")
  /\ UNCHANGED <<host, disturbed, relaying, sending, conn, locks, budget, late>>
  /\ SendStep(p)

SentKeepsLock(p) ==            \* a mutant: no unlock, no fclose
  /\ At(p, "send") /\ Left(p) = 0 /\ Answered(p) /\ SendReturns(p)
  /\ UNCHANGED <<relaying, locks, budget, late>> /\ SendStep(p)

Sent(p) ==
  /\ At(p, "send") /\ Left(p) = 0 /\ Answered(p) /\ SendReturns(p)
  /\ readers' = [readers EXCEPT ![host[p]] = @ \ {p}]
  /\ UNCHANGED <<relaying, writer, budget, late>> /\ SendStep(p)

\* send to a client that has gone raises SIGPIPE, also send of nothing.
ClientLeaves(p) ==
  /\ pc[p] \in {"send", "starved"} /\ Spends("failures") /\ Ends(p)
  /\ UNCHANGED late /\ SendStep(p)

(* ----------------------------- environment ---------------------------- *)

\* The timeout of a cached page passes.
Expire(h) ==
  /\ file[h] # Absent /\ fresh[h] /\ fresh' = [fresh EXCEPT ![h] = FALSE]
  /\ UNCHANGED <<ppc, sigint, pc, request, relaying, sending, file, locks, list,
                 page, budget, hist>>

\* The server has a new version of its page.
PageChanges(h) ==
  /\ page[h] < MaxPage /\ page' = [page EXCEPT ![h] = @ + 1] /\ Spends("changes")
  /\ UNCHANGED <<ppc, sigint, pc, request, relaying, sending, cache, locks, list,
                 hist>>

(* ------------------------------ next state ---------------------------- *)

Ask(p) ==
  \/ \E h \in budget.hosts, connection \in {"keep", "close"} :
       Request(p, h, connection)
  \/ RefusedRequest(p) \/ Malformed(p)
\* What a child does of itself.
Step(p) ==
  \/ RecvEnds(p) \/ Refuse(p) \/ Unresolved(p)
  \/ NoScan(p) \/ ScanStart(p) \/ ScanKept(p) \/ Scan(p) \/ ScanEnd(p)
  \/ ConnectFails(p) \/ FetchOther(p) \/ Fetch(p)
  \/ Truncate(p) \/ WriteLock(p) \/ Fill(p) \/ WriteUnlock(p) \/ Close(p)
  \/ ReadLock(p) \/ SendPiece(p) \/ Starve(p) \/ Sent(p)
Parent == ParentStops \/ ParentEnds

Next ==
  \/ Interrupt \/ Parent
  \/ \E p \in Proc : \/ Accept(p) \/ ChildSigint(p) \/ Ask(p) \/ Step(p)
                     \/ Flush(p) \/ ServerEnds(p) \/ ClientLeaves(p)
  \/ \E h \in Host : Expire(h) \/ PageChanges(h)

\* Waits that have no timeout: for the server, to accept the connection, to
\* answer and to send on, and for the client to read its page.
Waits(p) == \/ At(p, "fetch")
            \/ At(p, "fill") /\ got[p] < SizeOf(ver[p])
            \/ At(p, "send") /\ Left(p) > 0

\* Processes that can go on do, but for these waits, and SIGINT reaches all
\* children.  Nobody has to ask, to read or to send, and nothing has to fail,
\* expire or change.  (A header or an error answer fits into the socket.)
Fairness ==
  /\ WF_vars(Parent)
  /\ \A p \in Proc : WF_vars(ChildSigint(p)) /\ WF_vars(~Waits(p) /\ Step(p))
Spec == Init /\ [][Next]_vars /\ Fairness

(* ------------------------------ properties ---------------------------- *)

Version == 1..MaxPage
Data == Seq(Version \cup {Hole})

\* Every variable keeps its type.
TypeOK ==
  /\ ppc \in {"accept", "wait", "done"} /\ sigint \in BOOLEAN
  /\ pc \in [Proc -> Busy \cup {"unborn", "recv", "refuse", "closed", "gone"}]
  /\ host \in [Proc -> Host \cup {NoOne}] /\ conn \in [Proc -> {"keep", "close"}]
  /\ check \in [Proc -> BOOLEAN]
  /\ ver \in [Proc -> Version \cup {NoLength}]
  /\ got \in [Proc -> Nat] /\ off \in [Proc -> Nat] /\ size \in [Proc -> Nat]
  /\ sent \in [Proc -> Data]
  /\ file \in [Host -> Data \cup {Absent}] /\ fresh \in [Host -> BOOLEAN]
  /\ writer \in [Host -> Proc \cup {NoOne}] /\ readers \in [Host -> SUBSET Proc]
  /\ top \in BOOLEAN /\ kept \in [Proc -> BOOLEAN] /\ page \in [Host -> Version]
  /\ blocked \in SUBSET Host /\ budget \in Budget
  /\ fetched \in [Host -> SUBSET (Version \cup {NoLength, Torn})]
  /\ disturbed \in [Proc -> BOOLEAN] /\ overlapped \in [Proc -> BOOLEAN]
  /\ late \in [Proc -> Nat]

\* However many relays of a page met, when the last of them has closed the
\* cache file it is the whole page, if they all had the same page: each
\* writes all of it after emptying the file, so the last to empty it leaves
\* no hole, lock or no lock.
RestIsWhole ==
  \A h \in Host : \A v \in Version :
    Writers(h) = {} /\ fetched[h] = {v} => file[h] = Whole(v)

\* A request that met no other relay of its page is answered with the whole
\* page, from the cache or not, when the cache file is of one version.
AloneIsWhole ==
  \A p \in Proc : \A v \in Version :
    At(p, "send") /\ Left(p) = 0 /\ ~disturbed[p] /\ fetched[host[p]] = {v}
      => sent[p] = Whole(v)

\* A child whose handler has run sends at most one more page: that page
\* carries "Connection: close", and the child goes.
OnePageAfterSigint == \A p \in Proc : late[p] <= 1

\* A blocked host is relayed only if two processes read the blocklist at
\* the same time, although they share its offset.
BlockedAlone ==
  \A p \in Proc : pc[p] \in Relaying /\ host[p] \in blocked => overlapped[p]

\* p is kept for ever: by its server or client (Waits), by a server that
\* ended in mid-page, or in a loop at the end of the file; or it waits for
\* a lock on its page that such a process has.
Held(p) == Waits(p) \/ pc[p] \in Stuck
Kept(p) == \/ <>[]Held(p)
           \/ \E q \in Proc \ {p} :
                <>[](pc[p] \in {"lock", "read"} /\ Held(q) /\ host[q] = host[p])
\* The client of p asks for ever, and at last only for what is not answered
\* from the cache: no other answer looks at check.
AsksOn(p) == []<>At(p, "recv") /\ []<>~At(p, "recv") /\ <>[]~At(p, "send")

\* After SIGINT each child ends, unless its own client, its own server or a
\* process with the lock of its page keeps it: no other process does,
\* whatever it is at, and neither does a client that asks for pages for ever.
\* The parent ends after them, if nobody keeps any of them.
GracefulEnd ==
  /\ \A p \in Proc :
       []<>(sigint => pc[p] \in {"unborn", "gone"}) \/ AsksOn(p) \/ Kept(p)
  /\ []<>(sigint => ppc = "done") \/ \E p \in Proc : AsksOn(p) \/ Kept(p)

\* "It just stores the payload in the cache and then returns and then the
\* program will send from cache" (284): what a process has sent is a page,
\* when every answer the cache had from its server was one.  Violated.
SentIsAPage ==
  \A p \in Proc :
    /\ At(p, "send") /\ Left(p) = 0
    /\ fetched[host[p]] \subseteq Version
    => \E v \in Version : sent[p] = Whole(v)

\* "I open the blocklist in the main process so we need to reset it to the
\* top" (349): a process that has done so finds a blocked host.  Violated.
BlockedIsRefused ==
  \A p \in Proc : pc[p] \in Relaying => host[p] \notin blocked
=============================================================================
