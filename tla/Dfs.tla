-------------------------------- MODULE Dfs --------------------------------
(***************************************************************************)
(* The distributed file system of PA4: N servers (dfs.c), each a process   *)
(* with one thread per connection, one mutex and one directory of chunk    *)
(* files; and runs of the client (dfc.c get | put | list), each a process  *)
(* with one connection to every server it could reach.                     *)
(*                                                                         *)
(* A connection is a pair of byte streams, here sequences of the units the *)
(* two sides send.  A chunk with bytes in it arrives in two pieces: the    *)
(* header with the first bytes, and the rest.  A thread takes a header     *)
(* apart in one step; DfsParse is about two that do so at the same time,   *)
(* and confuse each other.  How the other side of a connection ended is    *)
(* one of                                                                  *)
(*   "open"     it did not                                                 *)
(*   "fin"      orderly: recv returns 0, what is sent is lost              *)
(*   "fin_rst"  orderly, and it was sent something since: its RST may or   *)
(*              may not have come, recv returns 0 or -1 (systems differ),  *)
(*              send loses the bytes or raises SIGPIPE                     *)
(*   "rst"      with bytes it had not read: recv returns -1, send raises   *)
(*              SIGPIPE, for which neither program has a handler           *)
(***************************************************************************)
EXTENDS DfsPlacement, Sequences

CONSTANTS
  Client,          \* client processes; each is one run of dfc
  File,            \* file names
  HashOf,          \* [File -> Hash]: md5_hash of the name
  Alias,           \* <<f, g>>: a grep for a chunk of f also finds those of g
  NameRank,        \* [File -> Nat]: the order in which sort has the names
  Job,             \* [Client -> [cmd, files]]: the command lines
  After,           \* [Client -> SUBSET Client]: the runs its user waits for first
  LocalSize,       \* [Client -> [File -> Int]]: sizes to put, -1: no such file
  MaxStamp,        \* bound: the clock shows 0..MaxStamp
  SameMicrosecond, \* two runs may read the same time off the clock
  MaxSlow,         \* bound: answers that come after the client's timeout
  MaxCrash,        \* bound on crashes of servers
  MaxRestart,      \* bound on their restarts
  MaxKill,         \* bound on killed clients
  None             \* no client

Stamp == 1..MaxStamp
Path == [file : File, chunk : Chunk, ts : Stamp]    \* file-chunk-ts
NoPath == [file |-> None, chunk |-> 0, ts |-> 0]
Present == [ver : Client, st : {"empty", "part", "whole"}]
Absent == [ver |-> None, st |-> "absent"]
End == {"open", "fin", "fin_rst", "rst"}

ASSUME DfsAssumption ==
  /\ None \notin Client
  /\ HashOf \in [File -> Hash]
  /\ Alias \subseteq File \X File
  /\ NameRank \in [File -> Nat]
  /\ Job \in [Client -> [cmd : {"get", "put", "list"}, files : Seq(File)]]
  /\ After \in [Client -> SUBSET Client]
  /\ LocalSize \in [Client -> [File -> Nat \cup {-1}]]
  /\ MaxStamp \in Nat /\ MaxSlow \in Nat /\ MaxCrash \in Nat
  /\ MaxRestart \in Nat /\ MaxKill \in Nat
  /\ SameMicrosecond \in BOOLEAN

VARIABLES
  cpc,          \* where each client is
  arg,          \* index of the file argument it works on
  srv,          \* the server its loop is at
  pos,          \* get: the chunk wanted; put: 1st or 2nd chunk of srv
  live,         \* live_servers
  got,          \* get: the slot of chunks_received for the chunk wanted,
                \* "junk" until it is assigned
  local,        \* get: the pieces written to the local file
  names,        \* list: the contents of dfs_list
  ts,           \* put: the timestamp of the run
  result,       \* what the client told its user, per file argument
  c2s, s2c,     \* bytes on their way, per client and server
  clientEnd,    \* how the client's side of the connection ended
  serverEnd,    \* how the server's side of it ended
  up,           \* the server process runs
  lock,         \* file_lock: whose thread holds it
  spc, cur,     \* where each thread is, the path it works on
  disk,         \* the directory
  clock,        \* gettimeofday
  slow, crashes, restarts, kills,   \* how often it happened
  died,         \* history: the server process has ended at least once
  eofAck,       \* history: an end of file was taken for an acknowledgement
  base          \* history: the puts complete when the client began its work

progress == <<cpc, arg, srv, pos>>
memory == <<live, got, local, names, ts, result>>
net == <<c2s, s2c, clientEnd, serverEnd>>
server == <<up, lock, spc, cur, disk>>
env == <<clock, slow, crashes, restarts, kills>>
hist == <<died, eofAck, base>>
vars == <<progress, memory, net, server, env, hist>>

Running == {"connect", "dispatch", "get_query", "get_size", "get_data",
            "put_send", "put_ack", "list_query", "list_names", "done"}
ClientStates == Running \cup {"exited", "killed", "wedged"}
ThreadStates == {"none", "recv", "put_lock", "put_write", "put_ack",
                 "get_lock", "get_ready", "ended"}

F(c) == Job[c].files[arg[c]]
Size(c, p) == ChunkSize(LocalSize[c][p.file], p.chunk)

(* -------------------------- the connections --------------------------- *)

PutUnits(c, p) ==                                    \* header + chunk
  IF Size(c, p) > 0 THEN <<[t |-> "put", path |-> p], [t |-> "rest"]>>
                    ELSE <<[t |-> "put", path |-> p]>>

\* recv of client c from s has something to return, returns 0, or fails.
Arrived(c, s) == s2c[c][s] # <<>>
ReadsEof(c, s) == ~Arrived(c, s) /\ serverEnd[c][s] \in {"fin", "fin_rst"}
ReadsReset(c, s) == ~Arrived(c, s) /\ serverEnd[c][s] \in {"fin_rst", "rst"}

\* The thread for c is at work on a request, or its turn at the mutex will
\* come without anybody's timeout having to pass.
Working(s, c) ==
  \/ spc[s][c] = "recv" /\ c2s[c][s] # <<>>
  \/ spc[s][c] = "put_write" /\ (c2s[c][s] # <<>> \/ Size(c, cur[s][c]) = 0)
  \/ spc[s][c] = "put_ack"
  \/ spc[s][c] = "get_ready" /\ (\/ c2s[c][s] # <<>> \/ s2c[c][s] # <<>>
                                \/ clientEnd[c][s] # "open")
Busy(s, c) ==
  \/ Working(s, c)
  \/ /\ spc[s][c] \in {"put_lock", "get_lock"}
     /\ lock[s] = None \/ Working(s, lock[s])
\* recv fails when the connection was reset and when its timeout of one
\* second passes: that happens when the server has nothing to do for this
\* client, and up to MaxSlow times before a busy server has answered.
RecvFailsNever(c, s) ==            \* a mutant: no SO_RCVTIMEO
  ReadsReset(c, s) /\ UNCHANGED env
RecvFails(c, s) ==
  /\ \/ /\ ~Arrived(c, s) /\ serverEnd[c][s] = "open"
        /\ IF Busy(s, c) THEN slow < MaxSlow /\ slow' = slow + 1
                         ELSE UNCHANGED slow
     \/ ReadsReset(c, s) /\ UNCHANGED slow
  /\ UNCHANGED <<clock, crashes, restarts, kills>>

Receive(c, s) == s2c' = [s2c EXCEPT ![c][s] = Tail(@)]

\* close of all sockets when the process ends: with unread bytes it resets.
CloseAll(c) ==
  /\ clientEnd' = [clientEnd EXCEPT ![c] =
       [s \in Server |-> IF Arrived(c, s) THEN "rst" ELSE "fin"]]
  /\ s2c' = [s2c EXCEPT ![c] = [s \in Server |-> <<>>]]

ClientSends(c, s, units) ==
  /\ serverEnd[c][s] # "rst"
  /\ c2s' = IF serverEnd[c][s] = "open"
            THEN [c2s EXCEPT ![c][s] = @ \o units] ELSE c2s
  /\ serverEnd' = IF serverEnd[c][s] = "fin"
                  THEN [serverEnd EXCEPT ![c][s] = "fin_rst"] ELSE serverEnd

Sigpipe(c, s) == serverEnd[c][s] \in {"fin_rst", "rst"}

Dies(c) ==                                           \* no handler, no message
  /\ cpc' = [cpc EXCEPT ![c] = "killed"]
  /\ CloseAll(c)
  /\ UNCHANGED <<arg, srv, pos, memory, c2s, serverEnd, server, hist>>

(* ------------------------------ initially ----------------------------- *)

Init ==
  /\ cpc = [c \in Client |-> "connect"]
  /\ arg = [c \in Client |-> 1]
  /\ srv = [c \in Client |-> 1]
  /\ pos = [c \in Client |-> 1]
  /\ live = [c \in Client |-> [s \in Server |-> FALSE]]
  /\ got = [c \in Client |-> "junk"]
  /\ local = [c \in Client |-> <<>>]
  /\ names = [c \in Client |-> {}]
  /\ ts = [c \in Client |-> 0]
  /\ result = [c \in Client |-> {}]
  /\ c2s = [c \in Client |-> [s \in Server |-> <<>>]]
  /\ s2c = [c \in Client |-> [s \in Server |-> <<>>]]
  /\ clientEnd = [c \in Client |-> [s \in Server |-> "open"]]
  /\ serverEnd = [c \in Client |-> [s \in Server |-> "open"]]
  /\ up = [s \in Server |-> TRUE]
  /\ lock = [s \in Server |-> None]
  /\ spc = [s \in Server |-> [c \in Client |-> "none"]]
  /\ cur = [s \in Server |-> [c \in Client |-> NoPath]]
  /\ disk = [s \in Server |-> [p \in Path |-> Absent]]
  /\ clock = 0 /\ slow = 0 /\ crashes = 0 /\ restarts = 0 /\ kills = 0
  /\ died = [s \in Server |-> FALSE]
  /\ eofAck = [c \in Client |-> FALSE]
  /\ base = [c \in Client |-> {}]

(* ----------------------- client: before the command ------------------- *)

\* One round of the loop over the configuration file.  Accepting the
\* connection starts its thread at the server (dfs.c:395-411).
Connect(c) ==
  /\ cpc[c] = "connect" /\ \A d \in After[c] : cpc[d] \notin Running
  /\ live' = [live EXCEPT ![c][srv[c]] = up[srv[c]]]
  /\ spc' = IF up[srv[c]] THEN [spc EXCEPT ![srv[c]][c] = "recv"] ELSE spc
  /\ IF srv[c] < N
       THEN srv' = [srv EXCEPT ![c] = @ + 1] /\ UNCHANGED cpc
       ELSE srv' = [srv EXCEPT ![c] = 1] /\ cpc' = [cpc EXCEPT ![c] = "dispatch"]
  /\ UNCHANGED <<arg, pos, got, local, names, ts, result, net, up, lock, cur,
                 disk, env, hist>>

Report(c, status) ==
  result' = [result EXCEPT ![c] = @ \cup
    {[arg |-> arg[c], file |-> F(c), status |-> status, parts |-> <<>>]}]

\* The puts of f that went through, every chunk acknowledged.
CompletePuts == {q \in File \X Stamp : \E c \in Client :
  /\ Job[c].cmd = "put" /\ ~eofAck[c] /\ ts[c] = q[2]
  /\ \E r \in result[c] : r.file = q[1] /\ r.status = "stored"}

\* The branches of main: a put wants every server and reads the clock.
PutRefused(c) ==
  /\ cpc[c] = "dispatch" /\ Job[c].cmd = "put"
  /\ \E s \in Server : ~live[c][s]
  /\ cpc' = [cpc EXCEPT ![c] = "exited"]
  /\ result' = [result EXCEPT ![c] = {[arg |-> i, file |-> Job[c].files[i],
       status |-> "refused", parts |-> <<>>] : i \in DOMAIN Job[c].files}]
  /\ CloseAll(c)
  /\ UNCHANGED <<arg, srv, pos, live, got, local, names, ts, c2s, serverEnd,
                 server, env, hist>>

PutStart(c) ==
  /\ cpc[c] = "dispatch" /\ Job[c].cmd = "put"
  /\ \A s \in Server : live[c][s]
  /\ \E t \in Stamp :
       /\ t = clock + 1 \/ (SameMicrosecond /\ t = clock)
       /\ ts' = [ts EXCEPT ![c] = t]
       /\ clock' = t
  /\ cpc' = [cpc EXCEPT ![c] = "put_send"]
  /\ UNCHANGED <<arg, srv, pos, live, got, local, names, result, net, server,
                 slow, crashes, restarts, kills, hist>>

GetStart(c) ==
  /\ cpc[c] = "dispatch" /\ Job[c].cmd = "get"
  /\ cpc' = [cpc EXCEPT ![c] = "get_query"]
  /\ base' = [base EXCEPT ![c] = CompletePuts]
  /\ UNCHANGED <<arg, srv, pos, memory, net, server, env, died, eofAck>>

ListStart(c) ==
  /\ cpc[c] = "dispatch" /\ Job[c].cmd = "list"
  /\ cpc' = [cpc EXCEPT ![c] = "list_query"]
  /\ base' = [base EXCEPT ![c] = CompletePuts]
  /\ UNCHANGED <<arg, srv, pos, memory, net, server, env, died, eofAck>>

(* ------------------------------ client: put --------------------------- *)

PutPathCoarse(c) ==                \* a mutant: the timestamp does not tell runs apart
  [file |-> F(c), chunk |-> Slot(HashOf[F(c)], srv[c], pos[c]), ts |-> 1]
PutPath(c) == [file |-> F(c), chunk |-> Slot(HashOf[F(c)], srv[c], pos[c]),
               ts |-> ts[c]]
NoMoreArgs(c) == arg[c] > Len(Job[c].files)

\* fopen of the local file fails: on to the next argument.
PutSkip(c) ==
  /\ cpc[c] = "put_send" /\ ~NoMoreArgs(c) /\ LocalSize[c][F(c)] < 0
  /\ arg' = [arg EXCEPT ![c] = @ + 1]
  /\ Report(c, "no file")
  /\ UNCHANGED <<cpc, srv, pos, live, got, local, names, ts, net, server, env, hist>>

\* send_chunk.  All servers are live in a put, so the tests of live_servers
\* around the table hold.  This send has no timeout: of a chunk that is too
\* big for the socket it returns when the thread reads the rest, and not
\* before.  While the rest is unread the run may be in send or in recv.
PutSend(c) ==
  /\ cpc[c] = "put_send" /\ ~NoMoreArgs(c) /\ LocalSize[c][F(c)] >= 0
  /\ ClientSends(c, srv[c], PutUnits(c, PutPath(c)))
  /\ cpc' = [cpc EXCEPT ![c] = "put_ack"]
  /\ UNCHANGED <<arg, srv, pos, memory, s2c, clientEnd, server, env, hist>>

PutSendDies(c) ==
  /\ cpc[c] = "put_send" /\ ~NoMoreArgs(c) /\ Sigpipe(c, srv[c])
  /\ Dies(c) /\ UNCHANGED env

\* To the second chunk of this server, the next server, the next file.
PutAdvance(c) ==
  /\ cpc' = [cpc EXCEPT ![c] = "put_send"]
  /\ IF pos[c] = 1
       THEN pos' = [pos EXCEPT ![c] = 2] /\ UNCHANGED <<arg, srv, result>>
       ELSE /\ pos' = [pos EXCEPT ![c] = 1]
            /\ IF srv[c] < N
                 THEN srv' = [srv EXCEPT ![c] = @ + 1] /\ UNCHANGED <<arg, result>>
                 ELSE /\ srv' = [srv EXCEPT ![c] = 1]
                      /\ arg' = [arg EXCEPT ![c] = @ + 1]
                      /\ Report(c, "stored")

PutAcked(c) ==
  /\ cpc[c] = "put_ack" /\ Arrived(c, srv[c])
  /\ Receive(c, srv[c])
  /\ PutAdvance(c)
  /\ UNCHANGED <<live, got, local, names, ts, c2s, clientEnd, serverEnd, server,
                 env, hist>>

\* recv returns 0, the test is for n < 0: it counts as the acknowledgement.
PutEof(c) ==
  /\ cpc[c] = "put_ack" /\ ReadsEof(c, srv[c])
  /\ PutAdvance(c)
  /\ eofAck' = [eofAck EXCEPT ![c] = TRUE]
  /\ UNCHANGED <<live, got, local, names, ts, net, server, env, died, base>>

\* "Server timeout", exit(0).
PutFails(c) ==
  /\ cpc[c] = "put_ack" /\ RecvFails(c, srv[c])
  /\ cpc' = [cpc EXCEPT ![c] = "exited"]
  /\ Report(c, "timeout")
  /\ CloseAll(c)
  /\ UNCHANGED <<arg, srv, pos, live, got, local, names, ts, c2s, serverEnd,
                 server, hist>>

(* ------------------------------ client: get --------------------------- *)

\* The inner loop over the servers: s is the next one to ask; there is none.
NextToAsk(c, s) == /\ srv[c] <= s /\ live[c][s]
                   /\ \A u \in Server : srv[c] <= u /\ u < s => ~live[c][u]
NobodyLeft(c) == \A s \in Server : srv[c] <= s => ~live[c][s]

\* chunk_query: ask the next live server for the chunk.
GetQuery(c) ==
  /\ cpc[c] = "get_query" /\ ~NoMoreArgs(c)
  /\ \E s \in Server :
       /\ NextToAsk(c, s)
       /\ ClientSends(c, s, <<[t |-> "get", file |-> F(c), chunk |-> pos[c]]>>)
       /\ srv' = [srv EXCEPT ![c] = s]
  /\ cpc' = [cpc EXCEPT ![c] = "get_size"]
  /\ UNCHANGED <<arg, pos, memory, s2c, clientEnd, server, env, hist>>

GetQueryDies(c) ==
  /\ cpc[c] = "get_query" /\ ~NoMoreArgs(c)
  /\ \E s \in Server : NextToAsk(c, s) /\ Sigpipe(c, s)
  /\ Dies(c) /\ UNCHANGED env

\* The next file argument: "wb" truncates its local file.
NextFile(c, status, parts) ==
  /\ result' = [result EXCEPT ![c] = @ \cup
       {[arg |-> arg[c], file |-> F(c), status |-> status, parts |-> parts]}]
  /\ arg' = [arg EXCEPT ![c] = @ + 1]
  /\ pos' = [pos EXCEPT ![c] = 1]
  /\ srv' = [srv EXCEPT ![c] = 1]
  /\ got' = [got EXCEPT ![c] = "junk"]
  /\ local' = [local EXCEPT ![c] = <<>>]
  /\ cpc' = [cpc EXCEPT ![c] = "get_query"]

\* To the next chunk, or success after the last, with parts as the file.
NextChunk(c, parts) ==
  IF pos[c] = N
  THEN NextFile(c, "success", parts)
  ELSE /\ pos' = [pos EXCEPT ![c] = @ + 1]
       /\ srv' = [srv EXCEPT ![c] = 1]
       /\ got' = [got EXCEPT ![c] = "junk"]
       /\ local' = [local EXCEPT ![c] = parts]
       /\ cpc' = [cpc EXCEPT ![c] = "get_query"]
       /\ UNCHANGED <<arg, result>>

GetMissingGoesOn(c) ==             \* a mutant: no break
  /\ cpc[c] = "get_query" /\ ~NoMoreArgs(c) /\ NobodyLeft(c)
  /\ NextChunk(c, local[c])
  /\ UNCHANGED <<live, names, ts, net, server, env, hist>>

\* No live server left to ask.  When none was asked at all the slot of
\* chunks_received holds whatever was on the stack, a 1 or not.
GetMissing(c) ==
  /\ cpc[c] = "get_query" /\ ~NoMoreArgs(c) /\ NobodyLeft(c)
  /\ NextFile(c, "incomplete", <<>>)
  /\ UNCHANGED <<live, names, ts, net, server, env, hist>>

GetJunk(c) ==
  /\ cpc[c] = "get_query" /\ ~NoMoreArgs(c) /\ NobodyLeft(c)
  /\ got[c] = "junk"
  /\ NextChunk(c, local[c])
  /\ UNCHANGED <<live, names, ts, net, server, env, hist>>

\* The answer is a size above 0: write_chunk asks for the bytes.
GetReady(c) ==
  LET s == srv[c] IN
  /\ cpc[c] = "get_size" /\ Arrived(c, s)
  /\ Head(s2c[c][s]).t = "size" /\ Head(s2c[c][s]).some
  /\ Receive(c, s)
  /\ ClientSends(c, s, <<[t |-> "ready"]>>)
  /\ cpc' = [cpc EXCEPT ![c] = "get_data"]
  /\ UNCHANGED <<arg, srv, pos, memory, clientEnd, server, env, hist>>

GetNotStops(c) ==                  \* a mutant: the first "Not Found" ends the search
  LET s == srv[c] IN
  /\ cpc[c] = "get_size" /\ Arrived(c, s)
  /\ Head(s2c[c][s]).t = "size" => ~Head(s2c[c][s]).some
  /\ Receive(c, s)
  /\ got' = [got EXCEPT ![c] = "no"]
  /\ srv' = [srv EXCEPT ![c] = N + 1]
  /\ cpc' = [cpc EXCEPT ![c] = "get_query"]
  /\ UNCHANGED <<arg, pos, live, local, names, ts, result, c2s, clientEnd,
                 serverEnd, server, env, hist>>

\* "Not Found", a size of 0, or 0 bytes (atoi of the empty buffer is 0).
GetNot(c) ==
  LET s == srv[c] IN
  /\ cpc[c] = "get_size"
  /\ \/ /\ Arrived(c, s)
        /\ Head(s2c[c][s]).t = "size" => ~Head(s2c[c][s]).some
        /\ Receive(c, s)
     \/ ReadsEof(c, s) /\ UNCHANGED s2c
  /\ got' = [got EXCEPT ![c] = "no"]
  /\ srv' = [srv EXCEPT ![c] = @ + 1]
  /\ cpc' = [cpc EXCEPT ![c] = "get_query"]
  /\ UNCHANGED <<arg, pos, live, local, names, ts, result, c2s, clientEnd,
                 serverEnd, server, env, hist>>

GetFailsAsksAgain(c) ==            \* a mutant: live_servers is not reset
  /\ cpc[c] = "get_size" /\ RecvFails(c, srv[c])
  /\ got' = [got EXCEPT ![c] = "no"]
  /\ srv' = [srv EXCEPT ![c] = @ + 1]
  /\ cpc' = [cpc EXCEPT ![c] = "get_query"]
  /\ UNCHANGED <<arg, pos, live, local, names, ts, result, net, server, hist>>

GetFailsStops(c) ==                \* a mutant: the first timeout ends the search
  /\ cpc[c] = "get_size" /\ RecvFails(c, srv[c])
  /\ live' = [live EXCEPT ![c][srv[c]] = FALSE]
  /\ got' = [got EXCEPT ![c] = "no"]
  /\ srv' = [srv EXCEPT ![c] = N + 1]
  /\ cpc' = [cpc EXCEPT ![c] = "get_query"]
  /\ UNCHANGED <<arg, pos, local, names, ts, result, net, server, hist>>

\* "server timeout": this server is not asked again in this run.
GetFails(c) ==
  LET s == srv[c] IN
  /\ cpc[c] = "get_size" /\ RecvFails(c, s)
  /\ live' = [live EXCEPT ![c][s] = FALSE]
  /\ got' = [got EXCEPT ![c] = "no"]
  /\ srv' = [srv EXCEPT ![c] = @ + 1]
  /\ cpc' = [cpc EXCEPT ![c] = "get_query"]
  /\ UNCHANGED <<arg, pos, local, names, ts, result, net, server, hist>>

GetData(c) ==
  LET s == srv[c]
      piece == Head(s2c[c][s]) IN
  /\ cpc[c] = "get_data" /\ Arrived(c, s) /\ piece.t = "data"
  /\ Receive(c, s)
  /\ NextChunk(c, Append(local[c], [path |-> piece.path, ver |-> piece.ver,
                                    st |-> piece.st]))
  /\ UNCHANGED <<live, names, ts, c2s, clientEnd, serverEnd, server, env, hist>>

\* write_chunk adds the -1 of a failed recv to its count and hands it to
\* fwrite as a size: the process dies of it, or goes on and, one byte short,
\* reads for ever.  After 0 bytes it reads for ever too.
GetDataFails(c) ==
  /\ cpc[c] = "get_data" /\ RecvFails(c, srv[c])
  /\ Dies(c)

GetDataForEver(c) ==
  /\ cpc[c] = "get_data"
  /\ RecvFails(c, srv[c]) \/ (ReadsEof(c, srv[c]) /\ UNCHANGED env)
  /\ cpc' = [cpc EXCEPT ![c] = "wedged"]
  /\ UNCHANGED <<arg, srv, pos, memory, net, server, hist>>


(* ----------------------- client: list, and the end -------------------- *)

ListQuery(c) ==
  /\ cpc[c] = "list_query"
  /\ \E s \in Server : /\ NextToAsk(c, s)
                       /\ ClientSends(c, s, <<[t |-> "list"]>>)
                       /\ srv' = [srv EXCEPT ![c] = s]
  /\ cpc' = [cpc EXCEPT ![c] = "list_names"]
  /\ UNCHANGED <<arg, pos, memory, s2c, clientEnd, server, env, hist>>

ListOverwrites(c) ==               \* a mutant: each answer replaces the last
  LET s == srv[c] IN
  /\ cpc[c] = "list_names"
  /\ \/ /\ Arrived(c, s) /\ Receive(c, s)
        /\ names' = [names EXCEPT ![c] = Head(s2c[c][s]).names]
     \/ ReadsEof(c, s) /\ names' = [names EXCEPT ![c] = {}] /\ UNCHANGED s2c
  /\ srv' = [srv EXCEPT ![c] = @ + 1]
  /\ cpc' = [cpc EXCEPT ![c] = "list_query"]
  /\ UNCHANGED <<arg, pos, live, got, local, ts, result, c2s, clientEnd,
                 serverEnd, server, env, hist>>

ListAnswered(c) ==
  LET s == srv[c] IN
  /\ cpc[c] = "list_names"
  /\ \/ /\ Arrived(c, s) /\ Head(s2c[c][s]).t = "names" /\ Receive(c, s)
        /\ names' = [names EXCEPT ![c] = @ \cup Head(s2c[c][s]).names]
     \/ ReadsEof(c, s) /\ UNCHANGED <<names, s2c>>
  /\ srv' = [srv EXCEPT ![c] = @ + 1]
  /\ cpc' = [cpc EXCEPT ![c] = "list_query"]
  /\ UNCHANGED <<arg, pos, live, got, local, ts, result, c2s, clientEnd,
                 serverEnd, server, env, hist>>

\* A failed recv gives fwrite the size -1: the run dies or carries on.
ListFails(c) ==
  /\ cpc[c] = "list_names" /\ RecvFails(c, srv[c])
  /\ srv' = [srv EXCEPT ![c] = @ + 1]
  /\ cpc' = [cpc EXCEPT ![c] = "list_query"]
  /\ UNCHANGED <<arg, pos, memory, net, server, hist>>

ListFailsDies(c) ==
  /\ cpc[c] = "list_names" /\ RecvFails(c, srv[c])
  /\ Dies(c)

ListShowAny(c) ==                  \* a mutant: the chunks are not counted
  /\ cpc[c] = "list_query" /\ NobodyLeft(c)
  /\ result' = [result EXCEPT ![c] = {[arg |-> 0, file |-> f,
       status |-> "complete", parts |-> <<>>] : f \in {p.file : p \in names[c]}}]
  /\ cpc' = [cpc EXCEPT ![c] = "done"]
  /\ UNCHANGED <<arg, srv, pos, live, got, local, names, ts, net, server, env, hist>>

\* The pipeline: without the timestamps, sorted and without duplicates, the
\* names file-chunk are counted per file; 4 of them make it complete.
ListShow(c) ==
  /\ cpc[c] = "list_query" /\ NobodyLeft(c)
  /\ LET listed == {p.file : p \in names[c]}
         full(f) == \A k \in Chunk : \E p \in names[c] : p.file = f /\ p.chunk = k
     IN result' = [result EXCEPT ![c] = {[arg |-> 0, file |-> f,
          status |-> IF full(f) THEN "complete" ELSE "[Incomplete]",
          parts |-> <<>>] : f \in listed}]
  /\ cpc' = [cpc EXCEPT ![c] = "done"]
  /\ UNCHANGED <<arg, srv, pos, live, got, local, names, ts, net, server, env, hist>>

\* "put done" (get, ls) to the live servers in turn and return from main; a
\* SIGPIPE at the server cut ends the loop early.
Finish(c) ==
  /\ \/ cpc[c] = "done"
     \/ cpc[c] \in {"put_send", "get_query"} /\ NoMoreArgs(c)
  /\ \E cut \in 1..(N+1) :
       /\ cut <= N => live[c][cut] /\ Sigpipe(c, cut)
       /\ \A s \in 1..(cut-1) : live[c][s] => serverEnd[c][s] # "rst"
       /\ c2s' = [c2s EXCEPT ![c] = [s \in Server |->
            IF s < cut /\ live[c][s] /\ serverEnd[c][s] = "open"
            THEN Append(c2s[c][s], [t |-> "done"]) ELSE c2s[c][s]]]
  /\ cpc' = [cpc EXCEPT ![c] = "exited"]
  /\ CloseAll(c)
  /\ UNCHANGED <<arg, srv, pos, memory, serverEnd, server, env, hist>>

\* The user kills the run.  What send had not yet handed to the kernel of
\* the chunk it was sending is not sent.
Kill(c) ==
  /\ cpc[c] \in Running \cup {"wedged"} /\ kills < MaxKill
  /\ kills' = kills + 1
  /\ cpc' = [cpc EXCEPT ![c] = "killed"]
  /\ CloseAll(c)
  /\ \/ UNCHANGED c2s
     \/ LET q == c2s[c][srv[c]] IN
          /\ cpc[c] = "put_ack" /\ q # <<>> /\ q[Len(q)].t = "rest"
          /\ c2s' = [c2s EXCEPT ![c][srv[c]] = SubSeq(q, 1, Len(q) - 1)]
  /\ UNCHANGED <<arg, srv, pos, memory, serverEnd, server,
                 clock, slow, crashes, restarts, hist>>

(* --------------------------- server: its threads ---------------------- *)

clientSide == <<progress, memory, env, hist>>

Takes(s, c) == c2s' = [c2s EXCEPT ![c][s] = Tail(@)]
Goto(s, c, l) == spc' = [spc EXCEPT ![s][c] = l]
Next_(s, c, t) == c2s[c][s] # <<>> /\ Head(c2s[c][s]).t = t

\* send to the client; to one that has gone it may raise SIGPIPE, see
\* ServerDies below.  Nothing may be sent to anybody.
Reply(s, c, units) ==
  /\ clientEnd[c][s] = "rst" => units = <<>>
  /\ s2c' = IF clientEnd[c][s] = "open"
            THEN [s2c EXCEPT ![c][s] = @ \o units] ELSE s2c
  /\ clientEnd' = IF clientEnd[c][s] = "fin" /\ units # <<>>
                  THEN [clientEnd EXCEPT ![c][s] = "fin_rst"] ELSE clientEnd

RecvPut(s, c) ==
  /\ spc[s][c] = "recv" /\ Next_(s, c, "put")
  /\ Takes(s, c)
  /\ cur' = [cur EXCEPT ![s][c] = Head(c2s[c][s]).path]
  /\ Goto(s, c, "put_lock")
  /\ UNCHANGED <<clientSide, s2c, clientEnd, serverEnd, up, lock, disk>>

PutOpenNoLock(s, c) ==             \* a mutant: the mutex is not waited for
  /\ spc[s][c] = "put_lock"
  /\ lock' = [lock EXCEPT ![s] = c]
  /\ disk' = [disk EXCEPT ![s][cur[s][c]] = [ver |-> c, st |-> "part"]]
  /\ Goto(s, c, "put_write")
  /\ UNCHANGED <<clientSide, net, up, cur>>

\* Under the mutex: fopen "wb" and the bytes that came with the header.
PutOpen(s, c) ==
  /\ spc[s][c] = "put_lock" /\ lock[s] = None
  /\ lock' = [lock EXCEPT ![s] = c]
  /\ disk' = [disk EXCEPT ![s][cur[s][c]] = [ver |-> c, st |-> "part"]]
  /\ Goto(s, c, "put_write")
  /\ UNCHANGED <<clientSide, net, up, cur>>

PutCloseEarly(s, c) ==             \* a mutant: no loop for the rest of the bytes
  /\ spc[s][c] = "put_write"
  /\ disk' = [disk EXCEPT ![s][cur[s][c]] = [ver |-> @.ver, st |-> "whole"]]
  /\ lock' = [lock EXCEPT ![s] = None]
  /\ Goto(s, c, "put_ack")
  /\ UNCHANGED <<clientSide, net, up, cur>>

PutCloseNoFlush(s, c) ==           \* a mutant: no fclose before the ack
  /\ spc[s][c] = "put_write" /\ Next_(s, c, "rest") /\ Takes(s, c)
  /\ lock' = [lock EXCEPT ![s] = None]
  /\ Goto(s, c, "put_ack")
  /\ UNCHANGED <<clientSide, s2c, clientEnd, serverEnd, up, cur, disk>>

\* The rest of the bytes, fclose, unlock.  When the rest never comes recv
\* returns 0 without end: no step, and the mutex stays with this thread.
PutClose(s, c) ==
  /\ spc[s][c] = "put_write"
  /\ IF Size(c, cur[s][c]) > 0
     THEN Next_(s, c, "rest") /\ Takes(s, c) ELSE UNCHANGED c2s
  /\ disk' = [disk EXCEPT ![s][cur[s][c]] = [ver |-> @.ver, st |-> "whole"]]
  /\ lock' = [lock EXCEPT ![s] = None]
  /\ Goto(s, c, "put_ack")
  /\ UNCHANGED <<clientSide, s2c, clientEnd, serverEnd, up, cur>>

PutAck(s, c) ==
  /\ spc[s][c] = "put_ack"
  /\ Reply(s, c, <<[t |-> "ack"]>>)
  /\ Goto(s, c, "recv")
  /\ cur' = [cur EXCEPT ![s][c] = NoPath]
  /\ UNCHANGED <<clientSide, c2s, serverEnd, up, lock, disk>>

\* ls | grep file-chunk | sort -r: the last of the names that match.
Matching(s, f, k) == {p \in Path : /\ disk[s][p] # Absent
                                   /\ p.file = f \/ <<f, p.file>> \in Alias
                                   /\ p.chunk = k}
SortsAfter(p, q) == \/ NameRank[p.file] > NameRank[q.file]
                    \/ NameRank[p.file] = NameRank[q.file] /\ p.ts >= q.ts
Oldest(s, f, k) ==                 \* a mutant: sort without -r
  {p \in Matching(s, f, k) : \A q \in Matching(s, f, k) : SortsAfter(q, p)}
MostRecent(s, f, k) ==
  {p \in Matching(s, f, k) : \A q \in Matching(s, f, k) : SortsAfter(p, q)}

\* The directory is read without the mutex, which comes after.
RecvGet(s, c) ==
  /\ spc[s][c] = "recv" /\ Next_(s, c, "get")
  /\ \E p \in MostRecent(s, Head(c2s[c][s]).file, Head(c2s[c][s]).chunk) :
       cur' = [cur EXCEPT ![s][c] = p]
  /\ Takes(s, c)
  /\ Goto(s, c, "get_lock")
  /\ UNCHANGED <<clientSide, s2c, clientEnd, serverEnd, up, lock, disk>>

RecvGetNotFound(s, c) ==
  /\ spc[s][c] = "recv" /\ Next_(s, c, "get")
  /\ Matching(s, Head(c2s[c][s]).file, Head(c2s[c][s]).chunk) = {}
  /\ Takes(s, c)
  /\ Reply(s, c, <<[t |-> "not found"]>>)
  /\ UNCHANGED <<clientSide, serverEnd, server>>

\* The size of the file p of server s is more than 0.
HasBytes(s, p) == \/ disk[s][p].st = "part"
                  \/ disk[s][p].st = "whole" /\ Size(disk[s][p].ver, p) > 0

GetOpenNoLock(s, c) ==             \* a mutant: the mutex is not waited for
  /\ spc[s][c] = "get_lock"
  /\ lock' = [lock EXCEPT ![s] = c]
  /\ Reply(s, c, <<[t |-> "size", some |-> HasBytes(s, cur[s][c])]>>)
  /\ Goto(s, c, "get_ready")
  /\ UNCHANGED <<clientSide, c2s, serverEnd, up, cur, disk>>

\* Under the mutex: fopen, the size of the file, send it.
GetOpen(s, c) ==
  /\ spc[s][c] = "get_lock" /\ lock[s] = None
  /\ lock' = [lock EXCEPT ![s] = c]
  /\ Reply(s, c, <<[t |-> "size", some |-> HasBytes(s, cur[s][c])]>>)
  /\ Goto(s, c, "get_ready")
  /\ UNCHANGED <<clientSide, c2s, serverEnd, up, cur, disk>>

GetSendSilent(s, c) ==             \* a mutant: the bytes are not sent
  /\ spc[s][c] = "get_ready" /\ c2s[c][s] # <<>> /\ Takes(s, c)
  /\ lock' = [lock EXCEPT ![s] = None]
  /\ Goto(s, c, "recv")
  /\ cur' = [cur EXCEPT ![s][c] = NoPath]
  /\ UNCHANGED <<clientSide, s2c, clientEnd, serverEnd, up, disk>>

GetSendKeepsLock(s, c) ==          \* a mutant: no unlock
  LET p == cur[s][c] IN
  /\ spc[s][c] = "get_ready" /\ c2s[c][s] # <<>> /\ Takes(s, c)
  /\ Reply(s, c, <<[t |-> "data", path |-> p, ver |-> disk[s][p].ver,
                    st |-> disk[s][p].st]>>)
  /\ Goto(s, c, "recv")
  /\ cur' = [cur EXCEPT ![s][c] = NoPath]
  /\ UNCHANGED <<clientSide, serverEnd, up, lock, disk>>

\* Still under it: recv of "Ready", which takes whatever the client sent, or
\* its end, for it; then read, close, unlock and send the bytes, if any.
GetSend(s, c) ==
  LET p == cur[s][c] IN
  /\ spc[s][c] = "get_ready"
  /\ \/ c2s[c][s] # <<>> /\ Takes(s, c)
     \/ c2s[c][s] = <<>> /\ clientEnd[c][s] # "open" /\ UNCHANGED c2s
  /\ lock' = [lock EXCEPT ![s] = None]
  /\ Reply(s, c, IF HasBytes(s, p)
                 THEN <<[t |-> "data", path |-> p, ver |-> disk[s][p].ver,
                         st |-> disk[s][p].st]>>
                 ELSE <<>>)
  /\ Goto(s, c, "recv")
  /\ cur' = [cur EXCEPT ![s][c] = NoPath]
  /\ UNCHANGED <<clientSide, serverEnd, up, disk>>

\* readdir without the mutex; of an empty directory nothing is sent.
RecvList(s, c) ==
  LET all == {p \in Path : disk[s][p] # Absent} IN
  /\ spc[s][c] = "recv" /\ Next_(s, c, "list")
  /\ Takes(s, c)
  /\ Reply(s, c, IF all = {} THEN <<>> ELSE <<[t |-> "names", names |-> all]>>)
  /\ UNCHANGED <<clientSide, serverEnd, server>>

\* "put done" and its like, or the client's end: the thread returns.
RecvDone(s, c) ==
  /\ spc[s][c] = "recv"
  /\ \/ Next_(s, c, "done") /\ Takes(s, c)
     \/ c2s[c][s] = <<>> /\ clientEnd[c][s] \in {"fin", "fin_rst"} /\ UNCHANGED c2s
  /\ Goto(s, c, "ended")
  /\ UNCHANGED <<clientSide, s2c, clientEnd, serverEnd, up, lock, cur, disk>>

(* ----------------------- server: the whole process -------------------- *)

\* Every thread goes, and with them the mutex and the connections; the
\* directory stays, with the file that was being written torn: its bytes
\* may not have left the buffer of the FILE.
ServerDies(s) ==
  /\ up[s]
  /\ up' = [up EXCEPT ![s] = FALSE]
  /\ lock' = [lock EXCEPT ![s] = None]
  /\ spc' = [spc EXCEPT ![s] = [c \in Client |-> "none"]]
  /\ cur' = [cur EXCEPT ![s] = [c \in Client |-> NoPath]]
  /\ \E torn \in {"empty", "part"} :
       disk' = [disk EXCEPT ![s] = [p \in Path |->
         IF \E c \in Client : spc[s][c] = "put_write" /\ cur[s][c] = p
         THEN [ver |-> disk[s][p].ver, st |-> torn] ELSE disk[s][p]]]
  /\ serverEnd' = [c \in Client |-> [serverEnd[c] EXCEPT ![s] =
       IF spc[s][c] \in {"none", "ended"} THEN @
       ELSE IF c2s[c][s] = <<>> THEN "fin" ELSE "rst"]]
  /\ c2s' = [c \in Client |-> [c2s[c] EXCEPT ![s] = <<>>]]
  /\ died' = [died EXCEPT ![s] = TRUE]
  /\ UNCHANGED <<progress, memory, s2c, clientEnd, clock, slow, restarts, kills,
                 eofAck, base>>

Crash(s) == /\ crashes < MaxCrash
            /\ crashes' = crashes + 1
            /\ ServerDies(s)

\* A failed recv in the loop of one thread calls error(), which exits.
RecvError(s, c) ==
  /\ spc[s][c] = "recv" /\ c2s[c][s] = <<>>
  /\ clientEnd[c][s] \in {"fin_rst", "rst"}
  /\ ServerDies(s) /\ UNCHANGED crashes

\* The thread is at a send to a client that has reset the connection; a send
\* of nothing may go through or not.
SendSigpipe(s, c) ==
  /\ clientEnd[c][s] \in {"fin_rst", "rst"}
  /\ \/ spc[s][c] = "put_ack"
     \/ spc[s][c] = "get_lock" /\ lock[s] = None
     \/ spc[s][c] = "get_ready"
     \/ spc[s][c] = "recv" /\ Next_(s, c, "list")
     \/ /\ spc[s][c] = "recv" /\ Next_(s, c, "get")
        /\ Matching(s, Head(c2s[c][s]).file, Head(c2s[c][s]).chunk) = {}
  /\ ServerDies(s) /\ UNCHANGED crashes

\* The operator starts it again on the same directory.
Restart(s) ==
  /\ ~up[s] /\ restarts < MaxRestart
  /\ restarts' = restarts + 1
  /\ up' = [up EXCEPT ![s] = TRUE]
  /\ UNCHANGED <<progress, memory, net, lock, spc, cur, disk, clock, slow,
                 crashes, kills, hist>>

(* ------------------------------ next state ---------------------------- *)

ClientStep(c) ==
  \/ Connect(c) \/ PutRefused(c) \/ PutStart(c) \/ GetStart(c) \/ ListStart(c)
  \/ PutSkip(c) \/ PutSend(c) \/ PutSendDies(c) \/ PutAcked(c) \/ PutEof(c)
  \/ PutFails(c)
  \/ GetQuery(c) \/ GetQueryDies(c) \/ GetMissing(c) \/ GetJunk(c)
  \/ GetReady(c) \/ GetNot(c) \/ GetFails(c) \/ GetData(c)
  \/ GetDataFails(c) \/ GetDataForEver(c)
  \/ ListQuery(c) \/ ListAnswered(c) \/ ListFails(c) \/ ListFailsDies(c)
  \/ ListShow(c) \/ Finish(c)

ThreadStep(s, c) ==
  \/ RecvPut(s, c) \/ PutOpen(s, c) \/ PutClose(s, c) \/ PutAck(s, c)
  \/ RecvGet(s, c) \/ RecvGetNotFound(s, c) \/ GetOpen(s, c) \/ GetSend(s, c)
  \/ RecvList(s, c) \/ RecvDone(s, c) \/ RecvError(s, c) \/ SendSigpipe(s, c)

Next ==
  \/ \E c \in Client : ClientStep(c) \/ Kill(c)
  \/ \E s \in Server : Crash(s) \/ Restart(s)
  \/ \E s \in Server, c \in Client : ThreadStep(s, c)

Spec == Init /\ [][Next]_vars

\* A put may still be in the send of its chunk.
MayBeSending(c) == cpc[c] = "put_ack" /\ \E i \in DOMAIN c2s[c][srv[c]] :
                                            c2s[c][srv[c]][i].t = "rest"

\* The processes run: a client that can take a step takes one, its receive
\* timeout included, unless it may be in a send that waits; and so does every
\* thread of a server.  Nothing makes the mutex fair, and nobody has to kill,
\* crash or restart anything.
Fairness == /\ \A c \in Client : WF_vars(~MayBeSending(c) /\ ClientStep(c))
            /\ \A s \in Server, c \in Client : WF_vars(ThreadStep(s, c))
FairSpec == Spec /\ Fairness

(* ------------------------------ properties ---------------------------- *)

C2S == [t : {"put"}, path : Path] \cup [t : {"rest", "ready", "list", "done"}]
         \cup [t : {"get"}, file : File, chunk : Chunk]
S2C == [t : {"ack", "not found"}] \cup [t : {"size"}, some : BOOLEAN]
         \cup [t : {"names"}, names : SUBSET Path]
         \cup [t : {"data"}, path : Path, ver : Client \cup {None},
               st : {"empty", "part", "whole", "absent"}]
Piece == [path : Path, ver : Client \cup {None},
          st : {"empty", "part", "whole", "absent"}]
Outcome == [arg : Nat, file : File, parts : Seq(Piece),
            status : {"refused", "no file", "stored", "timeout", "success",
                      "incomplete", "complete", "[Incomplete]"}]

ClientType ==
  /\ cpc \in [Client -> ClientStates]
  /\ arg \in [Client -> Nat]
  /\ srv \in [Client -> 1..(N+1)]
  /\ pos \in [Client -> Chunk]
MemoryType ==
  /\ live \in [Client -> [Server -> BOOLEAN]]
  /\ got \in [Client -> {"junk", "no"}]
  /\ local \in [Client -> Seq(Piece)]
  /\ names \in [Client -> SUBSET Path]
  /\ ts \in [Client -> Stamp \cup {0}]
  /\ result \in [Client -> SUBSET Outcome]
NetType ==
  /\ c2s \in [Client -> [Server -> Seq(C2S)]]
  /\ s2c \in [Client -> [Server -> Seq(S2C)]]
  /\ clientEnd \in [Client -> [Server -> End]]
  /\ serverEnd \in [Client -> [Server -> End]]
ServerType ==
  /\ up \in [Server -> BOOLEAN]
  /\ lock \in [Server -> Client \cup {None}]
  /\ spc \in [Server -> [Client -> ThreadStates]]
  /\ cur \in [Server -> [Client -> Path \cup {NoPath}]]
  /\ disk \in [Server -> [Path -> Present \cup {Absent}]]
EnvType ==
  /\ clock \in 0..MaxStamp /\ slow \in 0..MaxSlow /\ crashes \in 0..MaxCrash
  /\ restarts \in 0..MaxRestart /\ kills \in 0..MaxKill
HistType ==
  /\ died \in [Server -> BOOLEAN]
  /\ eofAck \in [Client -> BOOLEAN]
  /\ base \in [Client -> SUBSET (File \X Stamp)]

\* Every variable keeps its type.
TypeOK == /\ ClientType /\ MemoryType /\ NetType
          /\ ServerType /\ EnvType /\ HistType

Outcomes(c, status) == {r \in result[c] : r.status = status}
Gets == {c \in Client : Job[c].cmd = "get"}
Puts == {c \in Client : Job[c].cmd = "put"}

\* file_lock does what it is for: only the thread that holds it has a chunk
\* file open, and while one is half written the thread writing it does.
MutualExclusion ==
  \A s \in Server, c \in Client :
    lock[s] = c <=> spc[s][c] \in {"put_write", "get_ready"}

\* While a server process lives no reader is given a chunk that is still
\* being written, although the directory is searched without the mutex and
\* the newest name found there may be that of a file under construction.
NoTornRead ==
  \A s \in Server, c \in Client :
    spc[s][c] = "get_ready" /\ ~died[s] => disk[s][cur[s][c]].st = "whole"

\* What was acknowledged is stored: after a put whose chunks were all
\* acknowledged, both holders of every chunk have it, whole and with that
\* put's bytes, through every crash, restart, kill and later put.
AckedIsStored ==
  \A c \in Puts : ~eofAck[c] => \A r \in Outcomes(c, "stored") : \A k \in Chunk :
    \A s \in Holders(HashOf[r.file], k) :
      disk[s][[file |-> r.file, chunk |-> k, ts |-> ts[c]]]
        = [ver |-> c, st |-> "whole"]

\* No stale reads: a get that began after a put of the file was complete
\* writes no chunk older than that put's, whichever servers answer it and
\* whatever other puts and failures go on meanwhile.
NoStaleChunk ==
  \A c \in Gets : \A r \in Outcomes(c, "success") : \A q \in base[c] :
    q[1] = r.file => \A i \in DOMAIN r.parts : r.parts[i].path.ts >= q[2]

\* A get that says success although some server answered has written the
\* chunks 1..N in their order.
FileInOrder ==
  \A c \in Gets : \A r \in Outcomes(c, "success") :
    (\E s \in Server : live[c][s]) =>
      /\ Len(r.parts) = N
      /\ \A i \in 1..N : r.parts[i].path.chunk = i

\* A server cannot give a run chunk k of f: the run could not connect to it,
\* gave up waiting for it or saw it end, or the server has a file of size 0
\* for the chunk, left by a crash or a put of fewer than N bytes.
CannotGive(c, s, f, k) ==
  \/ ~live[c][s] \/ serverEnd[c][s] # "open"
  \/ \E p \in Path : /\ p.file = f /\ p.chunk = k
                     /\ disk[s][p] # Absent /\ ~HasBytes(s, p)

\* Availability: a get that began after a put of the file was complete says
\* incomplete only if neither holder of some chunk can give it.
IncompleteOnlyIfCut ==
  \A c \in Gets : \A r \in Outcomes(c, "incomplete") :
    (\E q \in base[c] : q[1] = r.file) =>
      \E k \in Chunk : \A s \in Holders(HashOf[r.file], k) : CannotGive(c, s, r.file, k)

\* The two sides never lose step while the server lives, although a client
\* may give up in the middle: a thread back in its loop finds a command
\* there, and one waiting for "Ready" finds that.
InStep ==
  \A s \in Server, c \in Client : ~died[s] /\ c2s[c][s] # <<>> =>
    /\ spc[s][c] = "recv" => Head(c2s[c][s]).t \in {"put", "get", "list", "done"}
    /\ spc[s][c] = "get_ready" => Head(c2s[c][s]).t = "ready"

\* A client takes every answer for what it is: what it reads next answers
\* what it sent last, and the bytes it writes are those of the chunk it
\* wants, however late an answer comes and through every failure.
Answer == [put_ack |-> {"ack"}, get_size |-> {"size", "not found"},
           get_data |-> {"data"}, list_names |-> {"names"}]
AnswersMatch ==
  \A c \in Client : cpc[c] \in DOMAIN Answer /\ Arrived(c, srv[c]) =>
    LET m == Head(s2c[c][srv[c]]) IN
      /\ m.t \in Answer[cpc[c]]
      /\ m.t = "data" => m.path.chunk = pos[c]

\* A list that began after a put of the file was complete shows it complete
\* unless neither holder of some chunk answered.  (Servers that are not slow.)
ListShowsStored ==
  \A c \in Client : Job[c].cmd = "list" /\ cpc[c] = "exited" =>
    \A q \in base[c] :
      \/ \E r \in Outcomes(c, "complete") : r.file = q[1]
      \/ \E k \in Chunk : \A s \in Holders(HashOf[q[1]], k) :
           ~live[c][s] \/ serverEnd[c][s] # "open"

\* What list calls complete is there: every chunk of the file is on some
\* server, under one timestamp or another.
ListIsHonest ==
  \A c \in Client : \A r \in Outcomes(c, "complete") : \A k \in Chunk :
    \E s \in Server, p \in Path :
      p.file = r.file /\ p.chunk = k /\ disk[s][p] # Absent

Ended(c) == cpc[c] \in {"exited", "killed"}

\* c is in the send of a chunk, and its thread waits for the mutex, which the
\* thread of a run that was killed in the middle of a chunk never gives back.
KeptOut(c) ==
  LET s == srv[c] IN
  /\ MayBeSending(c) /\ spc[s][c] = "put_lock"
  /\ \E d \in Client : lock[s] = d /\ spc[s][d] = "put_write" /\ cpc[d] = "killed"

\* Every list ends; and so does every put, unless it is kept in a send, the
\* one call without a timeout, by a run that was killed in its own.  No run
\* that lives and no crash keeps it.  (Without gets.)
PutsAndListsEnd == \A c \in Client \ Gets : <>Ended(c) \/ <>[]KeptOut(c)

\* Every run ends, gets included.
AllEnd == <>(\A c \in Client : Ended(c))

\* No thread keeps the mutex for ever.
MutexReleased == \A s \in Server : []<>(lock[s] = None)

(* What comments say, and the program does not do.                         *)

\* dfs.c:218: the newest chunk is looked for so that different contents put
\* under one name do not mix.  A get that began when no put was under way
\* writes the bytes of one put.
OneVersion ==
  \A c \in Gets : \A r \in Outcomes(c, "success") :
    \A i, j \in DOMAIN r.parts : r.parts[i].ver = r.parts[j].ver
=============================================================================
