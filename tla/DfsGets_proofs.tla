--------------------------- MODULE DfsGets_proofs ---------------------------
(***************************************************************************)
(* What a get is answered, for any number of servers, clients and files,   *)
(* with servers that die and start again and answers that come too late.   *)
(***************************************************************************)
EXTENDS DfsPuts_proofs

(* --------------------- what a server says to whom ----------------------- *)

RepliesTo(c) == {m \in S2C : m.t \in
  IF Job[c].cmd = "put" THEN {"ack"}
  ELSE IF Job[c].cmd = "get" THEN {"size", "not found", "data"} ELSE {"names"}}
RepliesKept == \A c \in Client : s2c[c] \in [Server -> Seq(RepliesTo(c))]

(* ------------------------ the connections of a get ---------------------- *)

\* The chunk that a get is after.  Where grep takes one name for another it
\* may be that of another file.
Wanted(c, p) == p.chunk = pos[c] /\ (Alias = {} => p.file = F(c))

\* The thread of c waits for a "Ready" that will not come, of a file of
\* size 0; it has nothing to send when it takes something else for it.
Stale(c, s) == spc[s][c] = "get_ready" /\ ~HasBytes(s, cur[s][c])
Free(c, s) == AtRest(c, s) \/ Stale(c, s)
Quiet(c, s) == c2s[c][s] = <<>> /\ s2c[c][s] = <<>> /\ Free(c, s)

Request(c) == [t |-> "get", file |-> F(c), chunk |-> pos[c]]
Ready == [t |-> "ready"]
NotFound == [t |-> "not found"]

\* Somewhere between the request and the answer, or one of them is lost.
Asking(c, s) ==
  \/ Quiet(c, s)
  \/ c2s[c][s] = <<Request(c)>> /\ s2c[c][s] = <<>> /\ Free(c, s)
  \/ /\ c2s[c][s] = <<>> /\ s2c[c][s] = <<>>
     /\ spc[s][c] = "get_lock" /\ Wanted(c, cur[s][c])
  \/ /\ c2s[c][s] = <<>> /\ spc[s][c] = "get_ready" /\ Wanted(c, cur[s][c])
     /\ s2c[c][s] = <<[t |-> "size", some |-> HasBytes(s, cur[s][c])]>>
  \/ c2s[c][s] = <<>> /\ AtRest(c, s) /\ s2c[c][s] = <<NotFound>>
  \/ /\ c2s[c][s] = <<>> /\ AtRest(c, s) /\ serverEnd[c][s] # "open"
     /\ \E b \in BOOLEAN : s2c[c][s] = <<[t |-> "size", some |-> b]>>

\* Somewhere between "Ready" and the bytes.
Reading(c, s) ==
  \/ c2s[c][s] = <<>> /\ s2c[c][s] = <<>> /\ AtRest(c, s)
  \/ /\ c2s[c][s] = <<Ready>> /\ s2c[c][s] = <<>>
     /\ spc[s][c] = "get_ready" /\ Wanted(c, cur[s][c]) /\ HasBytes(s, cur[s][c])
  \/ /\ c2s[c][s] = <<>> /\ AtRest(c, s)
     /\ \E m \in S2C : m.t = "data" /\ Wanted(c, m.path) /\ s2c[c][s] = <<m>>

\* A get has one request under way, with a server that it has not given up.
OneRequest(c) ==
  /\ cpc[c] \in {"connect", "dispatch"} =>
       \A s \in Server : c2s[c][s] = <<>> /\ s2c[c][s] = <<>> /\ AtRest(c, s)
  /\ cpc[c] = "get_query" => \A s \in Server : live[c][s] => Quiet(c, s)
  /\ cpc[c] \in {"get_size", "get_data"} =>
       /\ live[c][srv[c]]
       /\ \A s \in Server \ {srv[c]} : live[c][s] => Quiet(c, s)
  /\ cpc[c] = "get_size" => Asking(c, srv[c])
  /\ cpc[c] = "get_data" => Reading(c, srv[c])

\* A run that goes on has closed nothing.
StillOpen == \A c \in Client, s \in Server :
  cpc[c] \notin {"exited", "killed"} => clientEnd[c][s] = "open"

GetsInv == \A c \in Gets : OneRequest(c)

TalkInv == /\ TypeInv /\ MutexInv /\ RolesKept /\ EndsAreFinal /\ RepliesKept
           /\ StillOpen /\ GetsInv

(* ------------------------- what a get has so far ------------------------ *)

\* The chunks of the file, in their order.  It matters that some server
\* answered: without one GetJunk makes up the rest.
SoFar(c) ==
  /\ got[c] = "junk" /\ cpc[c] = "get_query" => srv[c] = 1
  /\ cpc[c] \in {"connect", "dispatch", "get_query", "get_size", "get_data"} =>
       /\ \A i \in DOMAIN local[c] : Alias = {} => local[c][i].path.file = F(c)
       /\ (\E s \in Server : live[c][s]) =>
            /\ Len(local[c]) = pos[c] - 1
            /\ \A i \in DOMAIN local[c] : local[c][i].path.chunk = i
  /\ cpc[c] \in {"connect", "dispatch"} =>
       local[c] = <<>> /\ pos[c] = 1 /\ srv[c] <= N /\ result[c] = {} /\ base[c] = {}
  /\ cpc[c] = "dispatch" => srv[c] = 1
ResultsOk(c) == \A r \in Outcomes(c, "success") :
  /\ \A i \in DOMAIN r.parts : Alias = {} => r.parts[i].path.file = r.file
  /\ (\E s \in Server : live[c][s]) =>
       Len(r.parts) = N /\ \A i \in 1..N : r.parts[i].path.chunk = i
FilesInv == \A c \in Gets : SoFar(c) /\ ResultsOk(c)

(* ----------------------- what is said to whom --------------------------- *)

LEMMA RepliesInit == Init => RepliesKept /\ StillOpen /\ GetsInv
<1> SUFFICES ASSUME Init PROVE RepliesKept /\ StillOpen /\ GetsInv
  OBVIOUS
<1>1. RepliesKept
  <2>1. \A S : <<>> \in Seq(S)
    OBVIOUS
  <2> QED BY <2>1 DEF Init, RepliesKept
<1>2. StillOpen
  BY DEF Init, StillOpen
<1>3. GetsInv
  BY DEF Init, GetsInv, Gets, OneRequest, AtRest
<1> QED BY <1>1, <1>2, <1>3

\* What a client does to the answers: it takes one, or drops them all.
LEMMA ClientsReceive ==
  ASSUME TypeInv, NEW c \in Client, ClientStep(c) \/ Kill(c), NEW s \in Server
  PROVE  \/ s2c'[c][s] = s2c[c][s]
         \/ s2c[c][s] # <<>> /\ s2c'[c][s] = Tail(s2c[c][s])
         \/ s2c'[c][s] = <<>> /\ cpc'[c] \in {"exited", "killed"}
<1> USE DEF TypeInv, TypeOK, ClientType, NetType
<1>1. CASE UNCHANGED s2c
  BY <1>1
<1>2. CASE cpc' = [cpc EXCEPT ![c] = "exited"] /\ CloseAll(c)
  BY <1>2 DEF CloseAll
<1>3. CASE cpc' = [cpc EXCEPT ![c] = "killed"] /\ CloseAll(c)
  BY <1>3 DEF CloseAll
<1>4. CASE Receive(c, srv[c]) /\ Arrived(c, srv[c])
  BY <1>4 DEF Receive, Arrived
<1>5. CASE Connect(c)
  BY <1>1, <1>5 DEF Connect, net
<1>6. CASE PutRefused(c) \/ PutSendDies(c) \/ PutFails(c) \/ GetQueryDies(c)
           \/ GetDataFails(c) \/ ListFailsDies(c) \/ Finish(c) \/ Kill(c)
  BY <1>2, <1>3, <1>6 DEF PutRefused, PutSendDies, PutFails, GetQueryDies, GetDataFails,
     ListFailsDies, Finish, Kill, Dies
<1>7. CASE PutStart(c) \/ GetStart(c) \/ ListStart(c) \/ PutSkip(c) \/ PutSend(c) \/ PutEof(c)
           \/ GetQuery(c) \/ GetMissing(c) \/ GetJunk(c) \/ GetFails(c)
           \/ GetDataForEver(c) \/ ListQuery(c) \/ ListFails(c) \/ ListShow(c)
  BY <1>1, <1>7 DEF PutStart, GetStart, ListStart, PutSkip, PutSend, PutEof, GetQuery,
     GetMissing, GetJunk, GetFails, GetDataForEver, ListQuery, ListFails, ListShow, net
<1>8. CASE PutAcked(c) \/ GetReady(c) \/ GetNot(c) \/ GetData(c) \/ ListAnswered(c)
  BY <1>1, <1>4, <1>8 DEF PutAcked, GetReady, GetNot, GetData, ListAnswered
<1> QED BY <1>5, <1>6, <1>7, <1>8 DEF ClientStep

\* A thread says what its client's command calls for, and to a client that
\* has not gone it says it.
LEMMA ThreadsReply ==
  ASSUME TypeInv, RolesKept, NEW s \in Server, NEW c \in Client, ThreadStep(s, c), ~ServerDies(s)
  PROVE  \/ s2c'[c][s] = s2c[c][s]
         \/ \E units \in Seq(RepliesTo(c)) : s2c'[c][s] = s2c[c][s] \o units
<1>0. /\ NetType /\ ServerType /\ spc[s][c] \in ThreadsOf(c)
      /\ Job[c].cmd \in {"get", "put", "list"}
  BY CommandOf DEF TypeInv, TypeOK, RolesKept
<1>1. ASSUME NEW m \in RepliesTo(c) PROVE <<m>> \in Seq(RepliesTo(c))
  OBVIOUS
<1>2. ASSUME NEW units \in Seq(RepliesTo(c)), Reply(s, c, units)
      PROVE  s2c'[c][s] = s2c[c][s] \/ s2c'[c][s] = s2c[c][s] \o units
  BY <1>0, <1>2 DEF NetType, Reply
<1>3. CASE UNCHANGED s2c
  BY <1>3
<1>4. CASE PutAck(s, c)
  <2>1. [t |-> "ack"] \in RepliesTo(c)
    BY <1>0, <1>4 DEF PutAck, ThreadsOf, RepliesTo, S2C
  <2> QED BY <1>1, <1>2, <1>4, <2>1 DEF PutAck
<1>5. CASE RecvGetNotFound(s, c)
  <2>1. [t |-> "not found"] \in RepliesTo(c)
    BY <1>0, <1>5, WordOfRole DEF RecvGetNotFound, RepliesTo, S2C
  <2> QED BY <1>1, <1>2, <1>5, <2>1 DEF RecvGetNotFound
<1>6. CASE GetOpen(s, c)
  <2>1. HasBytes(s, cur[s][c]) \in BOOLEAN
    BY DEF HasBytes
  <2>2. [t |-> "size", some |-> HasBytes(s, cur[s][c])] \in RepliesTo(c)
    BY <1>0, <1>6, <2>1 DEF GetOpen, ThreadsOf, RepliesTo, S2C
  <2> QED BY <1>1, <1>2, <1>6, <2>2 DEF GetOpen
<1>7. CASE GetSend(s, c)
  <2> DEFINE p == cur[s][c]
             m == [t |-> "data", path |-> p, ver |-> disk[s][p].ver, st |-> disk[s][p].st]
  <2>1. Job[c].cmd = "get" /\ p \in Path /\ disk[s][p] \in Present
    BY <1>0, <1>7 DEF GetSend, ThreadsOf, TypeInv, PathsInUse
  <2>2. m \in RepliesTo(c)
    BY <2>1 DEF RepliesTo, S2C, Present
  <2>3. <<>> \in Seq(RepliesTo(c)) /\ <<m>> \in Seq(RepliesTo(c))
    BY <1>1, <2>2
  <2>4. Reply(s, c, IF HasBytes(s, p) THEN <<m>> ELSE <<>>)
    BY <1>7 DEF GetSend
  <2> QED BY <1>2, <2>3, <2>4
<1>8. CASE RecvList(s, c)
  <2> DEFINE all == {p \in Path : disk[s][p] # Absent}
             m == [t |-> "names", names |-> all]
  <2>1. m \in RepliesTo(c)
    <3>1. Job[c].cmd = "list"
      BY <1>8, WordOfRole DEF RecvList
    <3>2. m \in [t : {"names"}, names : SUBSET Path] /\ m.t = "names"
      OBVIOUS
    <3> QED BY <3>1, <3>2 DEF RepliesTo, S2C
  <2>2. <<>> \in Seq(RepliesTo(c)) /\ <<m>> \in Seq(RepliesTo(c))
    BY <1>1, <2>1
  <2>3. Reply(s, c, IF all = {} THEN <<>> ELSE <<m>>)
    BY <1>8 DEF RecvList
  <2> HIDE DEF m, all
  <2>4. CASE all = {}
    BY <1>2, <2>2, <2>3, <2>4
  <2>5. CASE all # {}
    BY <1>2, <2>2, <2>3, <2>5
  <2> QED BY <2>4, <2>5
<1>9. CASE RecvPut(s, c) \/ RecvGet(s, c) \/ RecvDone(s, c) \/ PutOpen(s, c) \/ PutClose(s, c)
  BY <1>3, <1>9 DEF RecvPut, RecvGet, RecvDone, PutOpen, PutClose, net
<1> QED BY <1>4, <1>5, <1>6, <1>7, <1>8, <1>9 DEF ThreadStep, RecvError, SendSigpipe

LEMMA WordsInSeq ==
  ASSUME NEW S, NEW q \in Seq(S)
  PROVE  /\ q # <<>> => Tail(q) \in Seq(S)
         /\ \A r \in Seq(S) : q \o r \in Seq(S)
         /\ <<>> \in Seq(S)
OBVIOUS

LEMMA RepliesStep == TypeInv /\ RolesKept /\ RepliesKept /\ [Next]_vars => RepliesKept'
<1> SUFFICES ASSUME TypeInv, RolesKept, RepliesKept, [Next]_vars PROVE RepliesKept'
  OBVIOUS
<1> SUFFICES ASSUME NEW d \in Client, NEW u \in Server
             PROVE  s2c'[d][u] \in Seq(RepliesTo(d))
  <2>1. TypeInv'
    BY TypeStep
  <2>2. RepliesKept' <=> \A d \in Client : s2c'[d] \in [Server -> Seq(RepliesTo(d))]
    BY DEF RepliesKept, RepliesTo
  <2> QED BY <2>1, <2>2 DEF TypeInv, TypeOK, NetType
<1>0. s2c[d][u] \in Seq(RepliesTo(d))
  BY DEF RepliesKept
<1>1. CASE UNCHANGED s2c
  BY <1>0, <1>1
<1>2. ASSUME NEW c \in Client, ClientStep(c) \/ Kill(c) PROVE s2c'[d][u] \in Seq(RepliesTo(d))
  <2>1. CASE d = c
    BY <1>0, <1>2, <2>1, ClientsReceive, WordsInSeq
  <2>2. CASE d # c
    BY <1>0, <1>2, <2>2, OthersKept DEF ClientKept, NetKept
  <2> QED BY <2>1, <2>2
<1>3. ASSUME NEW s \in Server, NEW c \in Client, ThreadStep(s, c)
      PROVE  s2c'[d][u] \in Seq(RepliesTo(d))
  <2>1. CASE ServerDies(s)
    BY <1>1, <2>1 DEF ServerDies
  <2>2. CASE ~ServerDies(s) /\ ~(d = c /\ u = s)
    BY <1>0, <1>3, <2>2, ThreadsLeaveOthers
  <2>3. CASE ~ServerDies(s) /\ d = c /\ u = s
    <3>1. \/ s2c'[c][s] = s2c[c][s]
          \/ \E units \in Seq(RepliesTo(c)) : s2c'[c][s] = s2c[c][s] \o units
      BY <1>3, <2>3, ThreadsReply
    <3> QED BY <1>0, <2>3, <3>1, WordsInSeq
  <2> QED BY <2>1, <2>2, <2>3
<1>4. ASSUME NEW s \in Server, Crash(s) \/ Restart(s) PROVE s2c'[d][u] \in Seq(RepliesTo(d))
  BY <1>1, <1>4 DEF Crash, ServerDies, Restart, net
<1>5. CASE UNCHANGED vars
  BY <1>1, <1>5 DEF vars, net
<1> QED BY <1>2, <1>3, <1>4, <1>5 DEF Next

(* --------------------- nothing is closed before the end ----------------- *)

LEMMA ClientsClose ==
  ASSUME ClientType, NEW c \in Client, ClientStep(c) \/ Kill(c)
  PROVE  /\ cpc[c] \notin {"exited", "killed"}
         /\ UNCHANGED clientEnd \/ cpc'[c] \in {"exited", "killed"}
<1> USE DEF ClientType
<1>1. CASE Connect(c) \/ PutStart(c) \/ GetStart(c) \/ ListStart(c) \/ PutSkip(c)
           \/ PutSend(c) \/ PutEof(c)
  BY <1>1 DEF Connect, PutStart, GetStart, ListStart, PutSkip, PutSend, PutEof, net
<1>2. CASE GetQuery(c) \/ GetMissing(c) \/ GetJunk(c) \/ GetFails(c) \/ GetDataForEver(c)
           \/ ListQuery(c) \/ ListFails(c) \/ ListShow(c)
  BY <1>2 DEF GetQuery, GetMissing, GetJunk, GetFails, GetDataForEver, ListQuery, ListFails,
     ListShow, net
<1>3. CASE PutAcked(c) \/ GetReady(c) \/ GetNot(c) \/ GetData(c) \/ ListAnswered(c)
  BY <1>3 DEF PutAcked, GetReady, GetNot, GetData, ListAnswered
<1>4. CASE PutRefused(c) \/ PutFails(c)
  BY <1>4 DEF PutRefused, PutFails
<1>5. CASE PutSendDies(c) \/ GetQueryDies(c) \/ GetDataFails(c) \/ ListFailsDies(c)
  BY <1>5 DEF PutSendDies, GetQueryDies, GetDataFails, ListFailsDies, Dies
<1>6. CASE Finish(c) \/ Kill(c)
  BY <1>6 DEF Finish, Kill, Running
<1> QED BY <1>1, <1>2, <1>3, <1>4, <1>5, <1>6 DEF ClientStep

LEMMA ThreadsClose ==
  ASSUME NetType, NEW s \in Server, NEW c \in Client, ThreadStep(s, c), ~ServerDies(s),
         NEW d \in Client, NEW u \in Server, clientEnd[d][u] = "open"
  PROVE  clientEnd'[d][u] = "open"
<1>1. CASE UNCHANGED clientEnd
  BY <1>1
<1>2. ASSUME NEW units, Reply(s, c, units) PROVE clientEnd'[d][u] = "open"
  BY <1>2 DEF Reply, NetType
<1>3. CASE PutAck(s, c) \/ GetOpen(s, c) \/ RecvGetNotFound(s, c) \/ GetSend(s, c) \/ RecvList(s, c)
  BY <1>2, <1>3 DEF PutAck, GetOpen, RecvGetNotFound, GetSend, RecvList
<1>4. CASE RecvPut(s, c) \/ RecvGet(s, c) \/ RecvDone(s, c) \/ PutOpen(s, c) \/ PutClose(s, c)
  BY <1>1, <1>4 DEF RecvPut, RecvGet, RecvDone, PutOpen, PutClose, net
<1> QED BY <1>3, <1>4 DEF ThreadStep, RecvError, SendSigpipe

LEMMA OpenStep == TypeInv /\ StillOpen /\ [Next]_vars => StillOpen'
<1> SUFFICES ASSUME TypeInv, StillOpen, [Next]_vars PROVE StillOpen'
  OBVIOUS
<1>0. ClientType /\ NetType
  BY DEF TypeInv, TypeOK
<1>1. CASE UNCHANGED <<cpc, clientEnd>>
  BY <1>1 DEF StillOpen
<1>2. ASSUME NEW c \in Client, ClientStep(c) \/ Kill(c) PROVE StillOpen'
  <2> SUFFICES ASSUME NEW d \in Client, NEW s \in Server, cpc'[d] \notin {"exited", "killed"}
               PROVE  clientEnd'[d][s] = "open"
    BY DEF StillOpen
  <2>1. CASE d = c
    BY <1>0, <1>2, <2>1, ClientsClose DEF StillOpen
  <2>2. CASE d # c
    BY <1>2, <2>2, OthersKept DEF StillOpen, ClientKept, ProgressKept, NetKept
  <2> QED BY <2>1, <2>2
<1>3. ASSUME NEW s \in Server, NEW c \in Client, ThreadStep(s, c) PROVE StillOpen'
  <2>1. CASE ServerDies(s)
    BY <1>1, <2>1 DEF ServerDies, progress
  <2>2. CASE ~ServerDies(s)
    <3>1. UNCHANGED cpc
      BY <1>3, <2>2, ThreadsLeaveOthers DEF progress
    <3> QED BY <1>0, <1>3, <2>2, <3>1, ThreadsClose DEF StillOpen
  <2> QED BY <2>1, <2>2
<1>4. ASSUME NEW s \in Server, Crash(s) \/ Restart(s) PROVE StillOpen'
  BY <1>1, <1>4 DEF Crash, ServerDies, Restart, progress, net
<1>5. CASE UNCHANGED vars
  BY <1>1, <1>5 DEF vars, progress, net
<1> QED BY <1>2, <1>3, <1>4, <1>5 DEF Next

(* ---------------- what others leave alone of a get ---------------------- *)

\* The connection of c and s, and the file its thread has open.
Same(c, s) ==
  /\ c2s'[c][s] = c2s[c][s] /\ s2c'[c][s] = s2c[c][s]
  /\ spc'[s][c] = spc[s][c] /\ cur'[s][c] = cur[s][c]
  /\ spc[s][c] = "get_ready" => disk'[s][cur[s][c]] = disk[s][cur[s][c]]

LEMMA WantKept ==
  ASSUME NEW c, arg'[c] = arg[c], pos'[c] = pos[c]
  PROVE  /\ F(c)' = F(c) /\ NoMoreArgs(c)' = NoMoreArgs(c) /\ Request(c)' = Request(c)
         /\ \A p : Wanted(c, p)' <=> Wanted(c, p)
<1>1. F(c)' = F(c) /\ NoMoreArgs(c)' = NoMoreArgs(c)
  BY DEF F, NoMoreArgs
<1> QED BY <1>1 DEF Request, Wanted

LEMMA FreeKept ==
  ASSUME NEW c, NEW s, Same(c, s)
  PROVE  /\ Free(c, s)' <=> Free(c, s)
         /\ spc[s][c] = "get_ready" => (HasBytes(s, cur[s][c])' <=> HasBytes(s, cur[s][c]))
BY DEF Same, Free, AtRest, Stale, HasBytes, Size

LEMMA QuietKept ==
  ASSUME NEW c, NEW s, Same(c, s), Quiet(c, s)
  PROVE  Quiet(c, s)'
BY FreeKept DEF Quiet, Same

LEMMA AskingKept ==
  ASSUME NEW c, NEW s, Same(c, s), arg'[c] = arg[c], pos'[c] = pos[c],
         serverEnd[c][s] # "open" => serverEnd'[c][s] # "open", Asking(c, s)
  PROVE  Asking(c, s)'
<1>1. CASE Quiet(c, s)
  BY <1>1, QuietKept DEF Asking
<1>2. CASE ~Quiet(c, s)
  <2>1. Wanted(c, cur[s][c])' <=> Wanted(c, cur[s][c])
    BY WantKept DEF Same, Wanted
  <2>2. spc[s][c] = "get_ready" => HasBytes(s, cur[s][c])' = HasBytes(s, cur[s][c])
    BY FreeKept DEF HasBytes, Same, Size
  <2> QED BY <1>2, <2>1, <2>2, FreeKept, WantKept DEF Asking, Same, AtRest, NotFound
<1> QED BY <1>1, <1>2

LEMMA ReadingKept ==
  ASSUME NEW c, NEW s, Same(c, s), arg'[c] = arg[c], pos'[c] = pos[c], Reading(c, s)
  PROVE  Reading(c, s)'
<1>1. Wanted(c, cur[s][c])' <=> Wanted(c, cur[s][c])
  BY WantKept DEF Same, Wanted
<1> QED BY <1>1, FreeKept, WantKept DEF Reading, Same, AtRest, Ready

LEMMA GetFrame ==
  ASSUME NEW c \in Gets, OneRequest(c), ProgressKept(c), live'[c] = live[c],
         ClientType, LoopsInRange,
         \A s \in Server :
           Same(c, s) /\ (serverEnd[c][s] # "open" => serverEnd'[c][s] # "open")
  PROVE  OneRequest(c)'
<1>1. /\ cpc'[c] = cpc[c] /\ srv'[c] = srv[c] /\ arg'[c] = arg[c] /\ pos'[c] = pos[c]
  BY DEF ProgressKept
<1>2. cpc[c] \in {"get_size", "get_data"} => srv[c] \in Server
  BY DEF LoopsInRange, LoopInRange, Gets
<1>3. \A s \in Server : AtRest(c, s)' = AtRest(c, s)
  BY DEF AtRest, Same
<1>4. cpc[c] = "get_size" => Asking(c, srv[c])'
  BY <1>1, <1>2, AskingKept DEF OneRequest
<1>5. cpc[c] = "get_data" => Reading(c, srv[c])'
  BY <1>1, <1>2, ReadingKept DEF OneRequest
<1> QED BY <1>1, <1>3, <1>4, <1>5, QuietKept DEF OneRequest, Same

(* ----------------------- a thread serves a get -------------------------- *)

LEMMA ThreadsOfGet ==
  ASSUME RolesKept, NEW s \in Server, NEW c \in Gets, ThreadStep(s, c), ~ServerDies(s)
  PROVE  RecvGet(s, c) \/ RecvGetNotFound(s, c) \/ GetOpen(s, c) \/ GetSend(s, c) \/ RecvDone(s, c)
<1>1. Job[c].cmd = "get" /\ c \in Client /\ spc[s][c] \in ThreadsOf(c)
  BY DEF Gets, RolesKept
<1>2. ~Next_(s, c, "put") /\ ~Next_(s, c, "list")
  BY <1>1, WordOfRole
<1>3. spc[s][c] \notin {"put_lock", "put_write", "put_ack"}
  BY <1>1 DEF ThreadsOf
<1> QED BY <1>2, <1>3
    DEF ThreadStep, RecvPut, PutOpen, PutClose, PutAck, RecvList, RecvError, SendSigpipe

\* The steps of these threads, as far as they go on at the connection.
LEMMA GetFound ==
  ASSUME NetType, ServerType, NEW s \in Server, NEW c \in Client, RecvGet(s, c)
  PROVE  /\ spc[s][c] = "recv" /\ c2s[c][s] # <<>> /\ Head(c2s[c][s]).t = "get"
         /\ spc'[s][c] = "get_lock" /\ c2s'[c][s] = Tail(c2s[c][s]) /\ s2c' = s2c /\ disk' = disk
         /\ cur'[s][c] \in MostRecent(s, Head(c2s[c][s]).file, Head(c2s[c][s]).chunk)
<1>1. spc'[s][c] = "get_lock" /\ c2s'[c][s] = Tail(c2s[c][s])
  BY TakesOne, GoesTo DEF RecvGet
<1>2. PICK p \in MostRecent(s, Head(c2s[c][s]).file, Head(c2s[c][s]).chunk) :
        cur' = [cur EXCEPT ![s][c] = p]
  BY DEF RecvGet
<1>3. cur'[s][c] = p
  BY <1>2 DEF ServerType
<1> QED BY <1>1, <1>2, <1>3 DEF RecvGet, Next_

LEMMA RepliesOnce ==
  ASSUME NetType, NEW s \in Server, NEW c \in Client, NEW units, Reply(s, c, units),
         clientEnd[c][s] = "open"
  PROVE  s2c'[c][s] = s2c[c][s] \o units
BY DEF NetType, Reply

LEMMA GetNotFound ==
  ASSUME NetType, NEW s \in Server, NEW c \in Client, RecvGetNotFound(s, c)
  PROVE  /\ spc[s][c] = "recv" /\ c2s[c][s] # <<>> /\ Head(c2s[c][s]).t = "get"
         /\ Matching(s, Head(c2s[c][s]).file, Head(c2s[c][s]).chunk) = {}
         /\ UNCHANGED server /\ c2s'[c][s] = Tail(c2s[c][s])
         /\ clientEnd[c][s] = "open" => s2c'[c][s] = s2c[c][s] \o <<NotFound>>
<1>1. c2s'[c][s] = Tail(c2s[c][s])
  BY TakesOne DEF RecvGetNotFound
<1>2. clientEnd[c][s] = "open" => s2c'[c][s] = s2c[c][s] \o <<NotFound>>
  BY RepliesOnce DEF RecvGetNotFound, NotFound
<1> QED BY <1>1, <1>2 DEF RecvGetNotFound, Next_

LEMMA GetOpens ==
  ASSUME NetType, ServerType, NEW s \in Server, NEW c \in Client, GetOpen(s, c)
  PROVE  /\ spc[s][c] = "get_lock" /\ spc'[s][c] = "get_ready"
         /\ UNCHANGED <<c2s, cur, disk>>
         /\ clientEnd[c][s] = "open" =>
              s2c'[c][s] = s2c[c][s] \o <<[t |-> "size", some |-> HasBytes(s, cur[s][c])]>>
<1>1. spc'[s][c] = "get_ready"
  BY GoesTo DEF GetOpen
<1>2. clientEnd[c][s] = "open" =>
        s2c'[c][s] = s2c[c][s] \o <<[t |-> "size", some |-> HasBytes(s, cur[s][c])]>>
  BY RepliesOnce DEF GetOpen
<1> QED BY <1>1, <1>2 DEF GetOpen

LEMMA GetSends ==
  ASSUME NetType, ServerType, NEW s \in Server, NEW c \in Client, GetSend(s, c)
  PROVE  /\ spc[s][c] = "get_ready" /\ spc'[s][c] = "recv" /\ UNCHANGED disk
         /\ \/ c2s[c][s] # <<>> /\ c2s'[c][s] = Tail(c2s[c][s])
            \/ c2s[c][s] = <<>> /\ clientEnd[c][s] # "open" /\ c2s' = c2s
         /\ ~HasBytes(s, cur[s][c]) /\ s2c[c][s] = <<>> => s2c'[c][s] = <<>>
         /\ HasBytes(s, cur[s][c]) /\ clientEnd[c][s] = "open" =>
              s2c'[c][s] = s2c[c][s] \o <<[t |-> "data", path |-> cur[s][c],
                 ver |-> disk[s][cur[s][c]].ver, st |-> disk[s][cur[s][c]].st]>>
<1> DEFINE p == cur[s][c]
           m == [t |-> "data", path |-> p, ver |-> disk[s][p].ver, st |-> disk[s][p].st]
<1>1. spc'[s][c] = "recv"
  BY GoesTo DEF GetSend
<1>2. \/ c2s[c][s] # <<>> /\ c2s'[c][s] = Tail(c2s[c][s])
      \/ c2s[c][s] = <<>> /\ clientEnd[c][s] # "open" /\ c2s' = c2s
  BY TakesOne DEF GetSend
<1>3. Reply(s, c, IF HasBytes(s, p) THEN <<m>> ELSE <<>>)
  BY DEF GetSend
<1>4. HasBytes(s, p) /\ clientEnd[c][s] = "open" => s2c'[c][s] = s2c[c][s] \o <<m>>
  <2> HIDE DEF m
  <2> QED BY <1>3, RepliesOnce
<1>5. ~HasBytes(s, p) /\ s2c[c][s] = <<>> => s2c'[c][s] = <<>>
  <2> SUFFICES ASSUME ~HasBytes(s, p), s2c[c][s] = <<>> PROVE s2c'[c][s] = <<>>
    OBVIOUS
  <2>1. Reply(s, c, <<>>)
    BY <1>3
  <2> QED BY <2>1 DEF Reply, NetType
<1> QED BY <1>1, <1>2, <1>4, <1>5 DEF GetSend

LEMMA DoneServed ==
  ASSUME NetType, ServerType, NEW s \in Server, NEW c \in Client, RecvDone(s, c)
  PROVE  /\ spc[s][c] = "recv" /\ spc'[s][c] = "ended" /\ UNCHANGED <<s2c, cur, disk>>
         /\ \/ /\ c2s[c][s] # <<>> /\ Head(c2s[c][s]).t = "done"
               /\ c2s'[c][s] = Tail(c2s[c][s])
            \/ c2s[c][s] = <<>> /\ clientEnd[c][s] # "open" /\ c2s' = c2s
BY TakesOne, GoesTo DEF RecvDone, Next_

\* Where nothing is under way and the client goes on there is nothing to do.
LEMMA QuietIdles ==
  ASSUME TypeInv, RolesKept, NEW s \in Server, NEW c \in Gets, clientEnd[c][s] = "open", Quiet(c, s),
         ThreadStep(s, c), ~ServerDies(s)
  PROVE  FALSE
<1>0. c \in Client /\ NetType /\ ServerType
  BY DEF Gets, TypeInv, TypeOK
<1> USE DEF Quiet, Free, AtRest, Stale
<1>1. ~RecvGet(s, c) /\ ~RecvGetNotFound(s, c)
  BY <1>0, GetFound, GetNotFound
<1>2. ~GetOpen(s, c) /\ ~GetSend(s, c) /\ ~RecvDone(s, c)
  <2>1. GetOpen(s, c) => spc[s][c] = "get_lock"
    BY DEF GetOpen
  <2>2. GetSend(s, c) \/ RecvDone(s, c) => c2s[c][s] # <<>> \/ clientEnd[c][s] # "open"
    <3>1. GetSend(s, c) => c2s[c][s] # <<>> \/ clientEnd[c][s] # "open"
      BY <1>0, GetSends
    <3>2. RecvDone(s, c) => c2s[c][s] # <<>> \/ clientEnd[c][s] # "open"
      BY <1>0, DoneServed
    <3> QED BY <3>1, <3>2
  <2> QED BY <2>1, <2>2
<1> QED BY <1>1, <1>2, ThreadsOfGet

LEMMA FoundIsWanted ==
  ASSUME NEW c, NEW s \in Server, NEW p \in MostRecent(s, F(c), pos[c])
  PROVE  Wanted(c, p) /\ p \in Path /\ disk[s][p] # Absent
BY DEF MostRecent, Matching, Wanted

LEMMA Singles ==
  ASSUME NEW x
  PROVE  /\ Tail(<<x>>) = <<>> /\ Head(<<x>>) = x /\ <<>> \o <<x>> = <<x>> /\ <<x>> # <<>>
OBVIOUS

LEMMA AskingServed ==
  ASSUME TypeInv, RolesKept, NEW s \in Server, NEW c \in Gets, clientEnd[c][s] = "open",
         Asking(c, s), ThreadStep(s, c), ~ServerDies(s), arg'[c] = arg[c], pos'[c] = pos[c]
  PROVE  Asking(c, s)'
<1>0. c \in Client /\ NetType /\ ServerType
  BY DEF Gets, TypeInv, TypeOK
<1>1. CASE RecvGet(s, c)
  <2>1. spc[s][c] = "recv" /\ c2s[c][s] # <<>>
    BY <1>0, <1>1, GetFound
  <2>2. c2s[c][s] = <<Request(c)>> /\ s2c[c][s] = <<>>
    BY <2>1 DEF Asking, Quiet
  <2>3. Head(c2s[c][s]) = Request(c) /\ Tail(c2s[c][s]) = <<>>
    BY <2>2, Singles
  <2>4. cur'[s][c] \in MostRecent(s, F(c), pos[c])
    BY <1>0, <1>1, <2>3, GetFound DEF Request
  <2>5. Wanted(c, cur[s][c])'
    <3>1. Wanted(c, cur'[s][c])
      BY <2>4, FoundIsWanted
    <3> QED BY <3>1, WantKept DEF Wanted
  <2>6. spc'[s][c] = "get_lock" /\ c2s'[c][s] = <<>> /\ s2c'[c][s] = <<>>
    BY <1>0, <1>1, <2>2, <2>3, GetFound
  <2> QED BY <2>5, <2>6 DEF Asking
<1>2. CASE RecvGetNotFound(s, c)
  <2>1. spc[s][c] = "recv" /\ c2s[c][s] # <<>>
    BY <1>0, <1>2, GetNotFound
  <2>2. c2s[c][s] = <<Request(c)>> /\ s2c[c][s] = <<>>
    BY <2>1 DEF Asking, Quiet
  <2>a. /\ UNCHANGED server /\ c2s'[c][s] = Tail(c2s[c][s])
        /\ s2c'[c][s] = s2c[c][s] \o <<NotFound>>
    BY <1>0, <1>2, GetNotFound
  <2>b. c2s'[c][s] = <<>> /\ s2c'[c][s] = <<NotFound>>
    BY <2>2, <2>a, Singles
  <2>3. spc'[s][c] = "recv" /\ c2s'[c][s] = <<>> /\ s2c'[c][s] = <<NotFound>>
    BY <2>1, <2>a, <2>b DEF server
  <2> QED BY <2>3 DEF Asking, AtRest, NotFound
<1>3. CASE GetOpen(s, c)
  <2>1. spc[s][c] = "get_lock"
    BY <1>0, <1>3, GetOpens
  <2>2. c2s[c][s] = <<>> /\ s2c[c][s] = <<>> /\ Wanted(c, cur[s][c])
    BY <2>1 DEF Asking, Quiet, Free, AtRest, Stale
  <2>3. /\ spc'[s][c] = "get_ready" /\ c2s'[c][s] = <<>> /\ UNCHANGED <<cur, disk>>
        /\ s2c'[c][s] = s2c[c][s] \o <<[t |-> "size", some |-> HasBytes(s, cur[s][c])]>>
    <3>1. /\ spc'[s][c] = "get_ready" /\ UNCHANGED <<c2s, cur, disk>>
          /\ s2c'[c][s] = s2c[c][s] \o <<[t |-> "size", some |-> HasBytes(s, cur[s][c])]>>
      BY <1>0, <1>3, GetOpens
    <3> QED BY <2>2, <3>1
  <2>4. s2c'[c][s] = <<[t |-> "size", some |-> HasBytes(s, cur[s][c])]>>
    BY <2>2, <2>3, Singles
  <2>5. HasBytes(s, cur[s][c])' = HasBytes(s, cur[s][c]) /\ Wanted(c, cur[s][c])'
    BY <2>2, <2>3, WantKept DEF HasBytes, Size, Wanted
  <2> QED BY <2>3, <2>4, <2>5 DEF Asking
<1>4. CASE GetSend(s, c)
  <2>1. spc[s][c] = "get_ready" /\ c2s[c][s] # <<>>
    BY <1>0, <1>4, GetSends
  <2>2. c2s[c][s] = <<Request(c)>> /\ s2c[c][s] = <<>> /\ Stale(c, s)
    BY <2>1 DEF Asking, Quiet, Free, AtRest
  <2>a. ~HasBytes(s, cur[s][c])
    BY <2>2 DEF Stale
  <2>b. spc'[s][c] = "recv" /\ c2s'[c][s] = Tail(c2s[c][s]) /\ s2c'[c][s] = <<>>
    BY <1>0, <1>4, <2>1, <2>2, <2>a, GetSends
  <2>3. spc'[s][c] = "recv" /\ c2s'[c][s] = <<>> /\ s2c'[c][s] = <<>>
    BY <2>2, <2>b, Singles
  <2> QED BY <2>3 DEF Asking, Quiet, Free, AtRest
<1>5. CASE RecvDone(s, c)
  <2>1. c2s[c][s] # <<>> /\ Head(c2s[c][s]).t = "done"
    BY <1>0, <1>5, DoneServed
  <2>2. c2s[c][s] = <<Request(c)>>
    BY <2>1 DEF Asking, Quiet
  <2> QED BY <2>1, <2>2, Singles DEF Request
<1> QED BY <1>1, <1>2, <1>3, <1>4, <1>5, ThreadsOfGet

LEMMA ReadingServed ==
  ASSUME TypeInv, RolesKept, NEW s \in Server, NEW c \in Gets, clientEnd[c][s] = "open",
         Reading(c, s), ThreadStep(s, c), ~ServerDies(s), arg'[c] = arg[c], pos'[c] = pos[c]
  PROVE  Reading(c, s)'
<1>0. c \in Client /\ NetType /\ ServerType
  BY DEF Gets, TypeInv, TypeOK
<1>1. ~RecvGet(s, c) /\ ~RecvGetNotFound(s, c)
  BY <1>0, GetFound, GetNotFound DEF Reading
<1>2. ~GetOpen(s, c) /\ ~RecvDone(s, c)
  BY <1>0, GetOpens, DoneServed DEF Reading, AtRest
<1>3. GetSend(s, c)
  BY <1>1, <1>2, ThreadsOfGet
<1>4. spc[s][c] = "get_ready"
  BY <1>0, <1>3, GetSends
<1>5. /\ c2s[c][s] = <<Ready>> /\ s2c[c][s] = <<>> /\ Wanted(c, cur[s][c])
      /\ HasBytes(s, cur[s][c])
  BY <1>4 DEF Reading, AtRest
<1> DEFINE p == cur[s][c]
           m == [t |-> "data", path |-> p, ver |-> disk[s][p].ver, st |-> disk[s][p].st]
<1>6. m \in S2C /\ m.t = "data" /\ m.path = p
  <2>1. p \in Path /\ disk[s][p] \in Present
    BY <1>0, <1>4 DEF TypeInv, PathsInUse
  <2> QED BY <2>1 DEF S2C, Present
<1>7. spc'[s][c] = "recv" /\ c2s'[c][s] = <<>> /\ s2c'[c][s] = <<>> \o <<m>>
  <2>1. c2s[c][s] # <<>> /\ Tail(c2s[c][s]) = <<>>
    BY <1>5, Singles
  <2>2. spc'[s][c] = "recv" /\ c2s'[c][s] = Tail(c2s[c][s])
    BY <1>0, <1>3, <2>1, GetSends
  <2>3. s2c'[c][s] = s2c[c][s] \o <<m>>
    BY <1>0, <1>3, <1>5, GetSends
  <2> QED BY <1>5, <2>1, <2>2, <2>3
<1>9. \E x \in S2C : x.t = "data" /\ (Wanted(c, x.path))' /\ s2c'[c][s] = <<x>>
  <2>1. Wanted(c, m.path)
    BY <1>5, <1>6
  <2> HIDE DEF m
  <2>2. s2c'[c][s] = <<m>>
    BY <1>7, Singles
  <2>3. \E x \in S2C : x.t = "data" /\ Wanted(c, x.path) /\ s2c'[c][s] = <<x>>
    BY <1>6, <2>1, <2>2
  <2> QED BY <2>3, WantKept
<1> QED BY <1>7, <1>9 DEF Reading, AtRest

\* No file is changed while a reader has it open.
LEMMA ReaderKept ==
  ASSUME TypeInv, MutexInv, NEW s \in Server, NEW c \in Client, ThreadStep(s, c), ~ServerDies(s),
         NEW u \in Server, NEW d \in Client, spc[u][d] = "get_ready"
  PROVE  disk'[u][cur[u][d]] = disk[u][cur[u][d]]
<1>1. lock[u] = d /\ d # None /\ cur[u][d] \in Path
  BY DfsAssumption DEF MutexInv, MutualExclusion, TypeInv, PathsInUse
<1>2. CASE PutOpen(s, c)
  <2>1. lock[s] = None /\ u # s
    BY <1>1, <1>2 DEF PutOpen
  <2> QED BY <1>1, <1>2, <2>1, ThreadsChangeDisk
<1>3. CASE PutClose(s, c)
  <2>1. lock[s] = c /\ (c # d \/ u # s)
    BY <1>3 DEF PutClose, MutexInv, MutualExclusion
  <2>2. u # s
    BY <1>1, <2>1
  <2> QED BY <1>1, <1>3, <2>2, ThreadsChangeDisk
<1>4. CASE UNCHANGED disk
  BY <1>4
<1> QED BY <1>2, <1>3, <1>4 DEF ThreadStep, RecvPut, PutAck, RecvGet, RecvGetNotFound, GetOpen,
    GetSend, RecvList, RecvDone, RecvError, SendSigpipe, server

LEMMA GetsThreads ==
  ASSUME TalkInv, NEW s \in Server, NEW c \in Client, ThreadStep(s, c), ~ServerDies(s)
  PROVE  GetsInv'
<1> SUFFICES ASSUME NEW d \in Gets PROVE OneRequest(d)'
  BY DEF GetsInv, Gets
<1>0. /\ d \in Client /\ OneRequest(d) /\ TypeInv /\ RolesKept /\ MutexInv
      /\ ClientType /\ LoopsInRange
  BY DEF Gets, TalkInv, GetsInv, TypeInv, TypeOK
<1>1. /\ UNCHANGED <<progress, memory, serverEnd>>
      /\ \A u \in Server, e \in Client : u # s \/ e # c =>
           /\ spc'[u][e] = spc[u][e] /\ cur'[u][e] = cur[u][e]
           /\ c2s'[e][u] = c2s[e][u] /\ s2c'[e][u] = s2c[e][u]
  BY <1>0, ThreadsLeaveOthers
<1>2. ProgressKept(d) /\ live'[d] = live[d]
  BY <1>1 DEF ProgressKept, progress, memory
<1>3. \A u \in Server : u # s \/ d # c => Same(d, u)
  BY <1>0, <1>1, ReaderKept DEF Same
<1>4. CASE d # c
  BY <1>0, <1>1, <1>2, <1>3, <1>4, GetFrame
<1>5. CASE d = c
  <2>0. /\ cpc'[c] = cpc[c] /\ srv'[c] = srv[c] /\ arg'[c] = arg[c] /\ pos'[c] = pos[c]
    BY <1>2, <1>5 DEF ProgressKept
  <2>1. cpc[c] \in {"connect", "dispatch", "get_query", "get_size", "get_data"} =>
          clientEnd[c][s] = "open"
    BY DEF TalkInv, StillOpen
  <2>2. \A u \in Server : u # s /\ Quiet(c, u) => Quiet(c, u)'
    BY <1>3, <1>5, QuietKept
  <2>3. clientEnd[c][s] = "open" => ~Quiet(c, s)
    BY <1>0, <1>5, QuietIdles
  <2>4. cpc'[c] \notin {"connect", "dispatch"}
    BY <1>0, <1>5, <2>0, <2>1, <2>3 DEF OneRequest, Quiet, Free
  <2>5. cpc[c] = "get_query" => \A u \in Server : live[c][u] => Quiet(c, u)'
    BY <1>0, <1>5, <2>1, <2>2, <2>3 DEF OneRequest
  <2>6. cpc[c] \in {"get_size", "get_data"} => \A u \in Server \ {srv[c]} : live[c][u] => Quiet(c, u)'
    BY <1>0, <1>5, <2>1, <2>2, <2>3 DEF OneRequest
  <2>7. cpc[c] \in {"get_size", "get_data"} => srv[c] \in Server
    BY <1>0 DEF LoopsInRange, LoopInRange
  <2>8. cpc[c] = "get_size" => Asking(c, srv[c])'
    <3> SUFFICES ASSUME cpc[c] = "get_size" PROVE Asking(c, srv[c])'
      OBVIOUS
    <3>1. Asking(c, srv[c])
      BY <1>0, <1>5 DEF OneRequest
    <3>2. CASE srv[c] = s
      <4>1. Asking(c, s)'
        BY <1>0, <1>5, <2>0, <2>1, <3>1, <3>2, AskingServed
      <4> QED BY <2>0, <3>2, <4>1
    <3>3. CASE srv[c] # s
      <4> DEFINE u == srv[c]
      <4>1. Asking(c, u)'
        BY <1>1, <1>3, <1>5, <2>0, <2>7, <3>1, <3>3, AskingKept
      <4> QED BY <2>0, <4>1
    <3> QED BY <3>2, <3>3
  <2>9. cpc[c] = "get_data" => Reading(c, srv[c])'
    <3> SUFFICES ASSUME cpc[c] = "get_data" PROVE Reading(c, srv[c])'
      OBVIOUS
    <3>1. Reading(c, srv[c])
      BY <1>0, <1>5 DEF OneRequest
    <3>2. CASE srv[c] = s
      <4>1. Reading(c, s)'
        BY <1>0, <1>5, <2>0, <2>1, <3>1, <3>2, ReadingServed
      <4> QED BY <2>0, <3>2, <4>1
    <3>3. CASE srv[c] # s
      BY <1>3, <1>5, <2>0, <2>7, <3>1, <3>3, ReadingKept
    <3> QED BY <3>2, <3>3
  <2>a. cpc'[c] = "get_query" => \A u \in Server : live[d]'[u] => Quiet(d, u)'
    BY <1>2, <1>5, <2>0, <2>5
  <2>b. cpc'[c] \in {"get_size", "get_data"} =>
          live'[c][srv'[c]] /\ \A u \in Server \ {srv'[c]} : live'[c][u] => Quiet(c, u)'
    BY <1>0, <1>2, <1>5, <2>0, <2>6 DEF OneRequest
  <2> QED BY <1>5, <2>0, <2>4, <2>8, <2>9, <2>a, <2>b DEF OneRequest
<1> QED BY <1>4, <1>5

\* A server that ends takes the requests with it, and not the answers.
LEMMA GetsDeath ==
  ASSUME TalkInv, NEW s \in Server, ServerDies(s)
  PROVE  GetsInv'
<1> SUFFICES ASSUME NEW d \in Gets PROVE OneRequest(d)'
  BY DEF GetsInv, Gets
<1>0. /\ d \in Client /\ OneRequest(d) /\ ClientType /\ LoopsInRange /\ ServerType /\ NetType
  BY DEF Gets, TalkInv, GetsInv, TypeInv, TypeOK
<1>1. UNCHANGED <<progress, memory, s2c>>
  BY DEF ServerDies
<1>2. /\ cpc'[d] = cpc[d] /\ srv'[d] = srv[d] /\ arg'[d] = arg[d] /\ pos'[d] = pos[d]
      /\ live'[d] = live[d] /\ s2c'[d] = s2c[d]
  BY <1>1 DEF progress, memory
<1>3. /\ \A u \in Server \ {s} : /\ spc'[u][d] = spc[u][d] /\ cur'[u][d] = cur[u][d]
                                 /\ c2s'[d][u] = c2s[d][u] /\ disk'[u] = disk[u]
                                 /\ serverEnd'[d][u] = serverEnd[d][u]
      /\ spc'[s][d] = "none" /\ c2s'[d][s] = <<>>
      /\ serverEnd[d][s] # "open" \/ spc[s][d] \notin {"none", "ended"} => serverEnd'[d][s] # "open"
  BY <1>0 DEF ServerDies, NetType, ServerType
<1>4. \A u \in Server \ {s} : Same(d, u)
  BY <1>2, <1>3 DEF Same
<1>5. \A u \in Server : Quiet(d, u) => Quiet(d, u)'
  BY <1>2, <1>3, <1>4, QuietKept DEF Quiet, Free, AtRest
<1>6. cpc[d] \in {"get_size", "get_data"} => srv[d] \in Server
  BY <1>0 DEF LoopsInRange, LoopInRange
<1>7. ASSUME NEW u \in Server, Asking(d, u) PROVE Asking(d, u)'
  <2>1. CASE u # s
    BY <1>2, <1>3, <1>4, <1>7, <2>1, AskingKept
  <2>2. CASE u = s /\ s2c[d][s] = <<>>
    BY <1>2, <1>3, <2>2 DEF Asking, Quiet, Free, AtRest
  <2>3. CASE u = s /\ s2c[d][s] = <<NotFound>>
    BY <1>2, <1>3, <2>3 DEF Asking, AtRest, NotFound
  <2>4. CASE u = s /\ s2c[d][s] # <<>> /\ s2c[d][s] # <<NotFound>>
    <3>1. HasBytes(s, cur[s][d]) \in BOOLEAN
      BY DEF HasBytes
    <3>2. \E b \in BOOLEAN : s2c[d][s] = <<[t |-> "size", some |-> b]>>
      BY <1>7, <2>4, <3>1 DEF Asking, Quiet
    <3>3. serverEnd[d][s] # "open" \/ spc[s][d] \notin {"none", "ended"}
      BY <1>7, <2>4 DEF Asking, Quiet
    <3> QED BY <1>2, <1>3, <2>4, <3>2, <3>3 DEF Asking, AtRest
  <2> QED BY <2>1, <2>2, <2>3, <2>4
<1>8. ASSUME NEW u \in Server, Reading(d, u) PROVE Reading(d, u)'
  <2>1. CASE u # s
    BY <1>2, <1>4, <1>8, <2>1, ReadingKept
  <2>2. CASE u = s /\ s2c[d][s] = <<>>
    BY <1>2, <1>3, <2>2 DEF Reading, AtRest
  <2>3. CASE u = s /\ s2c[d][s] # <<>>
    <3>1. \E m \in S2C : m.t = "data" /\ Wanted(d, m.path) /\ s2c[d][s] = <<m>>
      BY <1>8, <2>3 DEF Reading
    <3>2. \E m \in S2C : m.t = "data" /\ (Wanted(d, m.path))' /\ s2c'[d][s] = <<m>>
      BY <1>2, <3>1, WantKept
    <3> QED BY <1>3, <2>3, <3>2 DEF Reading, AtRest
  <2> QED BY <2>1, <2>2, <2>3
<1>9. cpc[d] = "get_size" => Asking(d, srv[d])'
  BY <1>0, <1>2, <1>6, <1>7 DEF OneRequest
<1>10. cpc[d] = "get_data" => Reading(d, srv[d])'
  BY <1>0, <1>2, <1>6, <1>8 DEF OneRequest
<1>11. cpc[d] \in {"connect", "dispatch"} =>
         \A u \in Server : c2s'[d][u] = <<>> /\ s2c'[d][u] = <<>> /\ AtRest(d, u)'
  BY <1>0, <1>2, <1>3 DEF OneRequest, AtRest
<1> QED BY <1>0, <1>2, <1>5, <1>9, <1>10, <1>11 DEF OneRequest

(* ------------------------ the steps of a get ---------------------------- *)

GetStep(c) == \/ Connect(c) \/ GetStart(c) \/ GetQuery(c) \/ GetQueryDies(c) \/ GetMissing(c)
              \/ GetJunk(c) \/ GetReady(c) \/ GetNot(c) \/ GetFails(c) \/ GetData(c)
              \/ GetDataFails(c) \/ GetDataForEver(c) \/ Finish(c) \/ Kill(c)

LEMMA StepsOfGet ==
  ASSUME RolesKept, NEW c \in Gets, ClientStep(c) \/ Kill(c)
  PROVE  GetStep(c)
<1>1. cpc[c] \in {"connect", "dispatch", "exited", "killed", "get_query", "get_size", "get_data",
                  "wedged"} /\ Job[c].cmd = "get"
  BY DEF RolesKept, StatesOf, Gets
<1>2. ~PutRefused(c) /\ ~PutStart(c) /\ ~ListStart(c) /\ ~PutSkip(c) /\ ~PutSend(c)
      /\ ~PutSendDies(c) /\ ~PutAcked(c) /\ ~PutEof(c) /\ ~PutFails(c)
  BY <1>1 DEF PutRefused, PutStart, ListStart, PutSkip, PutSend, PutSendDies, PutAcked, PutEof,
     PutFails
<1>3. ~ListQuery(c) /\ ~ListAnswered(c) /\ ~ListFails(c) /\ ~ListFailsDies(c) /\ ~ListShow(c)
  BY <1>1 DEF ListQuery, ListAnswered, ListFails, ListFailsDies, ListShow
<1> QED BY <1>2, <1>3 DEF ClientStep, GetStep

LEMMA OfGet ==
  ASSUME TalkInv, NEW c \in Gets
  PROVE  /\ c \in Client /\ OneRequest(c) /\ LoopInRange(c) /\ \A s \in Server : EndIsFinal(c, s)
         /\ ClientType /\ MemoryType /\ NetType /\ ServerType
BY DEF TalkInv, Gets, GetsInv, TypeInv, TypeOK, LoopsInRange, EndsAreFinal

\* A step of c that leaves its connection with s alone.
LEMMA QuietStays ==
  ASSUME NEW c, NEW s, UNCHANGED <<spc, cur, disk>>, c2s'[c][s] = c2s[c][s],
         s2c'[c][s] = s2c[c][s], Quiet(c, s)
  PROVE  Quiet(c, s)'
BY QuietKept DEF Same

LEMMA FreeStays ==
  ASSUME NEW c, NEW s, UNCHANGED <<spc, cur, disk>>
  PROVE  Free(c, s)' <=> Free(c, s)
BY DEF Free, AtRest, Stale, HasBytes, Size

LEMMA QuietAgain ==
  ASSUME NEW c, NEW s, UNCHANGED <<spc, cur, disk>>, c2s'[c][s] = <<>>, s2c'[c][s] = <<>>,
         Free(c, s)
  PROVE  Quiet(c, s)'
BY FreeStays DEF Quiet

LEMMA GetConnects ==
  ASSUME TalkInv, NEW c \in Gets, Connect(c)
  PROVE  OneRequest(c)'
<1>1. cpc'[c] \in {"connect", "dispatch"} /\ UNCHANGED <<c2s, s2c>>
  BY OfGet DEF Connect, ClientType, net
<1>2. \A s \in Server : c2s[c][s] = <<>> /\ s2c[c][s] = <<>> /\ AtRest(c, s)
  BY OfGet DEF Connect, OneRequest
<1>3. \A s \in Server : AtRest(c, s)'
  BY <1>2, OfGet DEF Connect, AtRest, ServerType
<1> QED BY <1>1, <1>2, <1>3 DEF OneRequest

\* Back to the inner loop with nothing under way.
LEMMA BackToQuery ==
  ASSUME NEW c, cpc'[c] = "get_query", \A s \in Server : live'[c][s] => Quiet(c, s)'
  PROVE  OneRequest(c)'
BY DEF OneRequest

LEMMA GetGoesOn ==
  ASSUME TalkInv, NEW c \in Gets, GetStart(c) \/ GetMissing(c) \/ GetJunk(c)
  PROVE  OneRequest(c)'
<1>1. cpc'[c] = "get_query" /\ live' = live /\ UNCHANGED <<c2s, s2c, spc, cur, disk>>
  BY OfGet DEF GetStart, GetMissing, GetJunk, NextChunk, NextFile, ClientType, net, server, memory
<1>2. \A s \in Server : live[c][s] => Quiet(c, s)
  BY OfGet DEF GetStart, GetMissing, GetJunk, OneRequest, Quiet, Free
<1> QED BY <1>1, <1>2, QuietStays, BackToQuery

LEMMA GetAsks ==
  ASSUME TalkInv, NEW c \in Gets, GetQuery(c)
  PROVE  OneRequest(c)'
<1>0. /\ c \in Client /\ ClientType /\ NetType
      /\ \A s \in Server : live[c][s] => Quiet(c, s)
  BY OfGet DEF GetQuery, OneRequest
<1>1. PICK s \in Server : /\ NextToAsk(c, s) /\ ClientSends(c, s, <<Request(c)>>)
                          /\ srv' = [srv EXCEPT ![c] = s]
  BY DEF GetQuery, Request
<1>2. /\ cpc'[c] = "get_size" /\ srv'[c] = s /\ arg' = arg /\ pos' = pos /\ live' = live
      /\ s2c' = s2c /\ UNCHANGED <<spc, cur, disk>>
  BY <1>0, <1>1 DEF GetQuery, ClientType, memory, server
<1>3. live[c][s] /\ Quiet(c, s)
  BY <1>0, <1>1 DEF NextToAsk
<1>4. \A u \in Server \ {s} : c2s'[c][u] = c2s[c][u]
  BY <1>0, <1>1 DEF ClientSends, NetType
<1>5. \A u \in Server \ {s} : live[c][u] => Quiet(c, u)'
  BY <1>0, <1>2, <1>4, QuietStays
<1>6. Asking(c, s)'
  <2>1. CASE serverEnd[c][s] = "open"
    <3>1. c2s'[c][s] = c2s[c][s] \o <<Request(c)>>
      BY <1>0, <1>1, <2>1 DEF ClientSends, NetType
    <3>2. c2s'[c][s] = <<Request(c)>>
      BY <1>3, <3>1, Singles DEF Quiet
    <3>3. Request(c)' = Request(c)
      BY <1>2, WantKept
    <3>4. s2c'[c][s] = <<>> /\ Free(c, s)'
      BY <1>2, <1>3, FreeStays DEF Quiet
    <3> QED BY <3>2, <3>3, <3>4 DEF Asking
  <2>2. CASE serverEnd[c][s] # "open"
    <3>1. c2s'[c][s] = c2s[c][s]
      BY <1>1, <2>2 DEF ClientSends
    <3>2. Quiet(c, s)'
      BY <1>2, <1>3, <3>1, QuietStays
    <3> QED BY <3>2 DEF Asking
  <2> QED BY <2>1, <2>2
<1> QED BY <1>2, <1>3, <1>5, <1>6 DEF OneRequest

LEMMA ReceivesOne ==
  ASSUME NetType, NEW c \in Client, NEW s \in Server, Receive(c, s)
  PROVE  /\ s2c'[c][s] = Tail(s2c[c][s])
         /\ \A u \in Server \ {s} : s2c'[c][u] = s2c[c][u]
BY DEF NetType, Receive

LEMMA GetReads ==
  ASSUME TalkInv, NEW c \in Gets, GetReady(c)
  PROVE  OneRequest(c)'
<1> DEFINE s == srv[c]
<1>0. /\ c \in Client /\ ClientType /\ NetType /\ s \in Server /\ EndIsFinal(c, s)
      /\ Asking(c, s) /\ live[c][s]
      /\ \A u \in Server \ {s} : live[c][u] => Quiet(c, u)
  BY OfGet DEF GetReady, OneRequest, LoopInRange
<1>1. /\ Arrived(c, s) /\ Head(s2c[c][s]).t = "size" /\ Head(s2c[c][s]).some
      /\ Receive(c, s) /\ ClientSends(c, s, <<Ready>>)
  BY DEF GetReady, Ready
<1>2. /\ cpc'[c] = "get_data" /\ srv' = srv /\ arg' = arg /\ pos' = pos /\ live' = live
      /\ UNCHANGED <<spc, cur, disk>>
  BY <1>0 DEF GetReady, ClientType, memory, server
<1>3. /\ s2c'[c][s] = Tail(s2c[c][s])
      /\ \A u \in Server \ {s} : s2c'[c][u] = s2c[c][u] /\ c2s'[c][u] = c2s[c][u]
  BY <1>0, <1>1, ReceivesOne DEF ClientSends, NetType
<1>4. \A u \in Server \ {s} : live[c][u] => Quiet(c, u)'
  BY <1>0, <1>2, <1>3, QuietStays
<1>5. c2s[c][s] = <<>> /\ Tail(s2c[c][s]) = <<>>
  <2>1. s2c[c][s] # <<>>
    BY <1>1 DEF Arrived
  <2>2. c2s[c][s] = <<>> /\ \E x : s2c[c][s] = <<x>>
    BY <1>0, <2>1 DEF Asking, Quiet
  <2> QED BY <2>2, Singles
<1>6. Reading(c, s)'
  <2>1. CASE serverEnd[c][s] = "open"
    <3>1. /\ spc[s][c] = "get_ready" /\ Wanted(c, cur[s][c])
          /\ s2c[c][s] = <<[t |-> "size", some |-> HasBytes(s, cur[s][c])]>>
      <4>a. NotFound.t = "not found"
        BY DEF NotFound
      <4>1. Head(s2c[c][s]) # NotFound
        BY <1>1, <4>a
      <4>2. s2c[c][s] # <<NotFound>>
        BY <4>1, Singles
      <4> QED BY <1>0, <1>1, <2>1, <4>2 DEF Asking, Quiet, Arrived
    <3>2. HasBytes(s, cur[s][c])
      BY <1>1, <3>1, Singles
    <3>3. c2s'[c][s] = <<Ready>>
      <4>1. c2s'[c][s] = c2s[c][s] \o <<Ready>>
        BY <1>0, <1>1, <2>1 DEF ClientSends, NetType
      <4> QED BY <1>5, <4>1, Singles
    <3>4. HasBytes(s, cur[s][c])' /\ Wanted(c, cur[s][c])'
      BY <1>2, <3>1, <3>2, WantKept DEF HasBytes, Size, Wanted
    <3>5. Ready' = Ready
      BY DEF Ready
    <3> QED BY <1>2, <1>3, <1>5, <3>1, <3>3, <3>4, <3>5 DEF Reading
  <2>2. CASE serverEnd[c][s] # "open"
    BY <1>0, <1>1, <1>2, <1>3, <1>5, <2>2 DEF EndIsFinal, Reading, AtRest, ClientSends
  <2> QED BY <2>1, <2>2
<1> QED BY <1>0, <1>2, <1>4, <1>6 DEF OneRequest

LEMMA GetHasNot ==
  ASSUME TalkInv, NEW c \in Gets, GetNot(c)
  PROVE  OneRequest(c)'
<1> PICK s \in Server : s = srv[c]
  BY OfGet DEF GetNot, LoopInRange
<1>0. /\ c \in Client /\ ClientType /\ NetType /\ EndIsFinal(c, s)
      /\ Asking(c, s)
      /\ \A u \in Server \ {s} : live[c][u] => Quiet(c, u)
  BY OfGet DEF GetNot, OneRequest
<1>1. cpc'[c] = "get_query" /\ live' = live /\ c2s' = c2s /\ UNCHANGED <<spc, cur, disk>>
  BY <1>0 DEF GetNot, ClientType, server
<1>2. \A u \in Server \ {s} : s2c'[c][u] = s2c[c][u]
  BY <1>0, ReceivesOne DEF GetNot
<1>3. \A u \in Server \ {s} : live[c][u] => Quiet(c, u)'
  BY <1>0, <1>1, <1>2, QuietStays
<1>4. Quiet(c, s)'
  <2>1. CASE Arrived(c, s) /\ Receive(c, s) /\ (Head(s2c[c][s]).t = "size" => ~Head(s2c[c][s]).some)
    <3>1. s2c[c][s] # <<>> /\ s2c'[c][s] = Tail(s2c[c][s])
      BY <1>0, <2>1, ReceivesOne DEF Arrived
    <3>2. c2s[c][s] = <<>> /\ \E x : s2c[c][s] = <<x>>
      BY <1>0, <3>1 DEF Asking, Quiet
    <3>3. s2c'[c][s] = <<>>
      BY <3>1, <3>2, Singles
    <3>4. Free(c, s)
      <4>1. CASE spc[s][c] = "get_ready"
        <5>1. s2c[c][s] = <<[t |-> "size", some |-> HasBytes(s, cur[s][c])]>>
          BY <1>0, <3>1, <4>1 DEF Asking, Quiet, AtRest
        <5>2. ~HasBytes(s, cur[s][c])
          BY <2>1, <5>1, Singles
        <5> QED BY <4>1, <5>2 DEF Free, Stale
      <4>2. CASE spc[s][c] # "get_ready"
        BY <1>0, <3>1, <4>2 DEF Asking, Quiet, Free
      <4> QED BY <4>1, <4>2
    <3> QED BY <1>1, <3>2, <3>3, <3>4, QuietAgain
  <2>2. CASE ReadsEof(c, s) /\ UNCHANGED s2c
    <3>1. s2c[c][s] = <<>> /\ serverEnd[c][s] # "open"
      BY <2>2 DEF ReadsEof, Arrived
    <3>2. c2s[c][s] = <<>> /\ Free(c, s)
      BY <1>0, <3>1 DEF EndIsFinal, Free, AtRest
    <3> QED BY <1>1, <2>2, <3>1, <3>2, QuietAgain
  <2> QED BY <2>1, <2>2 DEF GetNot
<1> QED BY <1>1, <1>3, <1>4, BackToQuery

LEMMA GetGivesUp ==
  ASSUME TalkInv, NEW c \in Gets, GetFails(c)
  PROVE  OneRequest(c)'
<1> DEFINE s == srv[c]
<1>0. /\ c \in Client /\ ClientType /\ MemoryType /\ s \in Server
      /\ \A u \in Server \ {s} : live[c][u] => Quiet(c, u)
  BY OfGet DEF GetFails, OneRequest, LoopInRange
<1>1. /\ cpc'[c] = "get_query" /\ UNCHANGED <<c2s, s2c, spc, cur, disk>> /\ ~live'[c][s]
      /\ \A u \in Server \ {s} : live'[c][u] = live[c][u]
  BY <1>0 DEF GetFails, ClientType, MemoryType, net, server
<1> QED BY <1>0, <1>1, QuietStays, BackToQuery

LEMMA GetTakes ==
  ASSUME TalkInv, NEW c \in Gets, GetData(c)
  PROVE  OneRequest(c)'
<1> PICK s \in Server : s = srv[c]
  BY OfGet DEF GetData, LoopInRange
<1>0. /\ c \in Client /\ ClientType /\ NetType /\ Reading(c, s)
      /\ \A u \in Server \ {s} : live[c][u] => Quiet(c, u)
  BY OfGet DEF GetData, OneRequest
<1>1. /\ cpc'[c] = "get_query" /\ live' = live /\ c2s' = c2s /\ UNCHANGED <<spc, cur, disk>>
      /\ Receive(c, s) /\ s2c[c][s] # <<>>
  BY <1>0 DEF GetData, ClientType, server, NextChunk, NextFile, Arrived
<1>2. \A u \in Server \ {s} : s2c'[c][u] = s2c[c][u]
  BY <1>0, <1>1, ReceivesOne
<1>3. \A u \in Server \ {s} : live[c][u] => Quiet(c, u)'
  BY <1>0, <1>1, <1>2, QuietStays
<1>4. c2s[c][s] = <<>> /\ AtRest(c, s) /\ \E x : s2c[c][s] = <<x>>
  BY <1>0, <1>1 DEF Reading
<1>5. s2c'[c][s] = Tail(s2c[c][s]) /\ Tail(s2c[c][s]) = <<>>
  <2>1. s2c'[c][s] = Tail(s2c[c][s])
    BY <1>0, <1>1, ReceivesOne
  <2> QED BY <1>4, <2>1, Singles
<1>6. Quiet(c, s)'
  BY <1>1, <1>4, <1>5, QuietAgain DEF Free
<1> QED BY <1>1, <1>3, <1>6, BackToQuery

LEMMA GetEnds ==
  ASSUME TalkInv, NEW c \in Gets,
         GetQueryDies(c) \/ GetDataFails(c) \/ GetDataForEver(c) \/ Finish(c) \/ Kill(c)
  PROVE  OneRequest(c)'
<1>1. cpc'[c] \in {"exited", "killed", "wedged"}
  BY OfGet DEF GetQueryDies, GetDataFails, GetDataForEver, Finish, Kill, Dies, ClientType
<1> QED BY <1>1 DEF OneRequest

LEMMA GetOfOne ==
  ASSUME TalkInv, NEW c \in Gets, ClientStep(c) \/ Kill(c)
  PROVE  OneRequest(c)'
<1>1. GetStep(c)
  BY StepsOfGet DEF TalkInv
<1> QED BY <1>1, GetConnects, GetGoesOn, GetAsks, GetReads, GetHasNot, GetGivesUp, GetTakes, GetEnds
    DEF GetStep

\* A step that leaves the directories alone, and of c everything.
LEMMA GetAside ==
  ASSUME TalkInv, UNCHANGED disk, NEW c \in Gets, ProgressKept(c), live'[c] = live[c],
         \A s \in Server : /\ spc'[s][c] = spc[s][c] /\ cur'[s][c] = cur[s][c]
                           /\ c2s'[c][s] = c2s[c][s] /\ s2c'[c][s] = s2c[c][s]
                           /\ serverEnd'[c][s] = serverEnd[c][s]
  PROVE  OneRequest(c)'
<1>1. \A s \in Server : Same(c, s)
  BY DEF Same
<1>2. ClientType /\ LoopsInRange /\ OneRequest(c)
  BY OfGet DEF TalkInv, TypeInv
<1> QED BY <1>1, <1>2, GetFrame

LEMMA GetsClients ==
  ASSUME TalkInv, NEW c \in Client, ClientStep(c) \/ Kill(c)
  PROVE  GetsInv'
<1> SUFFICES ASSUME NEW d \in Gets PROVE OneRequest(d)'
  BY DEF GetsInv, Gets
<1>1. CASE d = c
  BY <1>1, GetOfOne
<1>2. CASE d # c
  <2>1. /\ ClientKept(d) /\ \A s \in Server : spc'[s][d] = spc[s][d]
    BY <1>2, OthersKept DEF TalkInv, Gets
  <2>2. UNCHANGED <<cur, disk>>
    BY ClientsLeaveDisk
  <2> QED BY <2>1, <2>2, GetAside DEF ClientKept, NetKept, MemoryKept
<1> QED BY <1>1, <1>2

LEMMA GetsStep == TalkInv /\ [Next]_vars => GetsInv'
<1> SUFFICES ASSUME TalkInv, [Next]_vars PROVE GetsInv'
  OBVIOUS
<1>1. CASE UNCHANGED <<progress, memory, net, spc, cur, disk>>
  <2> SUFFICES ASSUME NEW d \in Gets PROVE OneRequest(d)'
    BY DEF GetsInv, Gets
  <2>1. ProgressKept(d) /\ live'[d] = live[d]
    BY <1>1 DEF ProgressKept, progress, memory
  <2> QED BY <1>1, <2>1, GetAside DEF net
<1>2. ASSUME NEW c \in Client, ClientStep(c) \/ Kill(c) PROVE GetsInv'
  BY <1>2, GetsClients
<1>3. ASSUME NEW s \in Server, NEW c \in Client, ThreadStep(s, c) PROVE GetsInv'
  BY <1>3, GetsThreads, GetsDeath
<1>4. ASSUME NEW s \in Server, Crash(s) \/ Restart(s) PROVE GetsInv'
  <2>1. CASE Crash(s)
    BY <2>1, GetsDeath DEF Crash
  <2>2. CASE Restart(s)
    BY <1>1, <2>2 DEF Restart
  <2> QED BY <1>4, <2>1, <2>2
<1>5. CASE UNCHANGED vars
  BY <1>1, <1>5 DEF vars, server
<1> QED BY <1>2, <1>3, <1>4, <1>5 DEF Next

LEMMA TalkInvariant == Spec => []TalkInv
<1>1. Init => TalkInv
  BY TypeInit, MutexInit, RolesInit, EndsInit, RepliesInit DEF TalkInv
<1>2. TalkInv /\ [Next]_vars => TalkInv'
  BY TypeStep, MutexStep, RolesStep, EndsStep, RepliesStep, OpenStep, GetsStep DEF TalkInv
<1> QED BY <1>1, <1>2, PTL DEF Spec

(* ------------------- a client takes an answer for what it is ------------ *)

\* What a client reads answers what it sent last, and a get is given the
\* chunk it wants (dfc.c:172-201, 316-345, 429): for whatever servers die and
\* start again, and however late an answer comes.
THEOREM AnswersAreTaken == Spec => []AnswersMatch
<1>1. TalkInv => AnswersMatch
  <2> SUFFICES ASSUME TalkInv, NEW c \in Client, cpc[c] \in DOMAIN Answer, Arrived(c, srv[c])
               PROVE  /\ Head(s2c[c][srv[c]]).t \in Answer[cpc[c]]
                      /\ Head(s2c[c][srv[c]]).t = "data" => Head(s2c[c][srv[c]]).path.chunk = pos[c]
    BY DEF AnswersMatch
  <2> DEFINE s == srv[c]
             m == Head(s2c[c][s])
  <2>0. /\ cpc[c] \in {"put_ack", "get_size", "get_data", "list_names"}
        /\ s2c[c][s] # <<>> /\ s \in Server /\ cpc[c] \in StatesOf(c)
        /\ Job[c].cmd \in {"get", "put", "list"}
    BY CommandOf DEF Answer, Arrived, TalkInv, TypeInv, LoopsInRange, LoopInRange, RolesKept
  <2>1. m \in RepliesTo(c)
    <3>1. s2c[c][s] \in Seq(RepliesTo(c))
      BY <2>0 DEF TalkInv, RepliesKept
    <3> QED BY <2>0, <3>1
  <2>a. /\ Answer["put_ack"] = {"ack"} /\ Answer["get_size"] = {"size", "not found"}
        /\ Answer["get_data"] = {"data"} /\ Answer["list_names"] = {"names"}
    BY DEF Answer
  <2>2. CASE cpc[c] = "put_ack"
    <3>1. Job[c].cmd = "put"
      BY <2>0, <2>2 DEF StatesOf
    <3>2. m.t = "ack"
      BY <2>1, <3>1 DEF RepliesTo
    <3> QED BY <2>2, <2>a, <3>2
  <2>3. CASE cpc[c] = "list_names"
    <3>1. Job[c].cmd = "list"
      BY <2>0, <2>3 DEF StatesOf
    <3>2. m.t = "names"
      BY <2>1, <3>1 DEF RepliesTo
    <3> QED BY <2>3, <2>a, <3>2
  <2>4. CASE cpc[c] = "get_size"
    <3>1. Asking(c, s)
      BY <2>0, <2>4 DEF StatesOf, TalkInv, GetsInv, OneRequest, Gets
    <3>2. s2c[c][s] = <<NotFound>> \/ \E b : s2c[c][s] = <<[t |-> "size", some |-> b]>>
      BY <2>0, <3>1 DEF Asking, Quiet
    <3>3. m = NotFound \/ \E b : m = [t |-> "size", some |-> b]
      BY <3>2, Singles
    <3>a. NotFound.t = "not found" /\ \A b : [t |-> "size", some |-> b].t = "size"
      BY DEF NotFound
    <3>4. m.t \in {"not found", "size"}
      <4> HIDE DEF m
      <4> QED BY <3>3, <3>a
    <3> QED BY <2>4, <2>a, <3>4
  <2>5. CASE cpc[c] = "get_data"
    <3>1. Reading(c, s)
      BY <2>0, <2>5 DEF StatesOf, TalkInv, GetsInv, OneRequest, Gets
    <3>2. \E x \in S2C : x.t = "data" /\ Wanted(c, x.path) /\ s2c[c][s] = <<x>>
      BY <2>0, <3>1 DEF Reading
    <3>3. m.t = "data" /\ Wanted(c, m.path)
      BY <3>2, Singles
    <3> QED BY <2>5, <2>a, <3>3 DEF Wanted
  <2> QED BY <2>0, <2>2, <2>3, <2>4, <2>5
<1> QED BY <1>1, TalkInvariant, PTL

(* ------------------- a get writes the chunks in order ------------------- *)

\* What a chunk loop has together before it goes on to the next chunk.
PartsOk(c, parts) ==
  /\ parts \in Seq(Piece)
  /\ \A i \in DOMAIN parts : Alias = {} => parts[i].path.file = F(c)
  /\ (\E s \in Server : live[c][s]) =>
       Len(parts) = pos[c] /\ \A i \in DOMAIN parts : parts[i].path.chunk = i

LEMMA NewOutcome ==
  ASSUME TypeInv, NEW c \in Client, NEW status, NEW parts, NextFile(c, status, parts),
         NEW r \in result'[c]
  PROVE  \/ r \in result[c]
         \/ r.file = F(c) /\ r.status = status /\ r.parts = parts
<1> DEFINE new == [arg |-> arg[c], file |-> F(c), status |-> status, parts |-> parts]
<1>1. result' = [result EXCEPT ![c] = @ \cup {new}]
  BY DEF NextFile
<1>2. new.file = F(c) /\ new.status = status /\ new.parts = parts
  OBVIOUS
<1> HIDE DEF new
<1>3. r \in result[c] \cup {new}
  BY <1>1 DEF TypeInv, TypeOK, MemoryType
<1> QED BY <1>2, <1>3

LEMMA NextFileResets ==
  ASSUME TypeInv, NEW c \in Client, NEW status, NEW parts, NextFile(c, status, parts)
  PROVE  cpc'[c] = "get_query" /\ pos'[c] = 1 /\ srv'[c] = 1 /\ local'[c] = <<>>
BY DEF NextFile, TypeInv, TypeOK, ClientType, MemoryType

LEMMA FileIsWhole ==
  ASSUME TypeInv, NEW c \in Client, ResultsOk(c), live'[c] = live[c],
         NEW status, NEW parts, NextFile(c, status, parts),
         status = "success" => pos[c] = N /\ PartsOk(c, parts)
  PROVE  SoFar(c)' /\ ResultsOk(c)'
<1>1. SoFar(c)'
  BY NextFileResets DEF SoFar
<1>2. ResultsOk(c)'
  <2> SUFFICES ASSUME NEW r \in result'[c], r.status = "success"
               PROVE  /\ \A i \in DOMAIN r.parts : Alias = {} => r.parts[i].path.file = r.file
                      /\ (\E s \in Server : live'[c][s]) =>
                           Len(r.parts) = N /\ \A i \in 1..N : r.parts[i].path.chunk = i
    BY DEF ResultsOk, Outcomes
  <2>1. CASE r \in result[c]
    BY <2>1 DEF ResultsOk, Outcomes
  <2>2. CASE r.file = F(c) /\ r.status = status /\ r.parts = parts
    <3>1. pos[c] = N /\ PartsOk(c, parts)
      BY <2>2
    <3>2. DOMAIN parts = 1..Len(parts)
      BY <3>1 DEF PartsOk
    <3> QED BY <2>2, <3>1, <3>2 DEF PartsOk
  <2> QED BY <2>1, <2>2, NewOutcome
<1> QED BY <1>1, <1>2

LEMMA ChunkIsNext ==
  ASSUME TypeInv, NEW c \in Client, ResultsOk(c), live'[c] = live[c],
         NEW parts, NextChunk(c, parts), PartsOk(c, parts)
  PROVE  SoFar(c)' /\ ResultsOk(c)'
<1>1. CASE pos[c] = N
  BY <1>1, FileIsWhole DEF NextChunk
<1>2. CASE pos[c] # N
  <2>1. /\ cpc'[c] = "get_query" /\ pos'[c] = pos[c] + 1 /\ srv'[c] = 1 /\ local'[c] = parts
        /\ arg' = arg /\ result' = result /\ pos[c] \in Nat
    BY <1>2, NAssumption DEF NextChunk, TypeInv, TypeOK, ClientType, MemoryType, Chunk
  <2>2. F(c)' = F(c)
    BY <2>1 DEF F
  <2>3. SoFar(c)'
    BY <2>1, <2>2 DEF SoFar, PartsOk
  <2> QED BY <2>1, <2>3 DEF ResultsOk, Outcomes
<1> QED BY <1>1, <1>2

\* The piece that a get has read is that of the chunk it wants.
LEMMA PieceIsWanted ==
  ASSUME TalkInv, NEW c \in Gets, SoFar(c), GetData(c)
  PROVE  /\ live[c][srv[c]] /\ srv[c] \in Server
         /\ \E q \in Piece : /\ Wanted(c, q.path)
                             /\ NextChunk(c, Append(local[c], q))
                             /\ s2c[c][srv[c]] # <<>> /\ q.path = Head(s2c[c][srv[c]]).path
                             /\ PartsOk(c, Append(local[c], q))
<1> DEFINE s == srv[c]
<1>0. /\ c \in Client /\ ClientType /\ MemoryType /\ NetType /\ s \in Server /\ live[c][s]
      /\ Reading(c, s) /\ cpc[c] = "get_data"
  BY OfGet DEF GetData, OneRequest, LoopInRange
<1>1. s2c[c][s] # <<>>
  BY DEF GetData, Arrived
<1>2. PICK m \in S2C : m.t = "data" /\ Wanted(c, m.path) /\ s2c[c][s] = <<m>>
  BY <1>0, <1>1 DEF Reading
<1>3. Head(s2c[c][s]) = m
  BY <1>2, Singles
<1> DEFINE q == [path |-> m.path, ver |-> m.ver, st |-> m.st]
<1>4. NextChunk(c, Append(local[c], q))
  BY <1>3 DEF GetData
<1>5. q \in Piece /\ q.path = m.path
  BY <1>2, PieceType
<1>6. PartsOk(c, Append(local[c], q))
  <2> HIDE DEF q
  <2>1. /\ local[c] \in Seq(Piece) /\ pos[c] \in Nat
    BY <1>0, NAssumption DEF MemoryType, ClientType, Chunk
  <2>2. Len(local[c]) = pos[c] - 1 /\ \A i \in DOMAIN local[c] : local[c][i].path.chunk = i
    BY <1>0 DEF SoFar
  <2>3. q.path.chunk = pos[c] /\ (Alias = {} => q.path.file = F(c))
    BY <1>2, <1>5 DEF Wanted
  <2>4. /\ Append(local[c], q) \in Seq(Piece) /\ Len(Append(local[c], q)) = pos[c]
        /\ DOMAIN Append(local[c], q) = 1..pos[c] /\ DOMAIN local[c] = 1..(pos[c] - 1)
    BY <1>5, <2>1, <2>2
  <2>5. \A i \in 1..pos[c] :
          Append(local[c], q)[i] = IF i = pos[c] THEN q ELSE local[c][i]
    BY <1>5, <2>1, <2>2
  <2>6. ASSUME NEW i \in 1..pos[c]
        PROVE  /\ Append(local[c], q)[i].path.chunk = i
               /\ Alias = {} => Append(local[c], q)[i].path.file = F(c)
    <3>1. CASE i = pos[c]
      BY <2>3, <2>5, <3>1
    <3>2. CASE i # pos[c]
      <4>1. i \in DOMAIN local[c]
        BY <2>1, <2>4, <3>2
      <4> QED BY <1>0, <2>2, <2>5, <3>2, <4>1 DEF SoFar
    <3> QED BY <3>1, <3>2
  <2> QED BY <2>4, <2>6 DEF PartsOk
<1> QED BY <1>0, <1>1, <1>2, <1>3, <1>4, <1>5, <1>6

LEMMA FilesInit == Init => FilesInv
<1> SUFFICES ASSUME Init, NEW c \in Gets PROVE SoFar(c) /\ ResultsOk(c)
  BY DEF FilesInv
<1>1. c \in Client /\ 1 <= N
  BY NAssumption DEF Gets
<1> QED BY <1>1, NAssumption DEF Init, SoFar, ResultsOk, Outcomes

\* Where nothing changes but where the loop is.
LEMMA SoFarKept ==
  ASSUME NEW c \in Gets, SoFar(c), ResultsOk(c), arg'[c] = arg[c], pos'[c] = pos[c],
         local'[c] = local[c], result'[c] = result[c],
         \A s \in Server : live'[c][s] => live[c][s],
         cpc[c] \in {"get_query", "get_size", "get_data"},
         cpc'[c] \notin {"connect", "dispatch"},
         cpc'[c] = "get_query" => got'[c] # "junk"
  PROVE  SoFar(c)' /\ ResultsOk(c)'
<1>1. F(c)' = F(c)
  BY DEF F
<1>2. SoFar(c)'
  BY <1>1 DEF SoFar
<1>3. ResultsOk(c)'
  BY DEF ResultsOk, Outcomes
<1> QED BY <1>2, <1>3

LEMMA FilesEnd ==
  ASSUME NEW c \in Gets, ResultsOk(c), result'[c] = result[c], live'[c] = live[c],
         cpc'[c] \in {"exited", "killed", "wedged"}
  PROVE  SoFar(c)' /\ ResultsOk(c)'
BY DEF SoFar, ResultsOk, Outcomes

LEMMA FilesOfOne ==
  ASSUME TalkInv, FilesInv, NEW c \in Gets, ClientStep(c) \/ Kill(c)
  PROVE  SoFar(c)' /\ ResultsOk(c)'
<1>0. /\ GetStep(c) /\ SoFar(c) /\ ResultsOk(c) /\ c \in Client /\ TypeInv
      /\ ClientType /\ MemoryType /\ NetType /\ LoopInRange(c)
  BY StepsOfGet, OfGet DEF TalkInv, FilesInv
<1>1. CASE Connect(c)
  <2>1. /\ pos'[c] = pos[c] /\ local'[c] = local[c] /\ result'[c] = result[c]
        /\ base'[c] = base[c] /\ arg'[c] = arg[c]
        /\ cpc'[c] \in {"connect", "dispatch"} /\ srv'[c] <= N
        /\ cpc'[c] = "dispatch" => srv'[c] = 1
    BY <1>0, <1>1, NAssumption DEF Connect, ClientType, MemoryType, hist
  <2>2. local[c] = <<>> /\ pos[c] = 1 /\ result[c] = {} /\ base[c] = {}
    BY <1>0, <1>1 DEF Connect, SoFar
  <2>3. SoFar(c)'
    BY <2>1, <2>2 DEF SoFar
  <2> QED BY <2>1, <2>2, <2>3 DEF ResultsOk, Outcomes
<1>2. CASE GetStart(c)
  <2>1. /\ cpc[c] = "dispatch" /\ cpc'[c] = "get_query"
        /\ UNCHANGED <<pos, local, result, live, arg, srv, got>>
    BY <1>0, <1>2 DEF GetStart, ClientType, memory
  <2>2. SoFar(c)'
    BY <1>0, <2>1 DEF SoFar, F
  <2> QED BY <1>0, <2>1, <2>2 DEF ResultsOk, Outcomes
<1>3. CASE GetQuery(c) \/ GetReady(c)
  <2>1. /\ cpc[c] \in {"get_query", "get_size"} /\ cpc'[c] \in {"get_size", "get_data"}
        /\ UNCHANGED <<pos, local, result, live, arg>>
    BY <1>0, <1>3 DEF GetQuery, GetReady, ClientType, memory
  <2> QED BY <1>0, <2>1, SoFarKept
<1>4. CASE GetNot(c)
  <2>1. /\ cpc[c] = "get_size" /\ cpc'[c] = "get_query" /\ got'[c] = "no"
        /\ UNCHANGED <<pos, local, result, live, arg>>
    BY <1>0, <1>4 DEF GetNot, ClientType, MemoryType
  <2> QED BY <1>0, <2>1, SoFarKept
<1>5. CASE GetFails(c)
  <2>1. /\ cpc[c] = "get_size" /\ cpc'[c] = "get_query" /\ got'[c] = "no"
        /\ UNCHANGED <<pos, local, result, arg>>
        /\ \A s \in Server : live'[c][s] => live[c][s]
    BY <1>0, <1>5 DEF GetFails, ClientType, MemoryType
  <2> QED BY <1>0, <2>1, SoFarKept
<1>6. CASE GetMissing(c)
  <2>1. NextFile(c, "incomplete", <<>>) /\ live' = live
    BY <1>6 DEF GetMissing
  <2> QED BY <1>0, <2>1, FileIsWhole
<1>7. CASE GetJunk(c)
  <2>1. NextChunk(c, local[c]) /\ live' = live /\ cpc[c] = "get_query" /\ got[c] = "junk"
        /\ NobodyLeft(c)
    BY <1>7 DEF GetJunk
  <2>2. \A s \in Server : ~live[c][s]
    BY <1>0, <2>1 DEF SoFar, NobodyLeft, Server
  <2>3. PartsOk(c, local[c])
    BY <1>0, <2>1, <2>2 DEF PartsOk, SoFar, MemoryType
  <2> QED BY <1>0, <2>1, <2>3, ChunkIsNext
<1>8. CASE GetData(c)
  <2>1. PICK q \in Piece : NextChunk(c, Append(local[c], q)) /\ PartsOk(c, Append(local[c], q))
    BY <1>0, <1>8, PieceIsWanted
  <2>2. live' = live
    BY <1>8 DEF GetData
  <2> QED BY <1>0, <2>1, <2>2, ChunkIsNext
<1>9. CASE GetQueryDies(c) \/ GetDataFails(c) \/ GetDataForEver(c) \/ Finish(c) \/ Kill(c)
  <2>1. cpc'[c] \in {"exited", "killed", "wedged"} /\ UNCHANGED <<result, live>>
    BY <1>0, <1>9 DEF GetQueryDies, GetDataFails, GetDataForEver, Finish, Kill, Dies, ClientType,
       memory
  <2> QED BY <1>0, <2>1, FilesEnd
<1> QED BY <1>0, <1>1, <1>2, <1>3, <1>4, <1>5, <1>6, <1>7, <1>8, <1>9 DEF GetStep

LEMMA FilesAside ==
  ASSUME NEW c \in Gets, SoFar(c), ResultsOk(c), ProgressKept(c), MemoryKept(c)
  PROVE  SoFar(c)' /\ ResultsOk(c)'
<1>1. F(c)' = F(c)
  BY DEF F, ProgressKept
<1> QED BY <1>1 DEF SoFar, ResultsOk, Outcomes, ProgressKept, MemoryKept

LEMMA FilesStep == TalkInv /\ FilesInv /\ [Next]_vars => FilesInv'
<1> SUFFICES ASSUME TalkInv, FilesInv, [Next]_vars PROVE FilesInv'
  OBVIOUS
<1> SUFFICES ASSUME NEW d \in Gets PROVE SoFar(d)' /\ ResultsOk(d)'
  BY DEF FilesInv, Gets
<1>0. SoFar(d) /\ ResultsOk(d) /\ d \in Client /\ TypeInv
  BY DEF FilesInv, Gets, TalkInv
<1>1. CASE UNCHANGED <<progress, memory, eofAck, base>>
  <2>1. ProgressKept(d) /\ MemoryKept(d)
    BY <1>1 DEF ProgressKept, MemoryKept, progress, memory
  <2> QED BY <1>0, <2>1, FilesAside
<1>2. ASSUME NEW c \in Client, ClientStep(c) \/ Kill(c) PROVE SoFar(d)' /\ ResultsOk(d)'
  <2>1. CASE d = c
    BY <1>2, <2>1, FilesOfOne
  <2>2. CASE d # c
    <3>1. ProgressKept(d) /\ MemoryKept(d)
      BY <1>0, <1>2, <2>2, OthersKept DEF ClientKept
    <3> QED BY <1>0, <3>1, FilesAside
  <2> QED BY <2>1, <2>2
<1>3. ASSUME NEW s \in Server, NEW c \in Client, ThreadStep(s, c)
      PROVE  SoFar(d)' /\ ResultsOk(d)'
  <2>1. CASE ServerDies(s)
    BY <1>1, <2>1 DEF ServerDies
  <2>2. CASE ~ServerDies(s)
    BY <1>0, <1>1, <1>3, <2>2, ThreadsLeaveOthers DEF hist
  <2> QED BY <2>1, <2>2
<1>4. ASSUME NEW s \in Server, Crash(s) \/ Restart(s) PROVE SoFar(d)' /\ ResultsOk(d)'
  BY <1>1, <1>4 DEF Crash, ServerDies, Restart, hist
<1>5. CASE UNCHANGED vars
  BY <1>1, <1>5 DEF vars, hist
<1> QED BY <1>2, <1>3, <1>4, <1>5 DEF Next

LEMMA FilesInvariant == Spec => [](TalkInv /\ FilesInv)
<1>1. TalkInv /\ FilesInv /\ [Next]_vars => FilesInv'
  BY FilesStep
<1> QED BY <1>1, FilesInit, TalkInvariant, PTL DEF Spec

\* A get that says success although some server answered it wrote the N
\* chunks in their order, each from a server that gave the one it was asked
\* for (dfc.c:284-391): whatever servers are down, die or start again.
THEOREM FilesInOrder == Spec => []FileInOrder
<1>1. FilesInv => FileInOrder
  BY DEF FilesInv, ResultsOk, FileInOrder
<1> QED BY <1>1, FilesInvariant, PTL

(* ------------------------- a get reads nothing stale -------------------- *)

PathOfBase(q, k) == [file |-> q[1], chunk |-> k, ts |-> q[2]]

\* A file of a chunk is only on the two servers that hold that chunk, and
\* what was complete when a run began stays there.
HoldersOnly == \A s \in Server, p \in Path :
  Present_(s, p) => s \in Holders(HashOf[p.file], p.chunk)
BaseThere == \A c \in Client : \A q \in base[c] : \A k \in Chunk :
  \A s \in Holders(HashOf[q[1]], k) : Present_(s, PathOfBase(q, k))

\* A file that is not older than any put of it that was complete when the
\* run began: the one a thread has open, one whose bytes are on their way or
\* were written already.
Fresh(c, p) == \A q \in base[c] : q[1] = p.file => p.ts >= q[2]
FreshReplies(c) == {m \in S2C : m.t = "data" => Fresh(c, m.path)}
FreshOk(c) ==
  /\ \A s \in Server : spc[s][c] \in {"get_lock", "get_ready"} => Fresh(c, cur[s][c])
  /\ s2c[c] \in [Server -> Seq(FreshReplies(c))]
  /\ \A i \in DOMAIN local[c] : Fresh(c, local[c][i].path)
  /\ \A r \in result[c] : \A i \in DOMAIN r.parts : Fresh(c, r.parts[i].path)
FreshInv == HoldersOnly /\ BaseThere /\ \A c \in Gets : FreshOk(c)

LEMMA HoldersStep == Inv /\ HoldersOnly /\ [Next]_vars => HoldersOnly'
<1> SUFFICES ASSUME Inv, HoldersOnly, [Next]_vars, NEW s \in Server, NEW p \in Path,
                    Present_(s, p)'
             PROVE  s \in Holders(HashOf[p.file], p.chunk)
  BY DEF HoldersOnly, Holders
<1>1. CASE Present_(s, p)
  BY <1>1 DEF HoldersOnly
<1>2. CASE ~Present_(s, p)
  <2>1. PICK c \in Puts : UnderWay(c, s) /\ p = PutPath(c)
    BY <1>2, FilesStay
  <2>2. p.file = F(c) /\ p.chunk = Slot(HashOf[F(c)], s, pos[c]) /\ pos[c] \in Which
    BY <2>1 DEF UnderWay, PutPath
  <2> QED BY <2>2 DEF Holders
<1> QED BY <1>1, <1>2

LEMMA BaseChanges ==
  ASSUME NEW c \in Client, ClientStep(c) \/ Kill(c)
  PROVE  UNCHANGED base \/ GetStart(c) \/ ListStart(c)
<1>1. CASE Connect(c) \/ PutRefused(c) \/ PutStart(c) \/ PutSkip(c) \/ PutSend(c) \/ PutSendDies(c)
  BY <1>1 DEF Connect, PutRefused, PutStart, PutSkip, PutSend, PutSendDies, Dies, hist
<1>2. CASE PutAcked(c) \/ PutEof(c) \/ PutFails(c) \/ GetQuery(c) \/ GetQueryDies(c)
  BY <1>2 DEF PutAcked, PutEof, PutFails, GetQuery, GetQueryDies, Dies, hist
<1>3. CASE GetMissing(c) \/ GetJunk(c) \/ GetReady(c) \/ GetNot(c) \/ GetFails(c) \/ GetData(c)
  BY <1>3 DEF GetMissing, GetJunk, GetReady, GetNot, GetFails, GetData, hist
<1>4. CASE GetDataFails(c) \/ GetDataForEver(c) \/ ListQuery(c) \/ ListAnswered(c)
  BY <1>4 DEF GetDataFails, GetDataForEver, ListQuery, ListAnswered, Dies, hist
<1>5. CASE ListFails(c) \/ ListFailsDies(c) \/ ListShow(c) \/ Finish(c) \/ Kill(c)
  BY <1>5 DEF ListFails, ListFailsDies, ListShow, Finish, Kill, Dies, hist
<1> QED BY <1>1, <1>2, <1>3, <1>4, <1>5 DEF ClientStep

LEMMA BaseOf ==
  ASSUME TypeInv, [Next]_vars, NEW c \in Client
  PROVE  \/ base'[c] = base[c]
         \/ /\ GetStart(c) \/ ListStart(c)
            /\ base'[c] = CompletePuts /\ UNCHANGED disk
<1>1. CASE UNCHANGED base
  BY <1>1
<1>2. ASSUME NEW d \in Client, ClientStep(d) \/ Kill(d), ~UNCHANGED base
      PROVE  \/ base'[c] = base[c]
             \/ /\ GetStart(c) \/ ListStart(c)
                /\ base'[c] = CompletePuts /\ UNCHANGED disk
  <2>1. /\ GetStart(d) \/ ListStart(d)
        /\ base' = [base EXCEPT ![d] = CompletePuts] /\ UNCHANGED disk
    BY <1>2, BaseChanges DEF GetStart, ListStart, server
  <2> QED BY <2>1 DEF TypeInv, TypeOK, HistType
<1>3. ASSUME NEW s \in Server, NEW d \in Client, ThreadStep(s, d) PROVE UNCHANGED base
  <2>1. CASE ServerDies(s)
    BY <2>1 DEF ServerDies
  <2>2. CASE ~ServerDies(s)
    BY <1>3, <2>2, ThreadsLeaveOthers DEF hist
  <2> QED BY <2>1, <2>2
<1>4. ASSUME NEW s \in Server, Crash(s) \/ Restart(s) PROVE UNCHANGED base
  BY <1>4 DEF Crash, ServerDies, Restart, hist
<1>5. CASE UNCHANGED vars
  BY <1>1, <1>5 DEF vars, hist
<1> QED BY <1>1, <1>2, <1>3, <1>4, <1>5 DEF Next

LEMMA BaseStep == Inv /\ BaseThere /\ [Next]_vars => BaseThere'
<1> SUFFICES ASSUME Inv, BaseThere, [Next]_vars, NEW c \in Client, NEW q \in base'[c],
                    NEW k \in Chunk, NEW s \in Holders(HashOf[q[1]], k)
             PROVE  Present_(s, PathOfBase(q, k))'
  BY DEF BaseThere
<1>0. TypeInv /\ TypeInv' /\ s \in Server
  BY TypeStep DEF Inv, Holders
<1>1. q \in File \X Stamp
  BY <1>0 DEF TypeInv, TypeOK, HistType
<1>2. PathOfBase(q, k) \in Path
  BY <1>1 DEF PathOfBase, Path
<1>3. Present_(s, PathOfBase(q, k))
  <2>1. CASE base'[c] = base[c]
    BY <2>1 DEF BaseThere
  <2>2. CASE base'[c] = CompletePuts
    <3>1. PICK d \in Client : /\ Job[d].cmd = "put" /\ ~eofAck[d] /\ ts[d] = q[2]
                              /\ \E r \in result[d] : r.file = q[1] /\ r.status = "stored"
      BY <2>2 DEF CompletePuts
    <3>2. PICK r \in result[d] : r.file = q[1] /\ r.status = "stored"
      BY <3>1
    <3>3. disk[s][[file |-> r.file, chunk |-> k, ts |-> ts[d]]] = [ver |-> d, st |-> "whole"]
      BY <3>1, <3>2, StoredOfInv DEF AckedIsStored, Puts, Outcomes
    <3>4. [ver |-> d, st |-> "whole"] # Absent
      BY DEF Absent
    <3> QED BY <3>1, <3>2, <3>3, <3>4 DEF Present_, PathOfBase
  <2> QED BY <1>0, <2>1, <2>2, BaseOf
<1> QED BY <1>0, <1>2, <1>3, FilesStay

(* The steps of one get: what it has is as fresh as it was. *)

LEMMA FreshFile ==
  ASSUME TypeInv, NEW c \in Client, FreshOk(c), UNCHANGED base,
         NEW status, NEW parts, NextFile(c, status, parts),
         \A i \in DOMAIN parts : Fresh(c, parts[i].path)
  PROVE  /\ \A i \in DOMAIN local'[c] : Fresh(c, local'[c][i].path)
         /\ \A r \in result'[c] : \A i \in DOMAIN r.parts : Fresh(c, r.parts[i].path)
BY NextFileResets, NewOutcome DEF FreshOk

LEMMA FreshChunk ==
  ASSUME TypeInv, NEW c \in Client, FreshOk(c), UNCHANGED base, NEW parts, NextChunk(c, parts),
         \A i \in DOMAIN parts : Fresh(c, parts[i].path)
  PROVE  /\ \A i \in DOMAIN local'[c] : Fresh(c, local'[c][i].path)
         /\ \A r \in result'[c] : \A i \in DOMAIN r.parts : Fresh(c, r.parts[i].path)
<1>1. CASE pos[c] = N
  BY <1>1, FreshFile DEF NextChunk
<1>2. CASE pos[c] # N
  <2>1. local'[c] = parts /\ result' = result
    BY <1>2 DEF NextChunk, TypeInv, TypeOK, MemoryType
  <2> QED BY <2>1 DEF FreshOk
<1> QED BY <1>1, <1>2

LEMMA FreshOfOne ==
  ASSUME TalkInv, FilesInv, NEW c \in Gets, FreshOk(c), ClientStep(c) \/ Kill(c), ~GetStart(c),
         UNCHANGED base
  PROVE  /\ \A i \in DOMAIN local'[c] : Fresh(c, local'[c][i].path)
         /\ \A r \in result'[c] : \A i \in DOMAIN r.parts : Fresh(c, r.parts[i].path)
<1>0. /\ GetStep(c) /\ SoFar(c) /\ c \in Client /\ TypeInv /\ NetType /\ MemoryType
  BY StepsOfGet, OfGet DEF TalkInv, FilesInv
<1>1. CASE UNCHANGED <<local, result>>
  BY <1>1 DEF FreshOk
<1>2. CASE GetMissing(c)
  BY <1>0, <1>2, FreshFile DEF GetMissing
<1>3. CASE GetJunk(c)
  BY <1>0, <1>3, FreshChunk DEF GetJunk, FreshOk
<1>4. CASE GetData(c)
  <2> DEFINE s == srv[c]
  <2>1. s \in Server /\ s2c[c][s] # <<>>
    BY <1>0, <1>4, PieceIsWanted
  <2>2. PICK q \in Piece : /\ NextChunk(c, Append(local[c], q))
                           /\ q.path = Head(s2c[c][s]).path
    BY <1>0, <1>4, PieceIsWanted
  <2>3. Head(s2c[c][s]) \in FreshReplies(c) /\ Head(s2c[c][s]).t = "data"
    BY <1>4, <2>1 DEF FreshOk, GetData
  <2>4. Fresh(c, q.path)
    BY <2>2, <2>3 DEF FreshReplies
  <2>5. local[c] \in Seq(Piece)
    BY <1>0 DEF MemoryType
  <2>6. ASSUME NEW i \in DOMAIN Append(local[c], q)
        PROVE  Fresh(c, Append(local[c], q)[i].path)
    <3>1. Append(local[c], q)[i] = q \/ (i \in DOMAIN local[c] /\ Append(local[c], q)[i] = local[c][i])
      BY <2>2, <2>5, <2>6
    <3> QED BY <2>4, <3>1 DEF FreshOk
  <2> QED BY <1>0, <2>2, <2>6, FreshChunk
<1>5. CASE Connect(c) \/ GetQuery(c) \/ GetQueryDies(c) \/ GetReady(c) \/ GetNot(c)
           \/ GetFails(c) \/ GetDataFails(c) \/ GetDataForEver(c) \/ Finish(c) \/ Kill(c)
  <2>1. UNCHANGED <<local, result>>
    BY <1>5 DEF Connect, GetQuery, GetQueryDies, GetReady, GetNot, GetFails, GetDataFails,
       GetDataForEver, Finish, Kill, Dies, memory
  <2> QED BY <1>1, <2>1
<1> QED BY <1>0, <1>2, <1>3, <1>4, <1>5 DEF GetStep

LEMMA FreshStarts ==
  ASSUME TalkInv, FilesInv, NEW c \in Gets, GetStart(c)
  PROVE  FreshOk(c)'
<1>0. /\ c \in Client /\ SoFar(c) /\ OneRequest(c) /\ cpc[c] = "dispatch"
      /\ UNCHANGED <<s2c, spc, cur, local, result>>
  BY OfGet DEF FilesInv, GetStart, net, server, memory
<1>1. local[c] = <<>> /\ result[c] = {}
  BY <1>0 DEF SoFar
<1>2. \A s \in Server : s2c[c][s] = <<>> /\ spc[s][c] \notin {"get_lock", "get_ready"}
  BY <1>0 DEF OneRequest, AtRest
<1>3. s2c'[c] \in [Server -> Seq(FreshReplies(c)')]
  <2>1. s2c'[c] \in [Server -> Seq(S2C)]
    BY <1>0, OfGet DEF NetType
  <2>2. \A s \in Server : s2c'[c][s] = <<>>
    BY <1>0, <1>2
  <2> QED BY <2>1, <2>2
<1> QED BY <1>0, <1>1, <1>2, <1>3 DEF FreshOk

\* A reply that bears data bears that of the file the thread has open.
LEMMA FreshReply ==
  ASSUME TypeInv, RolesKept, NEW s \in Server, NEW c \in Gets, FreshOk(c), ThreadStep(s, c),
         ~ServerDies(s)
  PROVE  \/ s2c'[c][s] = s2c[c][s]
         \/ \E units \in Seq(FreshReplies(c)) : s2c'[c][s] = s2c[c][s] \o units
<1>0. NetType /\ c \in Client
  BY DEF TypeInv, TypeOK, Gets
<1>1. ASSUME NEW m \in FreshReplies(c) PROVE <<m>> \in Seq(FreshReplies(c))
  OBVIOUS
<1>2. ASSUME NEW units \in Seq(FreshReplies(c)), Reply(s, c, units)
      PROVE  s2c'[c][s] = s2c[c][s] \/ s2c'[c][s] = s2c[c][s] \o units
  BY <1>0, <1>2 DEF NetType, Reply
<1>3. CASE RecvGet(s, c) \/ RecvDone(s, c)
  BY <1>3 DEF RecvGet, RecvDone
<1>4. CASE RecvGetNotFound(s, c)
  <2>1. [t |-> "not found"] \in FreshReplies(c)
    BY DEF FreshReplies, S2C
  <2> QED BY <1>1, <1>2, <1>4, <2>1 DEF RecvGetNotFound
<1>5. CASE GetOpen(s, c)
  <2>1. HasBytes(s, cur[s][c]) \in BOOLEAN
    BY DEF HasBytes
  <2>2. [t |-> "size", some |-> HasBytes(s, cur[s][c])] \in FreshReplies(c)
    BY <2>1 DEF FreshReplies, S2C
  <2> QED BY <1>1, <1>2, <1>5, <2>2 DEF GetOpen
<1>6. CASE GetSend(s, c)
  <2> DEFINE p == cur[s][c]
             m == [t |-> "data", path |-> p, ver |-> disk[s][p].ver, st |-> disk[s][p].st]
  <2>1. p \in Path /\ disk[s][p] \in Present /\ Fresh(c, p)
    BY <1>0, <1>6 DEF GetSend, TypeInv, PathsInUse, FreshOk
  <2>2. m \in FreshReplies(c)
    BY <2>1 DEF FreshReplies, S2C, Present
  <2>3. <<>> \in Seq(FreshReplies(c)) /\ <<m>> \in Seq(FreshReplies(c))
    BY <1>1, <2>2
  <2>4. Reply(s, c, IF HasBytes(s, p) THEN <<m>> ELSE <<>>)
    BY <1>6 DEF GetSend
  <2> QED BY <1>2, <2>3, <2>4
<1> QED BY <1>3, <1>4, <1>5, <1>6, ThreadsOfGet

\* The newest file that a search finds is no older than those that have been
\* there since the run began: the server would not have the newest chunk of
\* a file if it did not hold that chunk, and then it has those as well.
LEMMA FoundIsFresh ==
  ASSUME TypeInv, HoldersOnly, BaseThere, Alias = {}, NEW c \in Client, NEW s \in Server,
         NEW f \in File, NEW k \in Chunk, NEW p \in MostRecent(s, f, k)
  PROVE  Fresh(c, p)
<1> SUFFICES ASSUME NEW q \in base[c], q[1] = p.file PROVE p.ts >= q[2]
  BY DEF Fresh
<1>0. /\ p \in Path /\ Present_(s, p) /\ p.file = f /\ p.chunk = k
      /\ \A o \in Matching(s, f, k) : SortsAfter(p, o)
  BY DEF MostRecent, Matching, Present_
<1>1. q \in File \X Stamp
  BY DEF TypeInv, TypeOK, HistType
<1> DEFINE o == PathOfBase(q, k)
<1>2. o \in Path /\ o.file = q[1] /\ o.chunk = k /\ o.ts = q[2]
  BY <1>1 DEF PathOfBase, Path
<1>3. Present_(s, o)
  BY <1>0 DEF HoldersOnly, BaseThere
<1> HIDE DEF o
<1>4. o \in Matching(s, f, k)
  BY <1>0, <1>2, <1>3 DEF Matching, Present_
<1>5. SortsAfter(p, o) /\ NameRank[p.file] = NameRank[o.file] /\ NameRank[p.file] \in Nat
  BY <1>0, <1>2, <1>4, DfsAssumption
<1> QED BY <1>2, <1>5 DEF SortsAfter

LEMMA FreshFrame ==
  ASSUME NEW c, base'[c] = base[c], s2c'[c] \in [Server -> Seq(FreshReplies(c))],
         \A s \in Server : spc'[s][c] \in {"get_lock", "get_ready"} => Fresh(c, cur'[s][c]),
         \A i \in DOMAIN local'[c] : Fresh(c, local'[c][i].path),
         \A r \in result'[c] : \A i \in DOMAIN r.parts : Fresh(c, r.parts[i].path)
  PROVE  FreshOk(c)'
<1>1. \A p : Fresh(c, p)' <=> Fresh(c, p)
  BY DEF Fresh
<1>2. FreshReplies(c)' = FreshReplies(c)
  BY <1>1 DEF FreshReplies
<1> QED BY <1>1, <1>2 DEF FreshOk

LEMMA FreshAside ==
  ASSUME NEW c \in Gets, FreshOk(c), MemoryKept(c), s2c'[c] = s2c[c],
         \A s \in Server : spc'[s][c] \in {"get_lock", "get_ready"} =>
           spc'[s][c] = spc[s][c] /\ cur'[s][c] = cur[s][c]
  PROVE  FreshOk(c)'
BY FreshFrame DEF FreshOk, MemoryKept

LEMMA FreshClients ==
  ASSUME TalkInv, FilesInv, NEW c \in Gets, FreshOk(c), NEW d \in Client, ClientStep(d) \/ Kill(d)
  PROVE  FreshOk(c)'
<1>0. /\ c \in Client /\ TypeInv /\ ServerType /\ NetType /\ TypeInv' /\ UNCHANGED cur
  <2>1. [Next]_vars
    BY DEF Next
  <2> QED BY <2>1, TypeStep, ClientsLeaveDisk, OfGet DEF TalkInv
<1>1. CASE d # c
  <2>1. ClientKept(c) /\ \A s \in Server : spc'[s][c] = spc[s][c]
    BY <1>0, <1>1, OthersKept
  <2> QED BY <1>0, <2>1, FreshAside DEF ClientKept, NetKept
<1>2. CASE d = c /\ GetStart(c)
  BY <1>2, FreshStarts
<1>3. CASE d = c /\ ~GetStart(c)
  <2>1. ~ListStart(c)
    BY DEF ListStart, Gets
  <2>2. UNCHANGED base
    BY <1>0, <1>3, <2>1, BaseChanges
  <2>3. /\ \A i \in DOMAIN local'[c] : Fresh(c, local'[c][i].path)
        /\ \A r \in result'[c] : \A i \in DOMAIN r.parts : Fresh(c, r.parts[i].path)
    BY <1>3, <2>2, FreshOfOne
  <2>4. ASSUME NEW s \in Server, spc'[s][c] \in {"get_lock", "get_ready"}
        PROVE  Fresh(c, cur'[s][c])
    <3>1. CASE Connect(c)
      BY <1>0, <2>4, <3>1 DEF Connect, ServerType, FreshOk
    <3>2. CASE ~Connect(c)
      BY <1>0, <1>3, <2>4, <3>2, ClientsLeaveThreads DEF FreshOk
    <3> QED BY <3>1, <3>2
  <2>5. ASSUME NEW s \in Server PROVE s2c'[c][s] \in Seq(FreshReplies(c))
    <3>1. s2c[c][s] \in Seq(FreshReplies(c))
      BY DEF FreshOk
    <3>2. \/ s2c'[c][s] = s2c[c][s]
          \/ s2c[c][s] # <<>> /\ s2c'[c][s] = Tail(s2c[c][s])
          \/ s2c'[c][s] = <<>>
      BY <1>0, <1>3, ClientsReceive
    <3> QED BY <3>1, <3>2, WordsInSeq
  <2>6. s2c'[c] \in [Server -> Seq(FreshReplies(c))]
    BY <1>0, <2>5 DEF TypeInv, TypeOK, NetType
  <2> QED BY <2>2, <2>3, <2>4, <2>6, FreshFrame
<1> QED BY <1>1, <1>2, <1>3

LEMMA FreshThreads ==
  ASSUME TalkInv, HoldersOnly, BaseThere, Alias = {}, NEW c \in Gets, FreshOk(c),
         NEW s \in Server, NEW d \in Client, ThreadStep(s, d), ~ServerDies(s)
  PROVE  FreshOk(c)'
<1>0. /\ c \in Client /\ TypeInv /\ RolesKept /\ ServerType /\ NetType /\ TypeInv'
  <2>1. [Next]_vars
    BY DEF Next
  <2> QED BY <2>1, TypeStep, OfGet DEF TalkInv
<1>1. /\ UNCHANGED <<memory, hist>>
      /\ \A u \in Server : u # s \/ d # c =>
           spc'[u][c] = spc[u][c] /\ cur'[u][c] = cur[u][c] /\ s2c'[c][u] = s2c[c][u]
  BY <1>0, ThreadsLeaveOthers
<1>2. base' = base /\ local' = local /\ result' = result
  BY <1>1 DEF memory, hist
<1>3. ASSUME NEW u \in Server, spc'[u][c] \in {"get_lock", "get_ready"} PROVE Fresh(c, cur'[u][c])
  <2>1. CASE u # s \/ d # c
    BY <1>1, <1>3, <2>1 DEF FreshOk
  <2>2. CASE u = s /\ d = c /\ RecvGet(s, c)
    <3>1. /\ c2s[c][s] # <<>> /\ Head(c2s[c][s]).t = "get"
          /\ cur'[s][c] \in MostRecent(s, Head(c2s[c][s]).file, Head(c2s[c][s]).chunk)
      BY <1>0, <2>2, GetFound
    <3>2. Head(c2s[c][s]) \in C2S
      BY <1>0, <3>1 DEF NetType
    <3>3. Head(c2s[c][s]).file \in File /\ Head(c2s[c][s]).chunk \in Chunk
      BY <3>1, <3>2 DEF C2S
    <3> QED BY <1>0, <2>2, <3>1, <3>3, FoundIsFresh
  <2>3. CASE u = s /\ d = c /\ GetOpen(s, c)
    BY <1>0, <2>3, GetOpens DEF FreshOk
  <2>4. CASE u = s /\ d = c /\ GetSend(s, c)
    BY <1>0, <1>3, <2>4, GetSends
  <2>5. CASE u = s /\ d = c /\ RecvDone(s, c)
    BY <1>0, <1>3, <2>5, DoneServed
  <2>6. CASE u = s /\ d = c /\ RecvGetNotFound(s, c)
    BY <1>3, <2>6 DEF RecvGetNotFound, FreshOk, server
  <2> QED BY <1>0, <2>1, <2>2, <2>3, <2>4, <2>5, <2>6, ThreadsOfGet
<1>4. ASSUME NEW u \in Server PROVE s2c'[c][u] \in Seq(FreshReplies(c))
  <2>1. s2c[c][u] \in Seq(FreshReplies(c))
    BY DEF FreshOk
  <2>2. CASE u # s \/ d # c
    BY <1>1, <2>1, <2>2
  <2>3. CASE u = s /\ d = c
    <3>1. \/ s2c'[c][s] = s2c[c][s]
          \/ \E units \in Seq(FreshReplies(c)) : s2c'[c][s] = s2c[c][s] \o units
      BY <1>0, <2>3, FreshReply
    <3> QED BY <2>1, <2>3, <3>1, WordsInSeq
  <2> QED BY <2>2, <2>3
<1>5. s2c'[c] \in [Server -> Seq(FreshReplies(c))]
  BY <1>0, <1>4 DEF TypeInv, TypeOK, NetType
<1> QED BY <1>2, <1>3, <1>5, FreshFrame DEF FreshOk

LEMMA FreshDeath ==
  ASSUME TypeInv, NEW c \in Gets, FreshOk(c), NEW s \in Server, ServerDies(s)
  PROVE  FreshOk(c)'
<1>0. c \in Client /\ ServerType
  BY DEF Gets, TypeInv, TypeOK
<1>1. MemoryKept(c) /\ s2c'[c] = s2c[c]
  BY DEF ServerDies, MemoryKept, memory
<1>2. \A u \in Server : spc'[u][c] \in {"get_lock", "get_ready"} =>
        spc'[u][c] = spc[u][c] /\ cur'[u][c] = cur[u][c]
  BY <1>0 DEF ServerDies, ServerType
<1> QED BY <1>1, <1>2, FreshAside

AllInv == Inv /\ TalkInv /\ FilesInv /\ FreshInv

LEMMA FreshStep ==
  ASSUME Alias = {}
  PROVE  AllInv /\ [Next]_vars => FreshInv'
<1> SUFFICES ASSUME AllInv, [Next]_vars PROVE FreshInv'
  OBVIOUS
<1>0. Inv /\ TalkInv /\ FilesInv /\ TypeInv /\ HoldersOnly /\ BaseThere
  BY DEF AllInv, FreshInv, Inv
<1> SUFFICES ASSUME NEW c \in Gets PROVE FreshOk(c)'
  BY <1>0, HoldersStep, BaseStep DEF FreshInv, Gets
<1>1. FreshOk(c) /\ c \in Client
  BY DEF AllInv, FreshInv, Gets
<1>2. CASE UNCHANGED <<memory, eofAck, base, s2c, spc, cur>>
  <2>1. MemoryKept(c)
    BY <1>2 DEF MemoryKept, memory
  <2> QED BY <1>1, <1>2, <2>1, FreshAside
<1>3. ASSUME NEW d \in Client, ClientStep(d) \/ Kill(d) PROVE FreshOk(c)'
  BY <1>0, <1>1, <1>3, FreshClients
<1>4. ASSUME NEW s \in Server, NEW d \in Client, ThreadStep(s, d) PROVE FreshOk(c)'
  BY <1>0, <1>1, <1>4, FreshThreads, FreshDeath
<1>5. ASSUME NEW s \in Server, Crash(s) \/ Restart(s) PROVE FreshOk(c)'
  <2>1. CASE Crash(s)
    BY <1>0, <1>1, <2>1, FreshDeath DEF Crash
  <2>2. CASE Restart(s)
    BY <1>2, <2>2 DEF Restart, net, hist
  <2> QED BY <1>5, <2>1, <2>2
<1>6. CASE UNCHANGED vars
  BY <1>2, <1>6 DEF vars, net, server, hist
<1> QED BY <1>3, <1>4, <1>5, <1>6 DEF Next

LEMMA FreshInit == Init => FreshInv
<1> SUFFICES ASSUME Init PROVE FreshInv
  OBVIOUS
<1>1. HoldersOnly /\ BaseThere
  BY DEF Init, HoldersOnly, BaseThere, Present_
<1>2. ASSUME NEW c \in Gets PROVE FreshOk(c)
  <2>1. <<>> \in Seq(FreshReplies(c)) /\ c \in Client
    BY DEF Gets
  <2> QED BY <2>1 DEF Init, FreshOk
<1> QED BY <1>1, <1>2 DEF FreshInv

LEMMA AllInvariant ==
  ASSUME ~SameMicrosecond, NoFileTwice, Alias = {}
  PROVE  Spec => []AllInv
<1>1. Spec => [](Inv /\ TalkInv /\ FilesInv)
  BY InvInvariant, FilesInvariant, PTL
<1>2. Init => FreshInv
  BY FreshInit
<1>3. Inv /\ TalkInv /\ FilesInv /\ FreshInv /\ [Next]_vars => FreshInv'
  BY FreshStep DEF AllInv
<1>4. Spec => [](Inv /\ TalkInv /\ FilesInv /\ FreshInv)
  BY <1>1, <1>2, <1>3, PTL DEF Spec
<1> QED BY <1>4, PTL DEF AllInv

\* No stale reads (dfs.c:216-291 and dfc.c:284-391): a get that began after a
\* put of the file was complete writes no chunk older than that put's,
\* whichever servers answer and whatever puts and failures go on meanwhile.
\* Beyond what AcknowledgedIsStored takes, no file name may match where
\* grep looks for another.
THEOREM NothingStale ==
  ASSUME ~SameMicrosecond, NoFileTwice, Alias = {}
  PROVE  Spec => []NoStaleChunk
<1>1. AllInv => NoStaleChunk
  <2> SUFFICES ASSUME AllInv, NEW c \in Gets, NEW r \in result[c], r.status = "success",
                      NEW q \in base[c], q[1] = r.file, NEW i \in DOMAIN r.parts
               PROVE  r.parts[i].path.ts >= q[2]
    BY DEF NoStaleChunk, Outcomes
  <2>1. Fresh(c, r.parts[i].path)
    BY DEF AllInv, FreshInv, FreshOk
  <2>2. r.parts[i].path.file = r.file
    BY DEF AllInv, FilesInv, ResultsOk, Outcomes
  <2> QED BY <2>1, <2>2 DEF Fresh
<1> QED BY <1>1, AllInvariant, PTL

(* -------------- a get gives up what it cannot be given ------------------ *)

Known(c, f) == \E q \in base[c] : q[1] = f

\* The servers it has asked for the chunk cannot give it, the one that said
\* "Not Found" does not hold it, and so for each file it gave up.
AskedCannot(c) == Known(c, F(c)) =>
  \A s \in Holders(HashOf[F(c)], pos[c]) : s < srv[c] => CannotGive(c, s, F(c), pos[c])
DeniedRightly(c) == Known(c, F(c)) /\ s2c[c][srv[c]] = <<NotFound>> =>
  srv[c] \notin Holders(HashOf[F(c)], pos[c])
GaveUp(c) ==
  /\ cpc[c] \in {"get_query", "get_size", "get_data"} /\ ~NoMoreArgs(c) => AskedCannot(c)
  /\ cpc[c] = "get_size" => DeniedRightly(c)
CutOff(c) == \A r \in Outcomes(c, "incomplete") : Known(c, r.file) =>
  \E k \in Chunk : \A s \in Holders(HashOf[r.file], k) : CannotGive(c, s, r.file, k)
CutInv == \A c \in Gets : GaveUp(c) /\ CutOff(c)
CutHyp == AllInv /\ OnceInv

LEMMA OfCut ==
  ASSUME CutHyp, NEW c \in Gets
  PROVE  /\ c \in Client /\ OneRequest(c) /\ LoopInRange(c) /\ SoFar(c)
         /\ \A s \in Server : EndIsFinal(c, s)
         /\ ClientType /\ MemoryType /\ NetType /\ ServerType /\ HistType
         /\ Inv /\ OnceInv /\ TypeInv /\ TalkInv /\ RolesKept
<1>1. TalkInv /\ FilesInv /\ Inv /\ OnceInv
  BY DEF CutHyp, AllInv
<1>2. /\ c \in Client /\ OneRequest(c) /\ LoopInRange(c) /\ \A s \in Server : EndIsFinal(c, s)
      /\ ClientType /\ MemoryType /\ NetType /\ ServerType
  BY <1>1, OfGet
<1>3. SoFar(c) /\ TypeInv /\ RolesKept /\ HistType
  BY <1>1 DEF FilesInv, TalkInv, TypeInv, TypeOK
<1> QED BY <1>1, <1>2, <1>3

\* A step that gives up no file.
LEMMA CutOffKept ==
  ASSUME CutHyp, [Next]_vars, NEW c \in Gets, CutOff(c), base'[c] = base[c],
         \A r \in result'[c] : r.status = "incomplete" => r \in result[c]
  PROVE  CutOff(c)'
<1> SUFFICES ASSUME NEW r \in result'[c], r.status = "incomplete", Known(c, r.file)
             PROVE  \E k \in Chunk : \A s \in Holders(HashOf[r.file], k) :
                      CannotGive(c, s, r.file, k)'
  <2>1. \A f : Known(c, f)' <=> Known(c, f)
    BY DEF Known
  <2> QED BY <2>1 DEF CutOff, Outcomes, Holders
<1>1. r \in result[c] /\ cpc[c] # "connect"
  <2>1. r \in result[c]
    OBVIOUS
  <2> QED BY <2>1, OfCut DEF SoFar
<1>2. PICK k \in Chunk : \A s \in Holders(HashOf[r.file], k) : CannotGive(c, s, r.file, k)
  BY <1>1 DEF CutOff, Outcomes
<1>3. \A s \in Holders(HashOf[r.file], k) : CannotGive(c, s, r.file, k)'
  <2> SUFFICES ASSUME NEW s \in Holders(HashOf[r.file], k) PROVE CannotGive(c, s, r.file, k)'
    OBVIOUS
  <2>1. s \in Server /\ CannotGive(c, s, r.file, k)
    BY <1>2 DEF Holders
  <2> QED BY <1>1, <2>1, OfCut, CannotStays
<1> QED BY <1>3

\* The search goes on for the same chunk, past servers that cannot give it.
LEMMA AskedKept ==
  ASSUME CutHyp, [Next]_vars, NEW c \in Gets, cpc[c] # "connect", AskedCannot(c),
         base'[c] = base[c], arg'[c] = arg[c], pos'[c] = pos[c],
         Known(c, F(c)) => \A s \in Holders(HashOf[F(c)], pos[c]) :
           s < srv'[c] => s < srv[c] \/ CannotGive(c, s, F(c), pos[c]) \/ ~live'[c][s]
  PROVE  AskedCannot(c)'
<1>1. F(c)' = F(c) /\ (Known(c, F(c)) <=> Known(c, F(c))')
  BY DEF F, Known
<1> SUFFICES ASSUME Known(c, F(c)), NEW s \in Holders(HashOf[F(c)], pos[c]), s < srv'[c]
             PROVE  CannotGive(c, s, F(c), pos[c])'
  BY <1>1 DEF AskedCannot, Holders, CannotGive
<1>2. s \in Server
  BY DEF Holders
<1>3. CASE CannotGive(c, s, F(c), pos[c])
  <2> PICK f, k : f = F(c) /\ k = pos[c]
    OBVIOUS
  <2>1. CannotGive(c, s, f, k)'
    BY <1>2, <1>3, OfCut, CannotStays
  <2> QED BY <1>1, <2>1 DEF CannotGive
<1>4. CASE ~live'[c][s]
  BY <1>4 DEF CannotGive
<1> QED BY <1>3, <1>4 DEF AskedCannot

\* What the run knows of is there on the holders.
LEMMA KnownIsThere ==
  ASSUME CutHyp, NEW c \in Client, NEW f, Known(c, f), NEW k \in Chunk,
         NEW s \in Holders(HashOf[f], k)
  PROVE  f \in File /\ s \in Server /\ Matching(s, f, k) # {}
<1>1. PICK q \in base[c] : q[1] = f
  BY DEF Known
<1>2. q \in File \X Stamp
  BY DEF CutHyp, AllInv, Inv, TypeInv, TypeOK, HistType
<1>3. PathOfBase(q, k) \in Path /\ PathOfBase(q, k).file = f /\ PathOfBase(q, k).chunk = k
  BY <1>1, <1>2 DEF PathOfBase, Path
<1>4. Present_(s, PathOfBase(q, k))
  BY <1>1 DEF CutHyp, AllInv, FreshInv, BaseThere
<1> QED BY <1>1, <1>2, <1>3, <1>4 DEF Matching, Present_, Holders

LEMMA SearchRestarts ==
  ASSUME NEW c, cpc'[c] = "get_query", srv'[c] = 1
  PROVE  GaveUp(c)'
BY NAssumption DEF GaveUp, AskedCannot, Holders, Server

LEMMA SearchEnds ==
  ASSUME NEW c, cpc'[c] \notin {"get_query", "get_size", "get_data"}
  PROVE  GaveUp(c)'
BY DEF GaveUp

\* The server that has been passed over, or is, cannot give the chunk.
LEMMA HasNotCannot ==
  ASSUME CutHyp, Alias = {}, NEW c \in Gets, GaveUp(c), GetNot(c), Known(c, F(c)),
         srv[c] \in Holders(HashOf[F(c)], pos[c])
  PROVE  CannotGive(c, srv[c], F(c), pos[c])
<1> PICK s \in Server : s = srv[c]
  BY OfCut DEF GetNot, LoopInRange
<1>0. cpc[c] = "get_size" /\ Asking(c, s) /\ TypeInv /\ c \in Client
  BY OfCut DEF GetNot, OneRequest
<1>1. CASE serverEnd[c][s] # "open"
  BY <1>1 DEF CannotGive
<1>2. CASE serverEnd[c][s] = "open"
  <2>1. s2c[c][s] # <<>> /\ (Head(s2c[c][s]).t = "size" => ~Head(s2c[c][s]).some)
    BY <1>2 DEF GetNot, ReadsEof, Arrived
  <2>2. s2c[c][s] # <<NotFound>>
    BY <1>0 DEF GaveUp, DeniedRightly
  <2>3. /\ spc[s][c] = "get_ready" /\ Wanted(c, cur[s][c])
        /\ s2c[c][s] = <<[t |-> "size", some |-> HasBytes(s, cur[s][c])]>>
    BY <1>0, <1>2, <2>1, <2>2 DEF Asking, Quiet
  <2>4. ~HasBytes(s, cur[s][c])
    BY <2>1, <2>3, Singles
  <2>5. cur[s][c] \in Path /\ disk[s][cur[s][c]] \in Present
    BY <1>0, <2>3 DEF TypeInv, PathsInUse
  <2>6. disk[s][cur[s][c]] # Absent
    BY <2>5, DfsAssumption DEF Present, Absent
  <2>7. cur[s][c].file = F(c) /\ cur[s][c].chunk = pos[c]
    BY <2>3 DEF Wanted
  <2> QED BY <2>4, <2>5, <2>6, <2>7 DEF CannotGive
<1> QED BY <1>1, <1>2

LEMMA CutAsks ==
  ASSUME CutHyp, [Next]_vars, NEW c \in Gets, GaveUp(c), base'[c] = base[c], GetQuery(c)
  PROVE  GaveUp(c)'
<1>0. /\ c \in Client /\ ClientType /\ NetType /\ cpc[c] = "get_query" /\ AskedCannot(c)
      /\ \A s \in Server : live[c][s] => Quiet(c, s)
  BY OfCut DEF GetQuery, OneRequest, GaveUp
<1>1. PICK s \in Server : NextToAsk(c, s) /\ srv' = [srv EXCEPT ![c] = s]
  BY DEF GetQuery
<1>2. /\ cpc'[c] = "get_size" /\ srv'[c] = s /\ arg' = arg /\ pos' = pos /\ live' = live
      /\ s2c' = s2c
  BY <1>0, <1>1 DEF GetQuery, ClientType, memory, server
<1>3. \A u \in Server : srv[c] <= u /\ u < s => ~live[c][u]
  BY <1>1 DEF NextToAsk
<1>4. srv[c] \in Nat /\ \A u \in Server : u \in Nat
  BY <1>0, NAssumption DEF ClientType, Server
<1>5. \A u \in Holders(HashOf[F(c)], pos[c]) : u < srv'[c] => u < srv[c] \/ ~live'[c][u]
  BY <1>1, <1>2, <1>3, <1>4 DEF Holders
<1>6. AskedCannot(c)'
  BY <1>0, <1>2, <1>5, AskedKept
<1>7. s2c'[c][srv'[c]] = <<>>
  BY <1>0, <1>1, <1>2 DEF NextToAsk, Quiet
<1>8. DeniedRightly(c)'
  BY <1>7, Singles DEF DeniedRightly
<1> QED BY <1>6, <1>8 DEF GaveUp

LEMMA CutReads ==
  ASSUME CutHyp, [Next]_vars, NEW c \in Gets, GaveUp(c), base'[c] = base[c], GetReady(c)
  PROVE  GaveUp(c)'
<1>1. /\ cpc'[c] = "get_data" /\ srv' = srv /\ arg' = arg /\ pos' = pos /\ cpc[c] = "get_size"
  BY OfCut DEF GetReady, ClientType
<1>2. AskedCannot(c)
  BY <1>1, OfCut DEF GaveUp, LoopInRange
<1>3. AskedCannot(c)'
  BY <1>1, <1>2, AskedKept
<1> QED BY <1>1, <1>3 DEF GaveUp

LEMMA CutHasNot ==
  ASSUME CutHyp, Alias = {}, [Next]_vars, NEW c \in Gets, GaveUp(c), base'[c] = base[c], GetNot(c)
  PROVE  GaveUp(c)'
<1>1. /\ cpc'[c] = "get_query" /\ srv'[c] = srv[c] + 1 /\ arg' = arg /\ pos' = pos
      /\ cpc[c] = "get_size" /\ srv[c] \in Server
  BY OfCut DEF GetNot, ClientType, LoopInRange
<1>2. AskedCannot(c)
  BY <1>1, OfCut DEF GaveUp, LoopInRange
<1>3. ASSUME Known(c, F(c)), NEW s \in Holders(HashOf[F(c)], pos[c]), s < srv'[c]
      PROVE  s < srv[c] \/ CannotGive(c, s, F(c), pos[c])
  <2>1. s \in Server /\ (s < srv[c] \/ s = srv[c])
    BY <1>1, <1>3, NAssumption DEF Holders, Server
  <2>2. CASE s = srv[c]
    BY <1>3, <2>2, HasNotCannot
  <2> QED BY <2>1, <2>2
<1>4. AskedCannot(c)'
  BY <1>1, <1>2, <1>3, AskedKept
<1> QED BY <1>1, <1>4 DEF GaveUp

LEMMA CutGivesUp ==
  ASSUME CutHyp, [Next]_vars, NEW c \in Gets, GaveUp(c), base'[c] = base[c], GetFails(c)
  PROVE  GaveUp(c)'
<1>1. /\ cpc'[c] = "get_query" /\ srv'[c] = srv[c] + 1 /\ arg' = arg /\ pos' = pos
      /\ cpc[c] = "get_size" /\ srv[c] \in Server /\ ~live'[c][srv[c]]
  BY OfCut DEF GetFails, ClientType, MemoryType, LoopInRange
<1>2. AskedCannot(c)
  BY <1>1, OfCut DEF GaveUp, LoopInRange
<1>3. ASSUME NEW s \in Holders(HashOf[F(c)], pos[c]), s < srv'[c]
      PROVE  s < srv[c] \/ ~live'[c][s]
  BY <1>1, <1>3, NAssumption DEF Holders, Server
<1>4. AskedCannot(c)'
  BY <1>1, <1>2, <1>3, AskedKept
<1> QED BY <1>1, <1>4 DEF GaveUp

\* A file is given up where no server is left to ask for the chunk.
LEMMA CutMisses ==
  ASSUME CutHyp, [Next]_vars, NEW c \in Gets, GaveUp(c), CutOff(c), base' = base, GetMissing(c)
  PROVE  CutOff(c)'
<1>0. /\ c \in Client /\ ClientType /\ cpc[c] = "get_query" /\ AskedCannot(c) /\ NobodyLeft(c)
      /\ NextFile(c, "incomplete", <<>>) /\ TypeInv /\ Inv /\ OnceInv
  BY OfCut DEF GetMissing, GaveUp
<1> SUFFICES ASSUME NEW r \in result'[c], r.status = "incomplete", Known(c, r.file)
             PROVE  \E k \in Chunk : \A s \in Holders(HashOf[r.file], k) :
                      CannotGive(c, s, r.file, k)'
  <2>1. \A f : Known(c, f)' <=> Known(c, f)
    BY DEF Known
  <2> QED BY <2>1 DEF CutOff, Outcomes, Holders
<1>1. PICK k \in Chunk : \A s \in Holders(HashOf[r.file], k) : CannotGive(c, s, r.file, k)
  <2>1. CASE r \in result[c]
    BY <2>1 DEF CutOff, Outcomes
  <2>2. CASE r.file = F(c)
    <3>1. \A s \in Holders(HashOf[F(c)], pos[c]) : CannotGive(c, s, F(c), pos[c])
      <4> SUFFICES ASSUME NEW s \in Holders(HashOf[F(c)], pos[c])
                   PROVE  CannotGive(c, s, F(c), pos[c])
        OBVIOUS
      <4>1. s \in Server /\ s \in Nat /\ srv[c] \in Nat
        BY <1>0, NAssumption DEF Holders, Server, ClientType
      <4>2. CASE s < srv[c]
        BY <1>0, <2>2, <4>2 DEF AskedCannot
      <4>3. CASE srv[c] <= s
        BY <1>0, <4>1, <4>3 DEF NobodyLeft, CannotGive
      <4> QED BY <4>1, <4>2, <4>3
    <3>2. pos[c] \in Chunk
      BY <1>0 DEF ClientType
    <3> QED BY <2>2, <3>1, <3>2
  <2> QED BY <1>0, <2>1, <2>2, NewOutcome
<1>2. ASSUME NEW s \in Holders(HashOf[r.file], k) PROVE CannotGive(c, s, r.file, k)'
  <2>1. s \in Server /\ CannotGive(c, s, r.file, k)
    BY <1>1 DEF Holders
  <2> QED BY <1>0, <2>1, CannotStays
<1> QED BY <1>2

LEMMA CutOfOne ==
  ASSUME CutHyp, Alias = {}, [Next]_vars, NEW c \in Gets, GaveUp(c), CutOff(c), GetStep(c)
  PROVE  GaveUp(c)' /\ CutOff(c)'
<1>0. /\ c \in Client /\ ClientType /\ MemoryType /\ TypeInv /\ LoopInRange(c)
      /\ ClientStep(c) \/ Kill(c)
  BY OfCut DEF GetStep, ClientStep
<1>1. CASE GetStart(c)
  <2>1. cpc'[c] = "get_query" /\ srv'[c] = 1 /\ result'[c] = {}
    BY <1>0, <1>1, OfCut DEF GetStart, SoFar, ClientType, memory
  <2>2. CutOff(c)'
    BY <2>1 DEF CutOff, Outcomes
  <2> QED BY <2>1, <2>2, SearchRestarts
<1>2. ~GetStart(c) => base' = base
  <2>1. ~ListStart(c)
    BY DEF ListStart, Gets
  <2> QED BY <1>0, <2>1, BaseChanges
<1>3. CASE ~GetStart(c) /\ result' = result /\ cpc'[c] \notin {"get_query", "get_size", "get_data"}
  BY <1>2, <1>3, SearchEnds, CutOffKept
<1>4. CASE Connect(c)
  <2>1. ~GetStart(c) /\ result' = result /\ cpc'[c] \in {"connect", "dispatch"}
    BY <1>0, <1>4 DEF Connect, GetStart, ClientType
  <2> QED BY <1>3, <2>1
<1>5. CASE GetQueryDies(c) \/ GetDataFails(c) \/ GetDataForEver(c) \/ Finish(c) \/ Kill(c)
  <2>1. cpc'[c] \in {"exited", "killed", "wedged"} /\ result' = result
    BY <1>0, <1>5 DEF GetQueryDies, GetDataFails, GetDataForEver, Finish, Kill, Dies, ClientType,
       memory
  <2>2. ~GetStart(c)
    BY <1>0, <2>1 DEF GetStart, ClientType
  <2> QED BY <1>3, <2>1, <2>2
<1>6. CASE GetQuery(c) \/ GetReady(c) \/ GetNot(c) \/ GetFails(c)
  <2>1. result' = result /\ ~GetStart(c)
    BY <1>6 DEF GetQuery, GetReady, GetNot, GetFails, GetStart, memory
  <2>2. CutOff(c)'
    BY <1>2, <2>1, CutOffKept
  <2>3. GaveUp(c)'
    BY <1>2, <1>6, <2>1, CutAsks, CutReads, CutHasNot, CutGivesUp
  <2> QED BY <2>2, <2>3
<1>7. CASE GetMissing(c)
  <2>1. ~GetStart(c) /\ NextFile(c, "incomplete", <<>>)
    BY <1>7 DEF GetMissing, GetStart
  <2>2. cpc'[c] = "get_query" /\ srv'[c] = 1
    BY <1>0, <2>1, NextFileResets
  <2> QED BY <1>2, <1>7, <2>1, <2>2, SearchRestarts, CutMisses
<1>8. CASE GetJunk(c) \/ GetData(c)
  <2>1. ~GetStart(c) /\ \E parts : NextChunk(c, parts)
    BY <1>8 DEF GetJunk, GetData, GetStart
  <2>2. PICK parts : NextChunk(c, parts)
    BY <2>1
  <2>3. CASE pos[c] = N
    <3>1. NextFile(c, "success", parts)
      BY <2>2, <2>3 DEF NextChunk
    <3>2. cpc'[c] = "get_query" /\ srv'[c] = 1
      BY <1>0, <3>1, NextFileResets
    <3>3. \A r \in result'[c] : r \in result[c] \/ r.status = "success"
      BY <1>0, <3>1, NewOutcome
    <3> QED BY <1>2, <2>1, <3>2, <3>3, SearchRestarts, CutOffKept
  <2>4. CASE pos[c] # N
    <3>1. cpc'[c] = "get_query" /\ srv'[c] = 1 /\ result' = result
      BY <1>0, <2>2, <2>4 DEF NextChunk, ClientType
    <3> QED BY <1>2, <2>1, <3>1, SearchRestarts, CutOffKept
  <2> QED BY <2>3, <2>4
<1> QED BY <1>1, <1>4, <1>5, <1>6, <1>7, <1>8 DEF GetStep

\* A step of others, or of the threads that serve the run.
LEMMA CutFrame ==
  ASSUME CutHyp, [Next]_vars, NEW c \in Gets, GaveUp(c), CutOff(c), ProgressKept(c),
         base'[c] = base[c], result'[c] = result[c],
         cpc[c] = "get_size" => s2c'[c][srv[c]] = s2c[c][srv[c]] \/ DeniedRightly(c)'
  PROVE  GaveUp(c)' /\ CutOff(c)'
<1>0. /\ cpc'[c] = cpc[c] /\ srv'[c] = srv[c] /\ arg'[c] = arg[c] /\ pos'[c] = pos[c]
      /\ srv[c] \in Nat
  BY OfCut, NAssumption DEF ProgressKept, ClientType
<1>1. CutOff(c)'
  BY CutOffKept
<1>2. F(c)' = F(c) /\ (NoMoreArgs(c) <=> NoMoreArgs(c)') /\ (Known(c, F(c)) <=> Known(c, F(c))')
  BY <1>0 DEF F, NoMoreArgs, Known
<1>3. cpc[c] \in {"get_query", "get_size", "get_data"} /\ ~NoMoreArgs(c) => AskedCannot(c)'
  <2> SUFFICES ASSUME cpc[c] \in {"get_query", "get_size", "get_data"}, ~NoMoreArgs(c)
               PROVE  AskedCannot(c)'
    OBVIOUS
  <2>1. AskedCannot(c) /\ cpc[c] # "connect"
    BY DEF GaveUp
  <2>2. \A s \in Holders(HashOf[F(c)], pos[c]) : s < srv'[c] => s < srv[c]
    BY <1>0
  <2> QED BY <1>0, <2>1, <2>2, AskedKept
<1>4. cpc[c] = "get_size" => DeniedRightly(c)'
  <2>1. CASE s2c'[c][srv[c]] = s2c[c][srv[c]]
    BY <1>0, <1>2, <2>1 DEF GaveUp, DeniedRightly, NotFound, Holders
  <2> QED BY <2>1
<1> QED BY <1>0, <1>1, <1>2, <1>3, <1>4 DEF GaveUp

\* A thread says "Not Found" where the chunk is not.
LEMMA DeniedServed ==
  ASSUME CutHyp, NEW c \in Gets, NEW s \in Server, ThreadStep(s, c), ~ServerDies(s),
         cpc[c] = "get_size", srv[c] = s, UNCHANGED <<progress, base>>
  PROVE  s2c'[c][s] = s2c[c][s] \/ DeniedRightly(c)'
<1>0. /\ c \in Client /\ NetType /\ ServerType /\ TypeInv /\ RolesKept /\ Asking(c, s)
      /\ clientEnd[c][s] = "open"
  BY OfCut DEF OneRequest, TalkInv, StillOpen
<1>1. s2c'[c][s] # <<NotFound>> => DeniedRightly(c)'
  BY DEF DeniedRightly, progress, NotFound
<1>2. CASE RecvGet(s, c) \/ RecvDone(s, c)
  BY <1>0, <1>2, GetFound, DoneServed
<1>3. CASE RecvGetNotFound(s, c)
  <2>1. /\ c2s[c][s] # <<>> /\ spc[s][c] = "recv"
        /\ Matching(s, Head(c2s[c][s]).file, Head(c2s[c][s]).chunk) = {}
    BY <1>0, <1>3, GetNotFound
  <2>2. c2s[c][s] = <<Request(c)>>
    BY <1>0, <2>1 DEF Asking, Quiet
  <2>3. Head(c2s[c][s]) = Request(c)
    BY <2>2, Singles
  <2>4. Request(c).file = F(c) /\ Request(c).chunk = pos[c]
    BY DEF Request
  <2>5. Matching(s, F(c), pos[c]) = {}
    BY <2>1, <2>3, <2>4
  <2>6. Known(c, F(c)) => s \notin Holders(HashOf[F(c)], pos[c])
    <3>1. pos[c] \in Chunk
      BY OfCut DEF ClientType
    <3> QED BY <1>0, <2>5, <3>1, KnownIsThere
  <2>7. F(c)' = F(c) /\ pos' = pos /\ srv' = srv /\ (Known(c, F(c)) <=> Known(c, F(c))')
    BY DEF F, Known, progress
  <2> QED BY <2>6, <2>7 DEF DeniedRightly, Holders
<1>4. CASE GetOpen(s, c)
  <2> DEFINE m == [t |-> "size", some |-> HasBytes(s, cur[s][c])]
  <2>1. spc[s][c] = "get_lock" /\ s2c'[c][s] = s2c[c][s] \o <<m>>
    BY <1>0, <1>4, GetOpens
  <2>2. m.t = "size" /\ NotFound.t = "not found"
    BY DEF NotFound
  <2> HIDE DEF m
  <2>3. s2c[c][s] = <<>>
    BY <1>0, <2>1 DEF Asking, Quiet, Free, AtRest, Stale
  <2>4. s2c'[c][s] = <<m>> /\ Head(<<m>>) = m /\ Head(<<NotFound>>) = NotFound
    BY <2>1, <2>3, Singles
  <2>5. s2c'[c][s] # <<NotFound>>
    BY <2>2, <2>4
  <2> QED BY <1>1, <2>5
<1>5. CASE GetSend(s, c)
  <2>1. /\ spc[s][c] = "get_ready" /\ c2s[c][s] # <<>>
        /\ ~HasBytes(s, cur[s][c]) /\ s2c[c][s] = <<>> => s2c'[c][s] = <<>>
    BY <1>0, <1>5, GetSends
  <2>2. s2c[c][s] = <<>> /\ ~HasBytes(s, cur[s][c])
    BY <1>0, <2>1 DEF Asking, Quiet, Free, AtRest, Stale
  <2> QED BY <2>1, <2>2
<1> QED BY <1>0, <1>2, <1>3, <1>4, <1>5, ThreadsOfGet

LEMMA CutStep ==
  ASSUME Alias = {}
  PROVE  CutHyp /\ CutInv /\ [Next]_vars => CutInv'
<1> SUFFICES ASSUME CutHyp, CutInv, [Next]_vars, NEW c \in Gets PROVE GaveUp(c)' /\ CutOff(c)'
  BY DEF CutInv
<1>0. GaveUp(c) /\ CutOff(c) /\ c \in Client /\ TypeInv /\ RolesKept /\ LoopInRange(c)
  BY OfCut DEF CutInv
<1>1. ASSUME ProgressKept(c), base'[c] = base[c], result'[c] = result[c], s2c'[c] = s2c[c]
      PROVE  GaveUp(c)' /\ CutOff(c)'
  BY <1>0, <1>1, CutFrame
<1>2. ASSUME NEW d \in Client, ClientStep(d) \/ Kill(d) PROVE GaveUp(c)' /\ CutOff(c)'
  <2>1. CASE d = c
    <3>1. GetStep(c)
      BY <1>0, <1>2, <2>1, StepsOfGet
    <3> QED BY <1>0, <3>1, CutOfOne
  <2>2. CASE d # c
    <3>1. ClientKept(c)
      BY <1>0, <1>2, <2>2, OthersKept
    <3> QED BY <1>1, <3>1 DEF ClientKept, MemoryKept, NetKept
  <2> QED BY <2>1, <2>2
<1>3. ASSUME NEW s \in Server, ServerDies(s) \/ Restart(s) PROVE GaveUp(c)' /\ CutOff(c)'
  <2>1. UNCHANGED <<progress, memory, s2c, base>>
    BY <1>3 DEF ServerDies, Restart, net, hist
  <2> QED BY <1>1, <2>1 DEF ProgressKept, progress, memory
<1>4. ASSUME NEW s \in Server, NEW d \in Client, ThreadStep(s, d), ~ServerDies(s)
      PROVE  GaveUp(c)' /\ CutOff(c)'
  <2>1. /\ UNCHANGED <<progress, memory, hist>>
        /\ \A u \in Server : u # s \/ d # c => s2c'[c][u] = s2c[c][u]
    BY <1>0, <1>4, ThreadsLeaveOthers
  <2>2. ProgressKept(c) /\ base' = base /\ result' = result
    BY <2>1 DEF ProgressKept, progress, memory, hist
  <2>3. cpc[c] = "get_size" => s2c'[c][srv[c]] = s2c[c][srv[c]] \/ DeniedRightly(c)'
    <3>1. cpc[c] = "get_size" => srv[c] \in Server
      BY <1>0 DEF LoopInRange
    <3>2. CASE srv[c] = s /\ d = c
      BY <1>4, <2>1, <2>2, <3>2, DeniedServed
    <3>3. CASE ~(srv[c] = s /\ d = c)
      BY <2>1, <3>1, <3>3
    <3> QED BY <3>2, <3>3
  <2> QED BY <1>0, <2>2, <2>3, CutFrame
<1>5. CASE UNCHANGED vars
  BY <1>1, <1>5 DEF vars, progress, memory, net, hist, ProgressKept
<1> QED BY <1>2, <1>3, <1>4, <1>5 DEF Next, Crash

LEMMA CutInit == Init => CutInv
BY DEF Init, CutInv, GaveUp, CutOff, Outcomes, Gets

\* Availability (dfc.c:284-391 and dfs.c:216-291): a get that began after a
\* put of the file was complete says incomplete only if there is a chunk that
\* neither of its holders can give: the run never reached it, gave it up after
\* a timeout or saw it end, or it has a file of size 0 for the chunk.
THEOREM OnlyCutIsIncomplete ==
  ASSUME ~SameMicrosecond, NoFileTwice, Alias = {}
  PROVE  Spec => []IncompleteOnlyIfCut
<1>1. CutInv => IncompleteOnlyIfCut
  BY DEF CutInv, CutOff, Known, IncompleteOnlyIfCut
<1>2. Init => OnceInv /\ CutInv
  BY OnceInit, CutInit
<1>3. AllInv /\ OnceInv /\ CutInv /\ [Next]_vars => OnceInv' /\ CutInv'
  BY OnceStep, CutStep DEF CutHyp, AllInv
<1>4. Spec => [](OnceInv /\ CutInv)
  BY <1>2, <1>3, AllInvariant, PTL DEF Spec
<1> QED BY <1>1, <1>4, PTL
=============================================================================
