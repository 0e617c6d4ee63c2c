-------------------------- MODULE DfsLists_proofs ---------------------------
(***************************************************************************)
(* What a list shows, for any number of servers, clients and files, with   *)
(* servers that die and start again and runs that come and go meanwhile.   *)
(***************************************************************************)
EXTENDS DfsGets_proofs

(* ------------------ what is shown as complete is there ------------------ *)

ThereNow(p) == \E s \in Server : Present_(s, p)
TrueNames == {m \in S2C : m.t = "names" => \A p \in m.names : ThereNow(p)}
ChunkThere(f, k) == \E s \in Server, p \in Path : p.file = f /\ p.chunk = k /\ Present_(s, p)

\* Every name that a list has, or that a server has sent, is that of a file
\* that is there still.
HonestOk(c) ==
  /\ \A p \in names[c] : ThereNow(p)
  /\ s2c[c] \in [Server -> Seq(TrueNames)]
  /\ \A r \in Outcomes(c, "complete") : \A k \in Chunk : ChunkThere(r.file, k)
HonestInv == \A c \in Client : HonestOk(c)

\* No file goes away.
LEMMA FilesRemain ==
  ASSUME TypeInv, [Next]_vars, NEW s \in Server, NEW p \in Path, Present_(s, p)
  PROVE  Present_(s, p)'
<1>0. ServerType /\ Absent.st = "absent"
  BY DEF TypeInv, TypeOK, Absent
<1>1. CASE UNCHANGED disk
  BY <1>1 DEF Present_
<1>2. ASSUME NEW c \in Client, ClientStep(c) \/ Kill(c) PROVE UNCHANGED disk
  BY <1>2, ClientsLeaveDisk
<1>3. ASSUME NEW u \in Server, ServerDies(u) PROVE Present_(s, p)'
  <2>1. PICK torn \in {"empty", "part"} :
          disk' = [disk EXCEPT ![u] = [q \in Path |->
            IF \E c \in Client : spc[u][c] = "put_write" /\ cur[u][c] = q
            THEN [ver |-> disk[u][q].ver, st |-> torn] ELSE disk[u][q]]]
    BY <1>3 DEF ServerDies
  <2>2. CASE u = s /\ \E c \in Client : spc[u][c] = "put_write" /\ cur[u][c] = p
    <3>1. disk'[s][p] = [ver |-> disk[s][p].ver, st |-> torn]
      BY <1>0, <2>1, <2>2 DEF ServerType
    <3>2. disk'[s][p].st = torn
      BY <3>1
    <3> QED BY <1>0, <3>2 DEF Present_, Absent
  <2>3. CASE ~(u = s /\ \E c \in Client : spc[u][c] = "put_write" /\ cur[u][c] = p)
    BY <1>0, <2>1, <2>3 DEF ServerType, Present_
  <2> QED BY <2>2, <2>3
<1>4. ASSUME NEW u \in Server, NEW c \in Client, ThreadStep(u, c), ~ServerDies(u)
      PROVE  Present_(s, p)'
  <2>1. CASE PutOpen(u, c) \/ PutClose(u, c)
    <3>1. PICK v : disk' = [disk EXCEPT ![u][cur[u][c]] = v] /\ v.st \in {"part", "whole"}
      <4>1. CASE PutOpen(u, c)
        <5> DEFINE x == [ver |-> c, st |-> "part"]
        <5>1. disk' = [disk EXCEPT ![u][cur[u][c]] = x] /\ x.st = "part"
          BY <4>1 DEF PutOpen
        <5> HIDE DEF x
        <5> QED BY <5>1
      <4>2. CASE PutClose(u, c)
        <5> DEFINE x == [ver |-> disk[u][cur[u][c]].ver, st |-> "whole"]
        <5>1. disk' = [disk EXCEPT ![u][cur[u][c]] = x] /\ x.st = "whole"
          BY <4>2 DEF PutClose
        <5> HIDE DEF x
        <5> QED BY <5>1
      <4> QED BY <2>1, <4>1, <4>2
    <3>2. disk'[s][p] = disk[s][p] \/ disk'[s][p] = v
      BY <1>0, <3>1 DEF ServerType
    <3> QED BY <1>0, <3>1, <3>2 DEF Present_
  <2>2. CASE ~(PutOpen(u, c) \/ PutClose(u, c))
    BY <1>1, <1>4, <2>2 DEF ThreadStep, RecvPut, PutAck, RecvGet, RecvGetNotFound, GetOpen,
       GetSend, RecvList, RecvDone, RecvError, SendSigpipe, server
  <2> QED BY <2>1, <2>2
<1>5. ASSUME NEW u \in Server, Crash(u) \/ Restart(u) PROVE Present_(s, p)'
  BY <1>1, <1>3, <1>5 DEF Crash, Restart
<1>6. ASSUME NEW u \in Server, NEW c \in Client, ThreadStep(u, c) PROVE Present_(s, p)'
  BY <1>3, <1>4, <1>6
<1>7. CASE UNCHANGED vars
  BY <1>1, <1>7 DEF vars, server
<1> QED BY <1>1, <1>2, <1>5, <1>6, <1>7 DEF Next

\* Only the last step of a list calls a file complete.
LEMMA NewComplete ==
  ASSUME TypeInv, NEW c \in Client, ClientStep(c) \/ Kill(c), ~ListShow(c),
         NEW r \in result'[c], r.status = "complete"
  PROVE  r \in result[c]
<1>0. MemoryType
  BY DEF TypeInv, TypeOK
<1>1. ASSUME NEW status, status # "complete", Report(c, status) PROVE r \in result[c]
  <2> DEFINE new == [arg |-> arg[c], file |-> F(c), status |-> status, parts |-> <<>>]
  <2>1. result' = [result EXCEPT ![c] = @ \cup {new}] /\ new.status = status
    BY <1>1 DEF Report
  <2> HIDE DEF new
  <2> QED BY <1>0, <1>1, <2>1 DEF MemoryType
<1>2. ASSUME NEW status, NEW parts, status # "complete", NextFile(c, status, parts)
      PROVE  r \in result[c]
  BY <1>2, NewOutcome
<1>3. CASE UNCHANGED result
  BY <1>3
<1>4. CASE PutRefused(c)
  <2>1. r \in {[arg |-> i, file |-> Job[c].files[i], status |-> "refused", parts |-> <<>>]
                : i \in DOMAIN Job[c].files}
    BY <1>0, <1>4 DEF PutRefused, MemoryType
  <2>2. r.status = "refused"
    BY <2>1
  <2> QED BY <2>2
<1>5. CASE PutSkip(c) \/ PutFails(c)
  BY <1>1, <1>5 DEF PutSkip, PutFails
<1>6. CASE PutAcked(c) \/ PutEof(c)
  BY <1>1, <1>3, <1>6 DEF PutAcked, PutEof, PutAdvance
<1>7. CASE GetMissing(c)
  BY <1>2, <1>7 DEF GetMissing
<1>8. CASE GetJunk(c) \/ GetData(c)
  <2>1. \E parts : NextChunk(c, parts)
    BY <1>8 DEF GetJunk, GetData
  <2> QED BY <1>2, <1>3, <2>1 DEF NextChunk
<1>9. CASE ~(PutRefused(c) \/ PutSkip(c) \/ PutFails(c) \/ PutAcked(c) \/ PutEof(c)
             \/ GetMissing(c) \/ GetJunk(c) \/ GetData(c))
  BY <1>3, <1>9 DEF ClientStep, Connect, PutStart, GetStart, ListStart, PutSend, PutSendDies,
     GetQuery, GetQueryDies, GetReady, GetNot, GetFails, GetDataFails, GetDataForEver,
     ListQuery, ListAnswered, ListFails, ListFailsDies, Finish, Kill, Dies, memory
<1> QED BY <1>4, <1>5, <1>6, <1>7, <1>8, <1>9

\* What a list calls complete it has the names of.
LEMMA ShowsWhatItHas ==
  ASSUME TypeInv, NEW c \in Client, ListShow(c), NEW r \in result'[c], r.status = "complete",
         NEW k \in Chunk
  PROVE  \E p \in names[c] : p.file = r.file /\ p.chunk = k
<1> DEFINE listed == {p.file : p \in names[c]}
           full(x) == \A j \in Chunk : \E p \in names[c] : p.file = x /\ p.chunk = j
           shown(x) == [arg |-> 0, file |-> x,
                        status |-> IF full(x) THEN "complete" ELSE "[Incomplete]", parts |-> <<>>]
<1>1. result'[c] = {shown(x) : x \in listed}
  BY DEF ListShow, TypeInv, TypeOK, MemoryType
<1>2. PICK x \in listed : r = shown(x)
  BY <1>1
<1>3. r.file = x /\ r.status = IF full(x) THEN "complete" ELSE "[Incomplete]"
  BY <1>2
<1>4. full(x)
  BY <1>3
<1> QED BY <1>3, <1>4

LEMMA WordsGrow ==
  ASSUME NEW S, NEW T, S \subseteq T, NEW q \in Seq(S)
  PROVE  q \in Seq(T)
OBVIOUS

\* What a thread says of the names is true.
LEMMA TrueReply ==
  ASSUME TypeInv, RolesKept, NEW s \in Server, NEW c \in Client, ThreadStep(s, c), ~ServerDies(s)
  PROVE  \/ s2c'[c][s] = s2c[c][s]
         \/ \E units \in Seq(TrueNames) : s2c'[c][s] = s2c[c][s] \o units
<1>0. NetType /\ Job[c].cmd \in {"get", "put", "list"}
  BY CommandOf DEF TypeInv, TypeOK
<1>1. CASE Job[c].cmd # "list"
  <2>1. RepliesTo(c) \subseteq TrueNames
    BY <1>0, <1>1 DEF RepliesTo, TrueNames
  <2>2. \A units \in Seq(RepliesTo(c)) : units \in Seq(TrueNames)
    BY <2>1, WordsGrow
  <2> QED BY <2>2, ThreadsReply
<1>2. CASE Job[c].cmd = "list"
  <2>1. spc[s][c] \in {"none", "recv", "ended"} /\ ~Next_(s, c, "put") /\ ~Next_(s, c, "get")
    BY <1>2, WordOfRole DEF RolesKept, ThreadsOf
  <2>2. RecvList(s, c) \/ RecvDone(s, c)
    BY <2>1 DEF ThreadStep, RecvPut, PutOpen, PutClose, PutAck, RecvGet, RecvGetNotFound,
       GetOpen, GetSend, RecvError, SendSigpipe
  <2>3. CASE RecvDone(s, c)
    BY <2>3 DEF RecvDone
  <2>4. CASE RecvList(s, c)
    <3> DEFINE all == {p \in Path : disk[s][p] # Absent}
               m == [t |-> "names", names |-> all]
    <3>1. m \in TrueNames
      <4>1. m \in [t : {"names"}, names : SUBSET Path] /\ m.names = all
        OBVIOUS
      <4>2. \A p \in all : ThereNow(p)
        BY DEF ThereNow, Present_
      <4> QED BY <4>1, <4>2 DEF TrueNames, S2C
    <3>2. Reply(s, c, IF all = {} THEN <<>> ELSE <<m>>)
      BY <2>4 DEF RecvList
    <3> HIDE DEF m, all
    <3>3. <<>> \in Seq(TrueNames) /\ <<m>> \in Seq(TrueNames)
      BY <3>1
    <3>4. \E units \in Seq(TrueNames) : Reply(s, c, units)
      BY <3>2, <3>3
    <3>5. PICK units \in Seq(TrueNames) : Reply(s, c, units)
      BY <3>4
    <3> QED BY <1>0, <3>5 DEF Reply, NetType
  <2> QED BY <2>2, <2>3, <2>4
<1> QED BY <1>1, <1>2

\* The names that a client has after its step are those it had, or has read.
LEMMA NewNames ==
  ASSUME TypeInv, NEW c \in Client, HonestOk(c), ClientStep(c) \/ Kill(c), NEW p \in names'[c]
  PROVE  ThereNow(p)
<1>0. MemoryType /\ NetType /\ LoopInRange(c)
  BY DEF TypeInv, TypeOK, LoopsInRange
<1>1. CASE UNCHANGED names
  BY <1>1 DEF HonestOk
<1>2. CASE ListAnswered(c) /\ ~UNCHANGED names
  <2> DEFINE m == Head(s2c[c][srv[c]])
  <2>1. srv[c] \in Server /\ s2c[c][srv[c]] # <<>> /\ m.t = "names"
        /\ names' = [names EXCEPT ![c] = @ \cup m.names]
    BY <1>0, <1>2 DEF ListAnswered, LoopInRange, Arrived
  <2>2. m \in TrueNames
    BY <2>1 DEF HonestOk
  <2>3. p \in names[c] \cup m.names
    BY <1>0, <2>1 DEF MemoryType
  <2> QED BY <2>1, <2>2, <2>3 DEF TrueNames, HonestOk
<1>3. CASE ~ListAnswered(c)
  <2>1. UNCHANGED names
    BY <1>3 DEF ClientStep, Connect, PutRefused, PutStart, GetStart, ListStart, PutSkip, PutSend,
       PutSendDies, PutAcked, PutEof, PutFails, GetQuery, GetQueryDies, GetMissing, GetJunk,
       GetReady, GetNot, GetFails, GetData, GetDataFails, GetDataForEver, ListQuery, ListFails,
       ListFailsDies, ListShow, Finish, Kill, Dies, memory
  <2> QED BY <1>1, <2>1
<1> QED BY <1>1, <1>2, <1>3

\* True names stay true.
LEMMA TrueStays ==
  ASSUME TypeInv, [Next]_vars
  PROVE  /\ \A p \in Path : ThereNow(p) => ThereNow(p)'
         /\ TrueNames \subseteq TrueNames'
         /\ \A f, k : ChunkThere(f, k) => ChunkThere(f, k)'
<1>1. \A p \in Path : ThereNow(p) => ThereNow(p)'
  BY FilesRemain DEF ThereNow
<1>2. \A f, k : ChunkThere(f, k) => ChunkThere(f, k)'
  BY FilesRemain DEF ChunkThere
<1>3. TrueNames \subseteq TrueNames'
  <2> SUFFICES ASSUME NEW m \in S2C, m.t = "names" => \A p \in m.names : ThereNow(p)
               PROVE  m.t = "names" => \A p \in m.names : ThereNow(p)'
    BY DEF TrueNames
  <2> QED BY <1>1, NamesType
<1> QED BY <1>1, <1>2, <1>3

\* What a step has to show of a client.
LEMMA HonestFrame ==
  ASSUME TypeInv, [Next]_vars, NEW c \in Client, HonestOk(c),
         \A p \in names'[c] : ThereNow(p),
         \A s \in Server : s2c'[c][s] \in Seq(TrueNames),
         \A r \in result'[c] : r.status = "complete" =>
           r \in result[c] \/ \A k \in Chunk : \E p \in names[c] : p.file = r.file /\ p.chunk = k
  PROVE  HonestOk(c)'
<1>0. TypeInv /\ TypeInv' /\ MemoryType
  BY TypeStep DEF TypeInv, TypeOK
<1>1. \A p \in names'[c] : ThereNow(p)'
  BY <1>0, TrueStays DEF TypeInv, TypeOK, MemoryType
<1>2. s2c'[c] \in [Server -> Seq(TrueNames')]
  <2>1. \A s \in Server : s2c'[c][s] \in Seq(TrueNames')
    BY <1>0, TrueStays, WordsGrow
  <2> QED BY <1>0, <2>1 DEF TypeInv, TypeOK, NetType
<1>3. ASSUME NEW r \in result'[c], r.status = "complete", NEW k \in Chunk
      PROVE  ChunkThere(r.file, k)'
  <2>1. CASE r \in result[c]
    BY <1>0, <1>3, <2>1, TrueStays DEF HonestOk, Outcomes
  <2>2. CASE \E p \in names[c] : p.file = r.file /\ p.chunk = k
    <3>1. PICK p \in names[c] : p.file = r.file /\ p.chunk = k
      BY <2>2
    <3>2. p \in Path /\ ThereNow(p)
      BY <1>0, <3>1 DEF HonestOk, MemoryType
    <3>3. ChunkThere(r.file, k)
      BY <3>1, <3>2 DEF ThereNow, ChunkThere
    <3> QED BY <1>0, <3>3, TrueStays
  <2> QED BY <1>3, <2>1, <2>2
<1> QED BY <1>1, <1>2, <1>3 DEF HonestOk, Outcomes

LEMMA HonestStep == TypeInv /\ RolesKept /\ HonestInv /\ [Next]_vars => HonestInv'
<1> SUFFICES ASSUME TypeInv, RolesKept, HonestInv, [Next]_vars, NEW c \in Client
             PROVE  HonestOk(c)'
  BY DEF HonestInv
<1>0. HonestOk(c) /\ \A s \in Server : s2c[c][s] \in Seq(TrueNames)
  BY DEF HonestInv, HonestOk
<1>1. CASE names'[c] = names[c] /\ s2c'[c] = s2c[c] /\ result'[c] = result[c]
  BY <1>0, <1>1, HonestFrame DEF HonestOk
<1>2. ASSUME NEW d \in Client, ClientStep(d) \/ Kill(d) PROVE HonestOk(c)'
  <2>1. CASE d = c
    <3>1. \A s \in Server : s2c'[c][s] \in Seq(TrueNames)
      BY <1>0, <1>2, <2>1, ClientsReceive, WordsInSeq
    <3>2. \A p \in names'[c] : ThereNow(p)
      BY <1>0, <1>2, <2>1, NewNames
    <3>3. \A r \in result'[c] : r.status = "complete" =>
            r \in result[c] \/ \A k \in Chunk : \E p \in names[c] : p.file = r.file /\ p.chunk = k
      BY <1>2, <2>1, NewComplete, ShowsWhatItHas
    <3> QED BY <1>0, <3>1, <3>2, <3>3, HonestFrame
  <2>2. CASE d # c
    BY <1>1, <1>2, <2>2, OthersKept DEF ClientKept, MemoryKept, NetKept
  <2> QED BY <2>1, <2>2
<1>3. ASSUME NEW s \in Server, ServerDies(s) \/ Restart(s) PROVE HonestOk(c)'
  BY <1>1, <1>3 DEF ServerDies, Restart, memory, net
<1>4. ASSUME NEW s \in Server, NEW d \in Client, ThreadStep(s, d), ~ServerDies(s)
      PROVE  HonestOk(c)'
  <2>1. /\ UNCHANGED memory
        /\ \A u \in Server : u # s \/ d # c => s2c'[c][u] = s2c[c][u]
    BY <1>4, ThreadsLeaveOthers
  <2>2. d = c => s2c'[c][s] \in Seq(TrueNames)
    <3> SUFFICES ASSUME d = c PROVE s2c'[c][s] \in Seq(TrueNames)
      OBVIOUS
    <3>1. \/ s2c'[c][s] = s2c[c][s]
          \/ \E units \in Seq(TrueNames) : s2c'[c][s] = s2c[c][s] \o units
      BY <1>4, TrueReply
    <3> QED BY <1>0, <3>1, WordsInSeq
  <2>3. \A u \in Server : s2c'[c][u] \in Seq(TrueNames)
    BY <1>0, <2>1, <2>2
  <2> QED BY <1>0, <2>1, <2>3, HonestFrame DEF memory, HonestOk
<1>5. CASE UNCHANGED vars
  BY <1>1, <1>5 DEF vars, memory, net
<1> QED BY <1>2, <1>3, <1>4, <1>5 DEF Next, Crash

\* A list is honest (dfc.c:743-768 and dfs.c:278-307): of a file that it calls
\* complete every chunk is on some server, whatever puts, kills and failures
\* go on.  Nothing is assumed of the constants.
THEOREM ListsAreHonest == Spec => []ListIsHonest
<1>1. Init => HonestInv
  <2>1. \A S : <<>> \in Seq(S)
    OBVIOUS
  <2> QED BY <2>1 DEF Init, HonestInv, HonestOk, Outcomes
<1>2. Spec => [](TypeInv /\ RolesKept)
  BY TypeInit, TypeStep, RolesInit, RolesStep, PTL DEF Spec
<1>3. Spec => []HonestInv
  BY <1>1, <1>2, HonestStep, PTL DEF Spec
<1>4. HonestInv => ListIsHonest
  BY DEF HonestInv, HonestOk, ChunkThere, Present_, ListIsHonest
<1> QED BY <1>3, <1>4, PTL

(* --------------- what is stored is shown as complete -------------------- *)

ListWord == [t |-> "list"]
Lists == {c \in Client : Job[c].cmd = "list"}

\* A server is lost to a run; it has nothing to do for it; the list has the
\* names from it of what was complete when the list began.
Lost(c, s) == ~live[c][s] \/ serverEnd[c][s] # "open"
Waits(c, s) == c2s[c][s] = <<>> /\ s2c[c][s] = <<>> /\ spc[s][c] = "recv"
Owed(c, s, paths) == \A q \in base[c] : \A k \in Chunk :
  s \in Holders(HashOf[q[1]], k) => PathOfBase(q, k) \in paths

\* Somewhere between the command and the names; of an empty directory, which
\* owes the list nothing, there are none.
Listing(c, s) ==
  \/ c2s[c][s] = <<ListWord>> /\ s2c[c][s] = <<>> /\ spc[s][c] = "recv"
  \/ Waits(c, s) /\ Owed(c, s, {})
  \/ /\ c2s[c][s] = <<>> /\ spc[s][c] = "recv"
     /\ \E m \in S2C : m.t = "names" /\ s2c[c][s] = <<m>> /\ Owed(c, s, m.names)

Shown(c) == \A q \in base[c] :
  \/ \E r \in Outcomes(c, "complete") : r.file = q[1]
  \/ \E k \in Chunk : \A s \in Holders(HashOf[q[1]], k) : Lost(c, s)
ListOk(c) ==
  /\ cpc[c] = "connect" => \A s \in Server : c2s[c][s] = <<>> /\ s2c[c][s] = <<>>
  /\ cpc[c] = "dispatch" => srv[c] = 1
  /\ cpc[c] \in {"connect", "dispatch"} => \A s \in Server : Lost(c, s) \/ Waits(c, s)
  /\ cpc[c] \in {"list_query", "list_names"} => \A s \in Server :
       /\ s < srv[c] => Lost(c, s) \/ Owed(c, s, names[c])
       /\ s > srv[c] => Lost(c, s) \/ Waits(c, s)
  /\ cpc[c] = "list_query" => \A s \in Server : s = srv[c] => Lost(c, s) \/ Waits(c, s)
  /\ cpc[c] = "list_names" => Lost(c, srv[c]) \/ Listing(c, srv[c])
  /\ cpc[c] \in {"done", "exited"} => Shown(c)
ListsInv == \A c \in Lists : ListOk(c)
ListHyp == Inv /\ TalkInv /\ BaseThere

LEMMA OfList ==
  ASSUME ListHyp, NEW c \in Lists
  PROVE  /\ c \in Client /\ Job[c].cmd = "list" /\ LoopInRange(c) /\ cpc[c] \in StatesOf(c)
         /\ \A s \in Server : cpc[c] \notin {"exited", "killed"} => clientEnd[c][s] = "open"
         /\ ClientType /\ MemoryType /\ NetType /\ ServerType /\ HistType /\ EnvType
         /\ TypeInv /\ RolesKept /\ Inv /\ TalkInv
BY DEF ListHyp, Lists, Inv, TalkInv, TypeInv, TypeOK, LoopsInRange, RolesKept, StillOpen

LEMMA StepsOfList ==
  ASSUME ListHyp, NEW c \in Lists, ClientStep(c) \/ Kill(c)
  PROVE  Connect(c) \/ ListStart(c) \/ ListQuery(c) \/ ListAnswered(c) \/ ListFails(c)
         \/ ListFailsDies(c) \/ ListShow(c) \/ Finish(c) \/ Kill(c)
<1>1. cpc[c] \in {"connect", "dispatch", "exited", "killed", "list_query", "list_names", "done"}
      /\ Job[c].cmd = "list"
  BY OfList DEF StatesOf
<1>2. ~PutRefused(c) /\ ~PutStart(c) /\ ~GetStart(c) /\ ~PutSkip(c) /\ ~PutSend(c)
      /\ ~PutSendDies(c) /\ ~PutAcked(c) /\ ~PutEof(c) /\ ~PutFails(c)
  BY <1>1 DEF PutRefused, PutStart, GetStart, PutSkip, PutSend, PutSendDies, PutAcked, PutEof,
     PutFails
<1>3. ~GetQuery(c) /\ ~GetQueryDies(c) /\ ~GetMissing(c) /\ ~GetJunk(c) /\ ~GetReady(c)
      /\ ~GetNot(c) /\ ~GetFails(c) /\ ~GetData(c) /\ ~GetDataFails(c) /\ ~GetDataForEver(c)
  BY <1>1 DEF GetQuery, GetQueryDies, GetMissing, GetJunk, GetReady, GetNot, GetFails, GetData,
     GetDataFails, GetDataForEver
<1> QED BY <1>2, <1>3 DEF ClientStep

LEMMA LostStays ==
  ASSUME TypeInv, [Next]_vars, NEW c \in Client, NEW s \in Server, Lost(c, s),
         cpc[c] # "connect" \/ live'[c] = live[c]
  PROVE  Lost(c, s)'
BY LiveFalls, EndStays DEF Lost

\* A step of others, or of the threads that serve the list.
LEMMA ListFrame ==
  ASSUME ListHyp, [Next]_vars, NEW c \in Lists, ListOk(c), ProgressKept(c), MemoryKept(c),
         \A s \in Server : Waits(c, s) => Lost(c, s)' \/ Waits(c, s)',
         \A s \in Server : Listing(c, s) => Lost(c, s) \/ Lost(c, s)' \/ Listing(c, s)',
         \A s \in Server : c2s[c][s] = <<>> /\ s2c[c][s] = <<>> /\ cpc[c] = "connect" =>
           c2s'[c][s] = <<>> /\ s2c'[c][s] = <<>>
  PROVE  ListOk(c)'
<1>0. /\ cpc'[c] = cpc[c] /\ srv'[c] = srv[c] /\ live'[c] = live[c] /\ names'[c] = names[c]
      /\ result'[c] = result[c] /\ base'[c] = base[c] /\ c \in Client /\ TypeInv
      /\ cpc[c] = "list_names" => srv[c] \in Server
  BY OfList DEF ProgressKept, MemoryKept, LoopInRange
<1>1. \A s \in Server : Lost(c, s) => Lost(c, s)'
  BY <1>0, LostStays
<1>2. \A s \in Server : Owed(c, s, names[c]) => Owed(c, s, names[c])'
  BY <1>0 DEF Owed, PathOfBase, Holders
<1>3. Shown(c) => Shown(c)'
  BY <1>0, <1>1 DEF Shown, Outcomes, Holders
<1>4. cpc[c] = "list_names" => Lost(c, srv[c])' \/ Listing(c, srv[c])'
  <2> SUFFICES ASSUME cpc[c] = "list_names" PROVE Lost(c, srv[c])' \/ Listing(c, srv[c])'
    OBVIOUS
  <2> PICK s \in Server : s = srv[c]
    BY <1>0
  <2>1. Lost(c, s)' \/ Listing(c, s)'
    BY <1>0, <1>1 DEF ListOk
  <2> QED BY <1>0, <2>1
<1>5. /\ cpc'[c] = "connect" => \A s \in Server : c2s'[c][s] = <<>> /\ s2c'[c][s] = <<>>
      /\ cpc'[c] = "dispatch" => srv'[c] = 1
      /\ cpc'[c] \in {"connect", "dispatch"} => \A s \in Server : Lost(c, s)' \/ Waits(c, s)'
  BY <1>0, <1>1 DEF ListOk
<1>6. cpc'[c] \in {"list_query", "list_names"} => \A s \in Server :
       /\ s < srv'[c] => Lost(c, s)' \/ Owed(c, s, names[c])'
       /\ s > srv'[c] => Lost(c, s)' \/ Waits(c, s)'
  BY <1>0, <1>1, <1>2 DEF ListOk
<1>7. cpc'[c] = "list_query" => \A s \in Server : s = srv'[c] => Lost(c, s)' \/ Waits(c, s)'
  BY <1>0, <1>1 DEF ListOk
<1>8. cpc'[c] \in {"done", "exited"} => Shown(c)'
  BY <1>0, <1>3 DEF ListOk
<1> QED BY <1>0, <1>4, <1>5, <1>6, <1>7, <1>8 DEF ListOk

LEMMA ListConnects ==
  ASSUME ListHyp, [Next]_vars, NEW c \in Lists, ListOk(c), Connect(c)
  PROVE  ListOk(c)'
<1>0. /\ ClientType /\ MemoryType /\ ServerType /\ cpc[c] = "connect" /\ srv[c] \in Server
      /\ c \in Client
  BY OfList DEF Connect, LoopInRange
<1>1. /\ cpc'[c] \in {"connect", "dispatch"} /\ (cpc'[c] = "dispatch" => srv'[c] = 1)
      /\ UNCHANGED net
  BY <1>0 DEF Connect, ClientType
<1>2. ASSUME NEW s \in Server PROVE Lost(c, s)' \/ Waits(c, s)'
  <2>1. c2s[c][s] = <<>> /\ s2c[c][s] = <<>>
    BY <1>0 DEF ListOk
  <2>2. CASE s = srv[c]
    BY <1>0, <1>1, <2>1, <2>2 DEF Connect, Lost, Waits, net, MemoryType, ServerType
  <2>3. CASE s # srv[c]
    <3>1. live'[c][s] = live[c][s] /\ spc'[s][c] = spc[s][c]
      BY <1>0, <2>3 DEF Connect, MemoryType, ServerType
    <3> QED BY <1>0, <1>1, <2>1, <3>1 DEF ListOk, Lost, Waits, net
  <2> QED BY <2>2, <2>3
<1>3. \A s \in Server : c2s'[c][s] = <<>> /\ s2c'[c][s] = <<>>
  BY <1>0, <1>1 DEF ListOk, net
<1> QED BY <1>1, <1>2, <1>3 DEF ListOk

LEMMA ListStarts ==
  ASSUME ListHyp, [Next]_vars, NEW c \in Lists, ListOk(c), ListStart(c)
  PROVE  ListOk(c)'
<1>0. /\ c \in Client /\ ClientType /\ cpc[c] = "dispatch" /\ srv[c] = 1
  BY OfList DEF ListStart, ListOk
<1>1. cpc'[c] = "list_query" /\ srv'[c] = 1 /\ UNCHANGED <<memory, net, server>>
  BY <1>0 DEF ListStart, ClientType
<1>2. \A s \in Server : ~(s < 1)
  BY NAssumption DEF Server
<1>3. \A s \in Server : Lost(c, s)' \/ Waits(c, s)'
  BY <1>0, <1>1 DEF ListOk, Lost, Waits, memory, net, server
<1> QED BY <1>1, <1>2, <1>3 DEF ListOk

\* A step of the list itself within its loop: what is behind it and ahead of
\* it stays as it was.
LEMMA ListGoesOn ==
  ASSUME ListHyp, [Next]_vars, NEW c \in Lists, ListOk(c), base' = base,
         cpc[c] \in {"list_query", "list_names"}, names[c] \subseteq names'[c],
         NEW s \in Server,
         s # srv[c] => /\ c2s'[c][s] = c2s[c][s] /\ s2c'[c][s] = s2c[c][s]
                       /\ spc'[s][c] = spc[s][c]
  PROVE  /\ s < srv[c] => Lost(c, s)' \/ Owed(c, s, names[c])'
         /\ s > srv[c] => Lost(c, s)' \/ Waits(c, s)'
<1>0. c \in Client /\ TypeInv /\ srv[c] \in Nat
  BY OfList, NAssumption DEF ClientType
<1>1. Lost(c, s) => Lost(c, s)'
  BY <1>0, LostStays
<1>2. Owed(c, s, names[c]) => Owed(c, s, names[c])'
  BY DEF Owed, PathOfBase, Holders
<1>3. s # srv[c] /\ Waits(c, s) => Waits(c, s)'
  BY DEF Waits
<1>4. s \in Nat
  BY NAssumption DEF Server
<1> QED BY <1>0, <1>1, <1>2, <1>3, <1>4 DEF ListOk

LEMMA ListAsks ==
  ASSUME ListHyp, [Next]_vars, NEW c \in Lists, ListOk(c), ListQuery(c), base' = base
  PROVE  ListOk(c)'
<1>0. /\ c \in Client /\ ClientType /\ NetType /\ TypeInv /\ cpc[c] = "list_query"
      /\ srv[c] \in Nat
  BY OfList, NAssumption DEF ListQuery, ClientType
<1>1. PICK s \in Server : /\ NextToAsk(c, s) /\ ClientSends(c, s, <<ListWord>>)
                          /\ srv' = [srv EXCEPT ![c] = s]
  BY DEF ListQuery, ListWord
<1>2. /\ cpc'[c] = "list_names" /\ srv'[c] = s /\ live' = live /\ names' = names
      /\ s2c' = s2c /\ spc' = spc
  BY <1>0, <1>1 DEF ListQuery, ClientType, memory, server
<1>3. \A u \in Server \ {s} : c2s'[c][u] = c2s[c][u]
  BY <1>0, <1>1 DEF ClientSends, NetType
<1>4. \A u \in Server : (Lost(c, u) => Lost(c, u)') /\ u \in Nat
  BY <1>0, LostStays, NAssumption DEF Server
<1>5. srv[c] <= s /\ live[c][s] /\ \A u \in Server : srv[c] <= u /\ u < s => ~live[c][u]
  BY <1>1 DEF NextToAsk
<1>6. ASSUME NEW u \in Server
      PROVE  /\ u < s => Lost(c, u)' \/ Owed(c, u, names[c])'
             /\ u > s => Lost(c, u)' \/ Waits(c, u)'
  <2>1. CASE u < s
    <3>1. CASE u < srv[c]
      <4>1. Lost(c, u) \/ Owed(c, u, names[c])
        BY <1>0, <3>1 DEF ListOk
      <4>2. Owed(c, u, names[c]) => Owed(c, u, names[c])'
        BY <1>2 DEF Owed, PathOfBase, Holders
      <4> QED BY <1>4, <2>1, <4>1, <4>2
    <3>2. CASE srv[c] <= u
      BY <1>4, <1>5, <2>1, <3>2 DEF Lost
    <3> QED BY <1>0, <1>4, <2>1, <3>1, <3>2
  <2>2. CASE u > s
    <3>1. Lost(c, u) \/ Waits(c, u)
      BY <1>0, <1>4, <1>5, <2>2 DEF ListOk
    <3>2. Waits(c, u) => Waits(c, u)'
      BY <1>2, <1>3, <1>4, <2>2 DEF Waits
    <3> QED BY <1>4, <2>2, <3>1, <3>2
  <2> QED BY <1>4, <2>1, <2>2
<1>7. Lost(c, s)' \/ Listing(c, s)'
  <2>1. Lost(c, s) \/ Waits(c, s)
    BY <1>0, <1>4, <1>5 DEF ListOk
  <2>2. CASE Lost(c, s)
    BY <1>4, <2>2
  <2>3. CASE ~Lost(c, s)
    <3>1. c2s'[c][s] = c2s[c][s] \o <<ListWord>>
      BY <1>0, <1>1, <2>3 DEF Lost, ClientSends, NetType
    <3>2. c2s'[c][s] = <<ListWord>> /\ s2c'[c][s] = <<>> /\ spc'[s][c] = "recv"
      BY <1>2, <2>1, <2>3, <3>1, Singles DEF Waits
    <3> QED BY <3>2 DEF Listing, ListWord
  <2> QED BY <2>2, <2>3
<1> QED BY <1>2, <1>6, <1>7 DEF ListOk

\* The server it was at is done with, one way or another.
LEMMA ListPasses ==
  ASSUME ListHyp, [Next]_vars, NEW c \in Lists, ListOk(c), base' = base, cpc[c] = "list_names",
         cpc'[c] = "list_query", srv'[c] = srv[c] + 1, names[c] \subseteq names'[c],
         NEW t \in Server, t = srv[c], Lost(c, t)' \/ Owed(c, t, names[c])',
         \A s \in Server \ {t} : /\ c2s'[c][s] = c2s[c][s] /\ s2c'[c][s] = s2c[c][s]
                                 /\ spc'[s][c] = spc[s][c]
  PROVE  ListOk(c)'
<1>1. srv[c] \in Nat /\ \A s \in Server : s \in Nat
  BY NAssumption DEF Server
<1>2. \A s \in Server : /\ s < srv[c] => Lost(c, s)' \/ Owed(c, s, names[c])'
                        /\ s > srv[c] => Lost(c, s)' \/ Waits(c, s)'
  BY ListGoesOn
<1>3. \A s \in Server : /\ s < srv'[c] => Lost(c, s)' \/ Owed(c, s, names[c])'
                        /\ s >= srv'[c] => Lost(c, s)' \/ Waits(c, s)'
  BY <1>1, <1>2
<1>4. \A s \in Server : (s > srv'[c] => s >= srv'[c]) /\ (s = srv'[c] => s >= srv'[c])
  BY <1>1
<1> QED BY <1>3, <1>4 DEF ListOk

LEMMA ListHears ==
  ASSUME ListHyp, [Next]_vars, NEW c \in Lists, ListOk(c), base' = base, ListAnswered(c)
  PROVE  ListOk(c)'
<1> PICK s \in Server : s = srv[c]
  BY OfList DEF ListAnswered, LoopInRange
<1>0. /\ c \in Client /\ ClientType /\ MemoryType /\ NetType /\ TypeInv /\ cpc[c] = "list_names"
      /\ Lost(c, s) \/ Listing(c, s)
  BY OfList DEF ListAnswered, ListOk
<1>1. /\ cpc'[c] = "list_query" /\ srv'[c] = srv[c] + 1 /\ UNCHANGED <<c2s, spc>>
  BY <1>0 DEF ListAnswered, ClientType, server
<1>2. Lost(c, s) => Lost(c, s)'
  BY <1>0, LostStays
<1>3. CASE Arrived(c, s) /\ Head(s2c[c][s]).t = "names" /\ Receive(c, s)
           /\ names' = [names EXCEPT ![c] = @ \cup Head(s2c[c][s]).names]
  <2>1. names'[c] = names[c] \cup Head(s2c[c][s]).names
    BY <1>0, <1>3 DEF MemoryType
  <2>2. \A u \in Server \ {s} : s2c'[c][u] = s2c[c][u]
    BY <1>0, <1>3, ReceivesOne
  <2>3. Lost(c, s)' \/ Owed(c, s, names[c])'
    <3>1. CASE Lost(c, s)
      BY <1>2, <3>1
    <3>2. CASE Listing(c, s)
      <4>1. PICK m \in S2C : s2c[c][s] = <<m>> /\ Owed(c, s, m.names)
        BY <1>3, <3>2 DEF Listing, Waits, Arrived
      <4>2. m.names \subseteq names'[c]
        BY <2>1, <4>1, Singles
      <4>3. Owed(c, s, names[c])'
        BY <4>1, <4>2 DEF Owed, PathOfBase, Holders
      <4> QED BY <4>3
    <3> QED BY <1>0, <3>1, <3>2
  <2> QED BY <1>0, <1>1, <2>1, <2>2, <2>3, ListPasses
<1>4. CASE ReadsEof(c, s) /\ UNCHANGED <<names, s2c>>
  <2>1. Lost(c, s)
    BY <1>4 DEF ReadsEof, Lost
  <2> QED BY <1>0, <1>1, <1>2, <1>4, <2>1, ListPasses
<1> QED BY <1>3, <1>4 DEF ListAnswered

\* A server that was not slow has not answered because it has nothing to say.
LEMMA ListMisses ==
  ASSUME ListHyp, [Next]_vars, MaxSlow = 0, NEW c \in Lists, ListOk(c), base' = base, ListFails(c)
  PROVE  ListOk(c)'
<1> PICK s \in Server : s = srv[c]
  BY OfList DEF ListFails, LoopInRange
<1>0. /\ c \in Client /\ ClientType /\ EnvType /\ TypeInv /\ cpc[c] = "list_names"
      /\ RecvFails(c, s) /\ (Lost(c, s) \/ Listing(c, s))
  BY OfList DEF ListFails, ListOk
<1>1. /\ cpc'[c] = "list_query" /\ srv'[c] = srv[c] + 1 /\ UNCHANGED <<c2s, s2c, spc, names>>
  BY <1>0 DEF ListFails, ClientType, server, net, memory
<1>2. Lost(c, s) => Lost(c, s)'
  BY <1>0, LostStays
<1>3. ASSUME ~Lost(c, s) PROVE Owed(c, s, names[c])'
  <2>1. Listing(c, s) /\ RecvFails(c, s) /\ serverEnd[c][s] = "open"
    BY <1>0, <1>3 DEF Lost
  <2>2. ~Arrived(c, s) /\ ~Busy(s, c)
    <3>1. ~(slow < MaxSlow)
      BY <1>0 DEF EnvType
    <3> QED BY <2>1, <3>1 DEF RecvFails, ReadsReset
  <2>3. ~(spc[s][c] = "recv" /\ c2s[c][s] # <<>>)
    BY <2>2 DEF Busy, Working
  <2>4. Owed(c, s, {})
    BY <2>1, <2>2, <2>3, Singles DEF Listing, Arrived
  <2> QED BY <2>4 DEF Owed, PathOfBase, Holders
<1> QED BY <1>0, <1>1, <1>2, <1>3, ListPasses

LEMMA ListShows ==
  ASSUME ListHyp, [Next]_vars, NEW c \in Lists, ListOk(c), base' = base, ListShow(c)
  PROVE  ListOk(c)'
<1>0. /\ c \in Client /\ ClientType /\ MemoryType /\ TypeInv /\ cpc[c] = "list_query"
      /\ NobodyLeft(c)
  BY OfList DEF ListShow
<1>1. cpc'[c] = "done"
  BY <1>0 DEF ListShow, ClientType
<1>2. \A s \in Server : (Lost(c, s) => Lost(c, s)') /\ s \in Nat
  BY <1>0, LostStays, NAssumption DEF Server
<1>3. ASSUME NEW s \in Server PROVE Lost(c, s)' \/ Owed(c, s, names[c])
  <2>1. srv[c] \in Nat
    BY <1>0, NAssumption DEF ClientType
  <2>2. CASE s < srv[c]
    BY <1>0, <1>2, <2>2 DEF ListOk
  <2>3. CASE srv[c] <= s
    BY <1>0, <1>2, <2>3 DEF NobodyLeft, Lost
  <2> QED BY <1>2, <2>1, <2>2, <2>3
<1>4. ASSUME NEW q \in base[c], \A k \in Chunk : \E s \in Holders(HashOf[q[1]], k) : ~Lost(c, s)'
      PROVE  \E r \in result'[c] : r.status = "complete" /\ r.file = q[1]
  <2> DEFINE listed == {p.file : p \in names[c]}
             full(x) == \A k \in Chunk : \E p \in names[c] : p.file = x /\ p.chunk = k
             shown(x) == [arg |-> 0, file |-> x,
                          status |-> IF full(x) THEN "complete" ELSE "[Incomplete]", parts |-> <<>>]
  <2>1. ASSUME NEW k \in Chunk PROVE \E p \in names[c] : p.file = q[1] /\ p.chunk = k
    <3>1. PICK s \in Holders(HashOf[q[1]], k) : ~Lost(c, s)'
      BY <1>4
    <3>2. PathOfBase(q, k) \in names[c]
      BY <1>3, <3>1 DEF Owed, Holders
    <3>3. PathOfBase(q, k).file = q[1] /\ PathOfBase(q, k).chunk = k
      BY DEF PathOfBase
    <3> QED BY <3>2, <3>3
  <2>2. full(q[1]) /\ 1 \in Chunk
    BY <2>1, NAssumption DEF Chunk
  <2>3. q[1] \in listed
    BY <2>2
  <2>4. result'[c] = {shown(x) : x \in listed}
    BY <1>0 DEF ListShow, MemoryType
  <2>5. shown(q[1]).status = "complete" /\ shown(q[1]).file = q[1]
    BY <2>2
  <2> HIDE DEF shown, listed, full
  <2>6. shown(q[1]) \in result'[c]
    BY <2>3, <2>4
  <2> QED BY <2>5, <2>6
<1>5. Shown(c)'
  BY <1>4 DEF Shown, Outcomes, Holders
<1> QED BY <1>1, <1>5 DEF ListOk

LEMMA ListFinishes ==
  ASSUME ListHyp, [Next]_vars, NEW c \in Lists, ListOk(c), Finish(c)
  PROVE  ListOk(c)'
<1>0. /\ c \in Client /\ ClientType /\ TypeInv /\ cpc[c] \in StatesOf(c)
  BY OfList
<1>1. cpc[c] = "done"
  BY <1>0 DEF Finish, StatesOf, Lists
<1>2. cpc'[c] = "exited" /\ UNCHANGED <<result, live, serverEnd, base>>
  BY <1>0 DEF Finish, ClientType, memory, hist
<1>3. Shown(c)'
  BY <1>1, <1>2 DEF ListOk, Shown, Outcomes, Lost, Holders
<1> QED BY <1>2, <1>3 DEF ListOk

LEMMA ListOfOne ==
  ASSUME ListHyp, MaxSlow = 0, [Next]_vars, NEW c \in Lists, ListOk(c), ClientStep(c) \/ Kill(c)
  PROVE  ListOk(c)'
<1>1. CASE ListStart(c)
  BY <1>1, ListStarts
<1>2. CASE ListFailsDies(c) \/ Kill(c)
  <2>1. cpc'[c] = "killed"
    BY <1>2, OfList DEF ListFailsDies, Dies, Kill, ClientType
  <2> QED BY <2>1 DEF ListOk
<1>3. CASE ~ListStart(c)
  <2>1. base' = base
    <3>1. ~GetStart(c) /\ c \in Client
      BY DEF GetStart, Lists
    <3> QED BY <1>3, <3>1, BaseChanges
  <2> QED BY <1>2, <1>3, <2>1, StepsOfList, ListConnects, ListAsks, ListHears, ListMisses,
          ListShows, ListFinishes
<1> QED BY <1>1, <1>3

\* Where nothing has come from a list its thread has nothing to do; the
\* command it answers with the names of all files, if there are any.
LEMMA ListServed ==
  ASSUME ListHyp, NEW c \in Lists, NEW s \in Server, ThreadStep(s, c), ~ServerDies(s),
         clientEnd[c][s] = "open"
  PROVE  /\ c2s[c][s] # <<>>
         /\ Listing(c, s) /\ base' = base => Listing(c, s)'
<1>0. c \in Client /\ RolesKept /\ NetType /\ ServerType /\ TypeInv
  BY OfList
<1>1. spc[s][c] \in {"none", "recv", "ended"} /\ ~Next_(s, c, "put") /\ ~Next_(s, c, "get")
  BY <1>0, WordOfRole DEF Lists, RolesKept, ThreadsOf
<1>2. RecvList(s, c) \/ RecvDone(s, c)
  BY <1>1 DEF ThreadStep, RecvPut, PutOpen, PutClose, PutAck, RecvGet, RecvGetNotFound,
     GetOpen, GetSend, RecvError, SendSigpipe
<1>3. c2s[c][s] # <<>>
  BY <1>2 DEF RecvList, RecvDone, Next_
<1>4. ASSUME Listing(c, s), base' = base PROVE Listing(c, s)'
  <2>1. c2s[c][s] = <<ListWord>> /\ s2c[c][s] = <<>> /\ spc[s][c] = "recv"
    BY <1>3, <1>4 DEF Listing, Waits
  <2>2. ListWord.t = "list" /\ Head(c2s[c][s]) = ListWord
    BY <2>1, Singles DEF ListWord
  <2>3. RecvList(s, c)
    BY <1>2, <1>3, <2>2 DEF RecvDone, Next_
  <2> DEFINE all == {p \in Path : disk[s][p] # Absent}
             m == [t |-> "names", names |-> all]
  <2>4. c2s'[c][s] = <<>>
    BY <1>0, <2>1, <2>3, TakesOne, Singles DEF RecvList
  <2>5. spc'[s][c] = "recv"
    BY <2>1, <2>3 DEF RecvList, server
  <2>6. Owed(c, s, all)
    <3> SUFFICES ASSUME NEW q \in base[c], NEW k \in Chunk, s \in Holders(HashOf[q[1]], k)
                 PROVE  PathOfBase(q, k) \in all
      BY DEF Owed
    <3>1. Present_(s, PathOfBase(q, k))
      BY <1>0 DEF ListHyp, BaseThere
    <3>2. q \in File \X Stamp
      BY <1>0 DEF TypeInv, TypeOK, HistType
    <3>3. PathOfBase(q, k) \in Path
      BY <3>2 DEF PathOfBase, Path
    <3> QED BY <3>1, <3>3 DEF Present_
  <2>7. Reply(s, c, IF all = {} THEN <<>> ELSE <<m>>)
    BY <2>3 DEF RecvList
  <2>8. m \in S2C /\ m.t = "names" /\ m.names = all
    <3>1. m \in [t : {"names"}, names : SUBSET Path]
      OBVIOUS
    <3> QED BY <3>1 DEF S2C
  <2> HIDE DEF m, all
  <2>9. \A paths : Owed(c, s, paths) => Owed(c, s, paths)'
    BY <1>4 DEF Owed, PathOfBase, Holders
  <2>10. CASE all = {}
    <3>1. s2c'[c][s] = <<>>
      BY <1>0, <2>1, <2>7, <2>10 DEF Reply, NetType
    <3>2. Owed(c, s, {})'
      BY <2>6, <2>9, <2>10
    <3> QED BY <2>4, <2>5, <3>1, <3>2 DEF Listing, Waits
  <2>11. CASE all # {}
    <3>1. Reply(s, c, <<m>>)
      BY <2>7, <2>11
    <3>2. s2c'[c][s] = <<m>>
      <4>1. s2c'[c][s] = s2c[c][s] \o <<m>>
        BY <1>0, <3>1, RepliesOnce
      <4> QED BY <2>1, <4>1, Singles
    <3>3. PICK n : n = m
      OBVIOUS
    <3>4. Owed(c, s, n.names)'
      BY <2>6, <2>8, <2>9, <3>3
    <3> QED BY <2>4, <2>5, <2>8, <3>2, <3>3, <3>4 DEF Listing
  <2> QED BY <2>10, <2>11
<1> QED BY <1>3, <1>4

LEMMA ListThreads ==
  ASSUME ListHyp, [Next]_vars, NEW c \in Lists, ListOk(c), NEW s \in Server, NEW d \in Client,
         ThreadStep(s, d), ~ServerDies(s)
  PROVE  ListOk(c)'
<1>0. c \in Client /\ TypeInv
  BY OfList
<1>1. /\ UNCHANGED <<progress, memory, hist, serverEnd>>
      /\ \A u \in Server : u # s \/ d # c =>
           c2s'[c][u] = c2s[c][u] /\ s2c'[c][u] = s2c[c][u] /\ spc'[u][c] = spc[u][c]
  BY <1>0, ThreadsLeaveOthers
<1>2. ProgressKept(c) /\ MemoryKept(c) /\ base' = base
  BY <1>1 DEF ProgressKept, MemoryKept, progress, memory, hist
<1>3. CASE cpc[c] \in {"exited", "killed"}
  <2>1. cpc'[c] = cpc[c] /\ (Shown(c) => Shown(c)')
    BY <1>1, <1>2 DEF ProgressKept, Shown, Outcomes, Lost, memory, Holders
  <2> QED BY <1>3, <2>1 DEF ListOk
<1>4. CASE cpc[c] \notin {"exited", "killed"}
  <2>1. clientEnd[c][s] = "open"
    BY <1>4, OfList
  <2>2. d = c => c2s[c][s] # <<>> /\ (Listing(c, s) => Listing(c, s)')
    BY <1>2, <2>1, ListServed
  <2>3. \A u \in Server : Waits(c, u) => Waits(c, u)'
    BY <1>1, <2>2 DEF Waits
  <2>4. \A u \in Server : Listing(c, u) => Listing(c, u)'
    <3> SUFFICES ASSUME NEW u \in Server, Listing(c, u), u # s \/ d # c PROVE Listing(c, u)'
      BY <2>2
    <3>1. \A paths : Owed(c, u, paths) => Owed(c, u, paths)'
      BY <1>2 DEF Owed, PathOfBase, Holders
    <3> QED BY <1>1, <3>1 DEF Listing, Waits, ListWord
  <2>5. \A u \in Server : c2s[c][u] = <<>> /\ s2c[c][u] = <<>> =>
          c2s'[c][u] = <<>> /\ s2c'[c][u] = <<>>
    BY <1>1, <2>2
  <2> QED BY <1>2, <2>3, <2>4, <2>5, ListFrame
<1> QED BY <1>3, <1>4

LEMMA ListDeath ==
  ASSUME ListHyp, [Next]_vars, NEW c \in Lists, ListOk(c), NEW s \in Server, ServerDies(s)
  PROVE  ListOk(c)'
<1>0. c \in Client /\ NetType /\ ServerType /\ TypeInv
  BY OfList
<1>1. /\ UNCHANGED <<progress, memory, s2c>> /\ eofAck' = eofAck /\ base' = base
      /\ c2s'[c][s] = <<>> /\ (spc[s][c] = "recv" => serverEnd'[c][s] # "open")
      /\ \A u \in Server \ {s} : c2s'[c][u] = c2s[c][u] /\ spc'[u][c] = spc[u][c]
  BY <1>0 DEF ServerDies, NetType, ServerType
<1>2. ProgressKept(c) /\ MemoryKept(c)
  BY <1>1 DEF ProgressKept, MemoryKept, progress, memory
<1>3. \A u \in Server : Waits(c, u) => Lost(c, u)' \/ Waits(c, u)'
  BY <1>1 DEF Waits, Lost
<1>4. ASSUME NEW u \in Server, Listing(c, u) PROVE Lost(c, u)' \/ Listing(c, u)'
  <2>1. CASE u = s
    BY <1>1, <1>4, <2>1 DEF Listing, Waits, Lost
  <2>2. CASE u # s
    <3>1. \A paths : Owed(c, u, paths) => Owed(c, u, paths)'
      BY <1>1 DEF Owed, PathOfBase, Holders
    <3> QED BY <1>1, <1>4, <2>2, <3>1 DEF Listing, Waits, ListWord
  <2> QED BY <2>1, <2>2
<1>5. \A u \in Server : c2s[c][u] = <<>> /\ s2c[c][u] = <<>> =>
        c2s'[c][u] = <<>> /\ s2c'[c][u] = <<>>
  BY <1>1
<1> QED BY <1>2, <1>3, <1>4, <1>5, ListFrame

LEMMA ListStep ==
  ASSUME MaxSlow = 0
  PROVE  ListHyp /\ ListsInv /\ [Next]_vars => ListsInv'
<1> SUFFICES ASSUME ListHyp, ListsInv, [Next]_vars, NEW c \in Lists PROVE ListOk(c)'
  BY DEF ListsInv
<1>0. ListOk(c) /\ c \in Client /\ TypeInv
  BY OfList DEF ListsInv
<1>1. ASSUME ProgressKept(c), MemoryKept(c), c2s'[c] = c2s[c], s2c'[c] = s2c[c],
             \A s \in Server : spc'[s][c] = spc[s][c]
      PROVE  ListOk(c)'
  <2>1. \A s \in Server : Waits(c, s) => Waits(c, s)'
    BY <1>1 DEF Waits
  <2>2. ASSUME NEW s \in Server, Listing(c, s) PROVE Listing(c, s)'
    <3>1. \A paths : Owed(c, s, paths) => Owed(c, s, paths)'
      BY <1>1 DEF Owed, PathOfBase, Holders, MemoryKept
    <3> QED BY <1>1, <2>2, <3>1 DEF Listing, Waits, ListWord
  <2> QED BY <1>0, <1>1, <2>1, <2>2, ListFrame
<1>2. ASSUME NEW d \in Client, ClientStep(d) \/ Kill(d) PROVE ListOk(c)'
  <2>1. CASE d = c
    BY <1>0, <1>2, <2>1, ListOfOne
  <2>2. CASE d # c
    BY <1>0, <1>1, <1>2, <2>2, OthersKept DEF ClientKept, NetKept
  <2> QED BY <2>1, <2>2
<1>3. ASSUME NEW s \in Server, NEW d \in Client, ThreadStep(s, d) PROVE ListOk(c)'
  BY <1>0, <1>3, ListThreads, ListDeath
<1>4. ASSUME NEW s \in Server, Crash(s) \/ Restart(s) PROVE ListOk(c)'
  <2>1. CASE Crash(s)
    BY <1>0, <2>1, ListDeath DEF Crash
  <2>2. CASE Restart(s)
    <3>1. UNCHANGED <<progress, memory, hist, c2s, s2c, spc>>
      BY <2>2 DEF Restart, net
    <3> QED BY <1>1, <3>1 DEF ProgressKept, MemoryKept, progress, memory, hist
  <2> QED BY <1>4, <2>1, <2>2
<1>5. CASE UNCHANGED vars
  <2>1. UNCHANGED <<progress, memory, hist, c2s, s2c, spc>>
    BY <1>5 DEF vars, net, server
  <2> QED BY <1>1, <2>1 DEF ProgressKept, MemoryKept, progress, memory, hist
<1> QED BY <1>2, <1>3, <1>4, <1>5 DEF Next

\* What is stored is shown (dfc.c:743-768 and dfs.c:278-307): a list that
\* began after a put of the file was complete shows the file as complete, or
\* there is a chunk neither holder of which it reached or heard of.  Of the
\* servers it takes that none answers later than the client's timeout.
THEOREM StoredIsShown ==
  ASSUME ~SameMicrosecond, NoFileTwice, MaxSlow = 0
  PROVE  Spec => []ListShowsStored
<1>1. Init => BaseThere /\ ListsInv
  BY NAssumption DEF Init, BaseThere, ListsInv, Lists, ListOk, Lost
<1>2. Inv /\ TalkInv /\ BaseThere /\ ListsInv /\ [Next]_vars => BaseThere' /\ ListsInv'
  BY BaseStep, ListStep DEF ListHyp
<1>3. Spec => [](Inv /\ TalkInv)
  BY InvInvariant, TalkInvariant, PTL
<1>4. Spec => []ListsInv
  BY <1>1, <1>2, <1>3, PTL DEF Spec
<1>5. ListsInv => ListShowsStored
  BY DEF ListsInv, Lists, ListOk, Shown, Lost, ListShowsStored
<1> QED BY <1>4, <1>5, PTL
=============================================================================
