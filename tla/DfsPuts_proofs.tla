--------------------------- MODULE DfsPuts_proofs ---------------------------
(***************************************************************************)
(* What was acknowledged is stored, for any number of servers, clients and *)
(* files, through crashes, restarts, kills and later puts.                 *)
(***************************************************************************)
EXTENDS Dfs_proofs

(* -------------------- where the chunk of a put is ----------------------- *)

\* Client c has come past the w-th chunk of server s of its i-th argument.
Past(c, i, s, w) ==
  \/ i < arg[c]
  \/ i = arg[c] /\ s < srv[c]
  \/ i = arg[c] /\ s = srv[c] /\ w < pos[c]
PathOf(c, i, s, w) ==
  [file |-> Job[c].files[i], chunk |-> Slot(HashOf[Job[c].files[i]], s, w), ts |-> ts[c]]
WholeBy(c) == [ver |-> c, st |-> "whole"]
Header(c) == [t |-> "put", path |-> PutPath(c)]
Rest == [t |-> "rest"]

AtRest(c, s) == spc[s][c] \in {"none", "recv", "ended"}

\* Nothing is on its way between c and s, but perhaps the word that c is done.
Idle(c, s) ==
  /\ AtRest(c, s) /\ s2c[c][s] = <<>>
  /\ \/ c2s[c][s] = <<>>
     \/ cpc[c] = "exited" /\ c2s[c][s] = <<[t |-> "done"]>>

\* The chunk is in the connection, with the thread, acknowledged by it, and
\* the acknowledgement is in the connection.
Sent(c, s) ==
  /\ AtRest(c, s) /\ s2c[c][s] = <<>>
  /\ \/ c2s[c][s] = <<Header(c)>>
     \/ c2s[c][s] = <<Header(c), Rest>> /\ Size(c, PutPath(c)) > 0
Writing(c, s) ==
  /\ spc[s][c] \in {"put_lock", "put_write"} /\ s2c[c][s] = <<>>
  /\ cur[s][c] = PutPath(c)
  /\ \/ c2s[c][s] = <<>>
     \/ c2s[c][s] = <<Rest>> /\ Size(c, PutPath(c)) > 0
  /\ spc[s][c] = "put_write" => disk[s][PutPath(c)].ver = c
Acking(c, s) ==
  /\ spc[s][c] = "put_ack" /\ s2c[c][s] = <<>> /\ c2s[c][s] = <<>>
  /\ disk[s][PutPath(c)] = WholeBy(c)
Acked(c, s) ==
  /\ AtRest(c, s) /\ c2s[c][s] = <<>> /\ s2c[c][s] = <<[t |-> "ack"]>>
  /\ disk[s][PutPath(c)] = WholeBy(c)

UnderWay(c, s) ==
  /\ cpc[c] \in {"put_ack", "exited", "killed"} /\ s = srv[c]
  /\ ~NoMoreArgs(c) /\ pos[c] \in Which /\ ts[c] \in Stamp
  /\ Sent(c, s) \/ Writing(c, s) \/ Acking(c, s) \/ Acked(c, s)

\* A put sends one chunk at a time: the connections are idle, all but that
\* of the server it is at.
InTurn(c) == \A s \in Server : Idle(c, s) \/ UnderWay(c, s)
AtStart(c) ==
  /\ cpc[c] \in {"connect", "dispatch"} =>
       arg[c] = 1 /\ pos[c] = 1 /\ ts[c] = 0 /\ result[c] = {}
  /\ cpc[c] = "dispatch" => srv[c] = 1
  /\ (cpc[c] = "put_ack" \/ (cpc[c] = "put_send" /\ ~(srv[c] = 1 /\ pos[c] = 1)))
       => ~NoMoreArgs(c) /\ LocalSize[c][F(c)] >= 0

\* What it has come past is on disk, and what it calls stored it has.
AckedSoFar(c) == ts[c] # 0 /\ ~eofAck[c] =>
  \A i \in DOMAIN Job[c].files, s \in Server, w \in Which :
    Past(c, i, s, w) /\ LocalSize[c][Job[c].files[i]] >= 0
      => disk[s][PathOf(c, i, s, w)] = WholeBy(c)
StoredKnown(c) == \A r \in result[c] : r.status = "stored" =>
  /\ ts[c] # 0
  /\ \E i \in DOMAIN Job[c].files :
       i < arg[c] /\ r.file = Job[c].files[i] /\ LocalSize[c][r.file] >= 0

PutOk(c) == InTurn(c) /\ AtStart(c) /\ AckedSoFar(c) /\ StoredKnown(c)
PutsInv == \A c \in Puts : PutOk(c)

Inv == /\ TypeInv /\ MutexInv /\ RolesKept /\ EndsAreFinal /\ StampsApart
       /\ PutsInv

LEMMA PutsInit == Init => PutsInv
<1> SUFFICES ASSUME Init, NEW c \in Puts PROVE PutOk(c)
  BY DEF PutsInv
<1> USE DEF Init, Puts
<1>1. InTurn(c)
  BY DEF InTurn, Idle, AtRest
<1>2. AtStart(c) /\ AckedSoFar(c) /\ StoredKnown(c)
  BY DEF AtStart, AckedSoFar, StoredKnown
<1> QED BY <1>1, <1>2 DEF PutOk

(* ---------------------- which chunks are different ---------------------- *)

\* What the theorem asks of a command line: it does not name a file twice.
NoFileTwice == \A c \in Puts : \A i, j \in DOMAIN Job[c].files :
  Job[c].files[i] = Job[c].files[j] => i = j

LEMMA SlotsDiffer ==
  ASSUME NEW x \in Hash, NEW s \in Server, NEW v \in Which, NEW w \in Which,
         Slot(x, s, v) = Slot(x, s, w)
  PROVE  v = w
BY NAssumption DEF Slot, Wrap, Hash, Server, Which

LEMMA PathIsPath ==
  ASSUME NEW c \in Client, ts[c] \in Stamp, NEW i \in DOMAIN Job[c].files,
         NEW s \in Server, NEW w \in Which
  PROVE  PathOf(c, i, s, w) \in Path
<1>1. Job[c].files[i] \in File
  BY DfsAssumption
<1>2. Slot(HashOf[Job[c].files[i]], s, w) \in Chunk
  BY <1>1, SlotIsChunk, DfsAssumption
<1> QED BY <1>1, <1>2 DEF PathOf, Path

\* A chunk that a put has come past is not the one it is at.
LEMMA PastIsPast ==
  ASSUME NoFileTwice, TypeInv, NEW c \in Puts, ~NoMoreArgs(c), pos[c] \in Which,
         srv[c] \in Server,
         NEW i \in DOMAIN Job[c].files, NEW w \in Which, Past(c, i, srv[c], w)
  PROVE  PathOf(c, i, srv[c], w) # PutPath(c)
<1>1. c \in Client /\ arg[c] \in Nat /\ arg[c] >= 1
  BY DEF Puts, TypeInv, TypeOK, ClientType, LoopsInRange, LoopInRange
<1>2. arg[c] \in DOMAIN Job[c].files
  BY <1>1, DfsAssumption DEF NoMoreArgs
<1>3. Job[c].files[arg[c]] \in File
  BY <1>1, <1>2, DfsAssumption
<1>4. HashOf[Job[c].files[arg[c]]] \in Hash
  BY <1>3, DfsAssumption
<1>5. CASE i < arg[c]
  <2>1. Job[c].files[i] # Job[c].files[arg[c]]
    BY <1>1, <1>2, <1>5, DfsAssumption DEF NoFileTwice
  <2> QED BY <2>1 DEF PathOf, PutPath, F
<1>6. CASE i = arg[c] /\ w < pos[c]
  <2>1. Slot(HashOf[Job[c].files[arg[c]]], srv[c], w)
          # Slot(HashOf[Job[c].files[arg[c]]], srv[c], pos[c])
    BY <1>4, <1>6, SlotsDiffer DEF Which
  <2> QED BY <1>6, <2>1 DEF PathOf, PutPath, F
<1> QED BY <1>5, <1>6 DEF Past, Server

\* The thread that is about to write a file, or does, is that of a put, and
\* the file is the one the put is at.
LEMMA WriterIsPut ==
  ASSUME Inv, NEW s \in Server, NEW d \in Client, spc[s][d] \in {"put_lock", "put_write"}
  PROVE  /\ d \in Puts /\ UnderWay(d, s) /\ Writing(d, s)
         /\ s = srv[d] /\ cur[s][d] = PutPath(d)
<1>1. d \in Puts
  BY CommandOf DEF Inv, RolesKept, ThreadsOf, Puts
<1>2. ~Idle(d, s)
  BY DEF Idle, AtRest
<1>3. UnderWay(d, s)
  BY <1>1, <1>2 DEF Inv, PutsInv, PutOk, InTurn
<1>4. Writing(d, s) /\ s = srv[d]
  BY <1>3 DEF UnderWay, Sent, Acking, Acked, AtRest
<1> QED BY <1>1, <1>3, <1>4 DEF Writing

\* A directory changes where a thread is about to write, or writes.
DiskChange == \A s \in Server, p \in Path : disk'[s][p] # disk[s][p] =>
  \E d \in Client : spc[s][d] \in {"put_lock", "put_write"} /\ cur[s][d] = p

LEMMA PastStays ==
  ASSUME Inv, NoFileTwice, DiskChange, NEW c \in Puts, ts[c] \in Stamp,
         NEW i \in DOMAIN Job[c].files, NEW s \in Server, NEW w \in Which,
         Past(c, i, s, w)
  PROVE  disk'[s][PathOf(c, i, s, w)] = disk[s][PathOf(c, i, s, w)]
<1> DEFINE p == PathOf(c, i, s, w)
<1>0. c \in Client
  BY DEF Puts
<1>1. p \in Path
  BY <1>0, PathIsPath
<1> SUFFICES ASSUME NEW d \in Client, spc[s][d] \in {"put_lock", "put_write"}, cur[s][d] = p
             PROVE  FALSE
  BY <1>1 DEF DiskChange
<1>2. /\ d \in Puts /\ UnderWay(d, s) /\ s = srv[d] /\ p = PutPath(d)
  BY WriterIsPut
<1>3. ts[d] = ts[c]
  BY <1>2 DEF PathOf, PutPath
<1>4. d = c
  BY <1>0, <1>3 DEF Inv, StampsApart, Stamp
<1> QED BY <1>2, <1>4, PastIsPast DEF Inv, UnderWay

\* Nor does anybody else write the chunk that a put is at.
LEMMA CurrentStays ==
  ASSUME Inv, DiskChange, NEW c \in Puts, NEW s \in Server, UnderWay(c, s),
         spc[s][c] \notin {"put_lock", "put_write"}
  PROVE  disk'[s][PutPath(c)] = disk[s][PutPath(c)]
<1>0. /\ c \in Client /\ ts[c] \in Stamp /\ ~NoMoreArgs(c) /\ pos[c] \in Which
      /\ s = srv[c]
  BY DEF Puts, UnderWay
<1>1. PutPath(c) = PathOf(c, arg[c], s, pos[c])
  BY <1>0 DEF PutPath, PathOf, F
<1>2. arg[c] \in DOMAIN Job[c].files
  BY <1>0, DfsAssumption
  DEF NoMoreArgs, Inv, TypeInv, TypeOK, ClientType, LoopsInRange, LoopInRange
<1>3. PutPath(c) \in Path
  BY <1>0, <1>1, <1>2, PathIsPath
<1> SUFFICES ASSUME NEW d \in Client, spc[s][d] \in {"put_lock", "put_write"},
                    cur[s][d] = PutPath(c)
             PROVE  FALSE
  BY <1>3 DEF DiskChange
<1>4. PutPath(d) = PutPath(c)
  BY WriterIsPut
<1>5. ts[d] = ts[c]
  BY <1>4 DEF PutPath
<1>6. d = c
  BY <1>0, <1>5 DEF Inv, StampsApart, Stamp
<1> QED BY <1>6

(* ------------- what other processes leave alone of a put ---------------- *)

LEMMA PutPathKept ==
  ASSUME NEW c, ProgressKept(c), ts'[c] = ts[c]
  PROVE  /\ F(c)' = F(c) /\ PutPath(c)' = PutPath(c) /\ NoMoreArgs(c)' = NoMoreArgs(c)
         /\ Header(c)' = Header(c) /\ Size(c, PutPath(c))' = Size(c, PutPath(c))
<1>1. F(c)' = F(c) /\ NoMoreArgs(c)' = NoMoreArgs(c)
  BY DEF ProgressKept, F, NoMoreArgs
<1>2. PutPath(c)' = PutPath(c)
  BY <1>1 DEF ProgressKept, PutPath
<1> QED BY <1>1, <1>2 DEF Header, Size

\* No disk loses what a put has come past.
LEMMA AckedKept ==
  ASSUME Inv, NoFileTwice, DiskChange, NEW c \in Puts, ts'[c] = ts[c],
         ProgressKept(c), eofAck'[c] = eofAck[c]
  PROVE  AckedSoFar(c)'
<1> SUFFICES ASSUME ts[c] # 0, ~eofAck[c], NEW i \in DOMAIN Job[c].files, NEW s \in Server,
                    NEW w \in Which, Past(c, i, s, w),
                    LocalSize[c][Job[c].files[i]] >= 0
             PROVE  disk'[s][PathOf(c, i, s, w)] = WholeBy(c)
  BY DEF AckedSoFar, ProgressKept, Past, PathOf, WholeBy
<1>1. ts[c] \in Stamp
  BY DEF Inv, TypeInv, TypeOK, MemoryType, Puts
<1>2. disk[s][PathOf(c, i, s, w)] = WholeBy(c)
  BY DEF Inv, PutsInv, PutOk, AckedSoFar
<1> QED BY <1>1, <1>2, PastStays

LEMMA StoredKept ==
  ASSUME Inv, NEW c \in Puts, ts'[c] = ts[c], arg'[c] = arg[c], result'[c] = result[c]
  PROVE  StoredKnown(c)'
BY DEF Inv, PutsInv, PutOk, StoredKnown

\* The connection to a server where nothing happens to the client.
LEMMA ConnectionKept ==
  ASSUME Inv, DiskChange, NEW c \in Puts, ProgressKept(c), ts'[c] = ts[c], NEW s \in Server,
         spc'[s][c] = spc[s][c], cur'[s][c] = cur[s][c],
         c2s'[c][s] = c2s[c][s], s2c'[c][s] = s2c[c][s],
         spc[s][c] = "put_write" => disk'[s][PutPath(c)].ver = c
  PROVE  (Idle(c, s) \/ UnderWay(c, s))'
<1>1. Idle(c, s) \/ UnderWay(c, s)
  BY DEF Inv, PutsInv, PutOk, InTurn
<1>2. CASE Idle(c, s)
  BY <1>2 DEF Idle, AtRest, ProgressKept
<1>3. CASE UnderWay(c, s)
  <2>0. /\ PutPath(c)' = PutPath(c) /\ NoMoreArgs(c)' = NoMoreArgs(c)
        /\ Header(c)' = Header(c) /\ Size(c, PutPath(c))' = Size(c, PutPath(c))
    BY PutPathKept
  <2>1. CASE Sent(c, s)
    <3>1. Sent(c, s)'
      BY <2>0, <2>1 DEF Sent, AtRest, Rest
    <3> QED BY <1>3, <2>0, <3>1 DEF UnderWay, ProgressKept
  <2>2. CASE Writing(c, s)
    <3>1. Writing(c, s)'
      BY <2>0, <2>2 DEF Writing, Rest
    <3> QED BY <1>3, <2>0, <3>1 DEF UnderWay, ProgressKept
  <2>3. CASE Acking(c, s) \/ Acked(c, s)
    <3>1. spc[s][c] \notin {"put_lock", "put_write"}
      BY <2>3 DEF Acking, Acked, AtRest
    <3>2. disk'[s][PutPath(c)] = WholeBy(c)
      BY <1>3, <2>3, <3>1, CurrentStays DEF Acking, Acked
    <3>3. Acking(c, s)' \/ Acked(c, s)'
      BY <2>0, <2>3, <3>2 DEF Acking, Acked, AtRest, WholeBy
    <3> QED BY <1>3, <2>0, <3>3 DEF UnderWay, ProgressKept
  <2> QED BY <1>3, <2>1, <2>2, <2>3 DEF UnderWay
<1> QED BY <1>1, <1>2, <1>3

LEMMA StartKept ==
  ASSUME Inv, NEW c \in Puts, ProgressKept(c), ts'[c] = ts[c], result'[c] = result[c]
  PROVE  AtStart(c)'
<1>1. F(c)' = F(c) /\ NoMoreArgs(c)' = NoMoreArgs(c)
  BY PutPathKept
<1> QED BY <1>1 DEF AtStart, ProgressKept, Inv, PutsInv, PutOk

\* A step of another process that leaves everything of c's alone but for
\* the directories.
LEMMA PutFrame ==
  ASSUME Inv, NoFileTwice, DiskChange, NEW c \in Puts, ProgressKept(c), MemoryKept(c),
         \A s \in Server :
           /\ spc'[s][c] = spc[s][c] /\ cur'[s][c] = cur[s][c]
           /\ c2s'[c][s] = c2s[c][s] /\ s2c'[c][s] = s2c[c][s]
           /\ spc[s][c] = "put_write" => disk'[s][PutPath(c)].ver = c
  PROVE  PutOk(c)'
<1>1. ts'[c] = ts[c] /\ result'[c] = result[c] /\ eofAck'[c] = eofAck[c] /\ arg'[c] = arg[c]
  BY DEF MemoryKept, ProgressKept
<1>2. InTurn(c)'
  <2> SUFFICES ASSUME NEW s \in Server PROVE (Idle(c, s) \/ UnderWay(c, s))'
    BY DEF InTurn
  <2> QED BY <1>1, ConnectionKept
<1>3. AtStart(c)' /\ AckedSoFar(c)' /\ StoredKnown(c)'
  BY <1>1, StartKept, AckedKept, StoredKept
<1> QED BY <1>2, <1>3 DEF PutOk

(* ------------------------ the steps of a put ---------------------------- *)

PutStep(c) == \/ Connect(c) \/ PutRefused(c) \/ PutStart(c) \/ PutSkip(c) \/ PutSend(c)
              \/ PutSendDies(c) \/ PutAcked(c) \/ PutEof(c) \/ PutFails(c)
              \/ (Finish(c) /\ cpc[c] = "put_send" /\ NoMoreArgs(c)) \/ Kill(c)

LEMMA StepsOfPut ==
  ASSUME RolesKept, NEW c \in Puts, ClientStep(c) \/ Kill(c)
  PROVE  PutStep(c)
<1>1. cpc[c] \in {"connect", "dispatch", "exited", "killed", "put_send", "put_ack"}
      /\ Job[c].cmd = "put"
  BY DEF RolesKept, StatesOf, Puts
<1>2. ~GetStart(c) /\ ~ListStart(c) /\ ~GetQuery(c) /\ ~GetQueryDies(c) /\ ~GetMissing(c)
      /\ ~GetJunk(c) /\ ~GetReady(c) /\ ~GetNot(c) /\ ~GetFails(c) /\ ~GetData(c)
  BY <1>1 DEF GetStart, ListStart, GetQuery, GetQueryDies, GetMissing, GetJunk, GetReady,
     GetNot, GetFails, GetData
<1>3. ~GetDataFails(c) /\ ~GetDataForEver(c) /\ ~ListQuery(c) /\ ~ListAnswered(c)
      /\ ~ListFails(c) /\ ~ListFailsDies(c) /\ ~ListShow(c)
  BY <1>1 DEF GetDataFails, GetDataForEver, ListQuery, ListAnswered, ListFails,
     ListFailsDies, ListShow
<1>4. Finish(c) => cpc[c] = "put_send" /\ NoMoreArgs(c)
  BY <1>1 DEF Finish
<1> QED BY <1>2, <1>3, <1>4 DEF ClientStep, PutStep

\* Before the first send, and between two of them, every connection is idle.
LEMMA IdleBetween ==
  ASSUME Inv, NEW c \in Puts, cpc[c] \in {"connect", "dispatch", "put_send"}, NEW s \in Server
  PROVE  AtRest(c, s) /\ s2c[c][s] = <<>> /\ c2s[c][s] = <<>>
<1>1. Idle(c, s)
  BY DEF Inv, PutsInv, PutOk, InTurn, UnderWay
<1> QED BY <1>1 DEF Idle

\* Of the chunks of other servers nothing is under way.
LEMMA IdleElsewhere ==
  ASSUME Inv, NEW c \in Puts, NEW s \in Server, s # srv[c], cpc[c] # "exited"
  PROVE  AtRest(c, s) /\ s2c[c][s] = <<>> /\ c2s[c][s] = <<>>
<1>1. Idle(c, s)
  BY DEF Inv, PutsInv, PutOk, InTurn, UnderWay
<1> QED BY <1>1 DEF Idle

\* A run that ends with a chunk under way leaves it so, but for an
\* acknowledgement, which is lost.
LEMMA LeavesPut ==
  ASSUME Inv, NEW c \in Puts, cpc[c] \notin {"exited", "killed"},
         NEW l \in {"exited", "killed"}, cpc' = [cpc EXCEPT ![c] = l],
         UNCHANGED <<arg, srv, pos, ts, spc, cur, disk>>,
         s2c' = [s2c EXCEPT ![c] = [s \in Server |-> <<>>]],
         NEW s \in Server,
         \/ c2s'[c][s] = c2s[c][s]
         \/ c2s[c][s] = <<>> /\ c2s'[c][s] = <<[t |-> "done"]>> /\ l = "exited"
            /\ ~UnderWay(c, s)
         \/ c2s[c][s] = <<Header(c), Rest>> /\ c2s'[c][s] = <<Header(c)>>
         \/ c2s[c][s] = <<Rest>> /\ c2s'[c][s] = <<>>
  PROVE  (Idle(c, s) \/ UnderWay(c, s))'
<1>0. /\ cpc'[c] = l /\ s2c'[c][s] = <<>>
      /\ arg'[c] = arg[c] /\ srv'[c] = srv[c] /\ pos'[c] = pos[c]
      /\ spc'[s][c] = spc[s][c]
  BY DEF Inv, TypeInv, TypeOK, ClientType, NetType, Puts
<1>1. /\ PutPath(c)' = PutPath(c) /\ NoMoreArgs(c)' = NoMoreArgs(c)
      /\ Header(c)' = Header(c) /\ Size(c, PutPath(c))' = Size(c, PutPath(c))
  <2>1. F(c)' = F(c) /\ NoMoreArgs(c)' = NoMoreArgs(c)
    BY DEF F, NoMoreArgs
  <2>2. PutPath(c)' = PutPath(c)
    BY <2>1 DEF PutPath
  <2> QED BY <2>1, <2>2 DEF Header, Size
<1>2. Idle(c, s) \/ UnderWay(c, s)
  BY DEF Inv, PutsInv, PutOk, InTurn
<1>3. CASE Idle(c, s)
  <2>1. AtRest(c, s) /\ c2s[c][s] = <<>>
    BY <1>3 DEF Idle
  <2>2. \/ c2s'[c][s] = <<>>
        \/ l = "exited" /\ c2s'[c][s] = <<[t |-> "done"]>>
    BY <2>1
  <2> QED BY <1>0, <2>1, <2>2 DEF Idle, AtRest
<1>4. CASE UnderWay(c, s)
  <2> DEFINE here == /\ s = srv[c] /\ ~NoMoreArgs(c) /\ pos[c] \in Which /\ ts[c] \in Stamp
  <2>0. cpc'[c] \in {"exited", "killed"} /\ here'
    BY <1>0, <1>1, <1>4 DEF UnderWay
  <2>1. CASE Sent(c, s)
    <3>1. c2s'[c][s] = <<Header(c)>>
          \/ (c2s'[c][s] = <<Header(c), Rest>> /\ Size(c, PutPath(c)) > 0)
      BY <1>4, <2>1 DEF Sent, Rest, Header
    <3>2. Sent(c, s)'
      BY <1>0, <1>1, <2>1, <3>1 DEF Sent, AtRest, Rest
    <3> QED BY <2>0, <3>2 DEF UnderWay
  <2>2. CASE Writing(c, s)
    <3>1. c2s'[c][s] = <<>> \/ (c2s'[c][s] = <<Rest>> /\ Size(c, PutPath(c)) > 0)
      BY <1>4, <2>2 DEF Writing, Rest, Header
    <3>2. Writing(c, s)'
      BY <1>0, <1>1, <2>2, <3>1 DEF Writing, Rest
    <3> QED BY <2>0, <3>2 DEF UnderWay
  <2>3. CASE Acking(c, s)
    <3>1. c2s'[c][s] = <<>>
      BY <1>4, <2>3 DEF Acking
    <3>2. Acking(c, s)'
      BY <1>0, <1>1, <2>3, <3>1 DEF Acking, WholeBy
    <3> QED BY <2>0, <3>2 DEF UnderWay
  <2>4. CASE Acked(c, s)
    <3>1. c2s'[c][s] = <<>>
      BY <1>4, <2>4 DEF Acked
    <3> QED BY <1>0, <2>4, <3>1 DEF Acked, Idle, AtRest
  <2> QED BY <1>4, <2>1, <2>2, <2>3, <2>4 DEF UnderWay
<1> QED BY <1>2, <1>3, <1>4

LEMMA OneLong ==
  ASSUME NEW S, NEW q \in Seq(S), NEW x, Len(q) = 1, q[1] = x
  PROVE  q = <<x>>
OBVIOUS

LEMMA TakeOffRest ==
  ASSUME NEW x, NEW y
  PROVE  SubSeq(<<x, y>>, 1, Len(<<x, y>>) - 1) = <<x>>
<1> DEFINE z == SubSeq(<<x, y>>, 1, 1)
           S == {x, y}
<1>1. Len(<<x, y>>) - 1 = 1
  OBVIOUS
<1>2. z \in Seq(S) /\ Len(z) = 1 /\ z[1] = x
  <2>1. <<x, y>> \in Seq(S)
    OBVIOUS
  <2>2. z \in Seq(S)
    BY <2>1
  <2> QED BY <2>1, <2>2
<1> HIDE DEF z, S
<1>3. z = <<x>>
  BY <1>2, OneLong
<1> QED BY <1>1, <1>3 DEF z

\* A kill takes at most the rest of the chunk off the connection.
LEMMA KillTakesRest ==
  ASSUME Inv, NEW c \in Puts, Kill(c), ~UNCHANGED c2s, NEW s \in Server
  PROVE  \/ c2s'[c][s] = c2s[c][s]
         \/ c2s[c][s] = <<Header(c), Rest>> /\ c2s'[c][s] = <<Header(c)>>
         \/ c2s[c][s] = <<Rest>> /\ c2s'[c][s] = <<>>
<1> DEFINE q == c2s[c][srv[c]]
<1>1. /\ cpc[c] = "put_ack" /\ q # <<>> /\ q[Len(q)].t = "rest"
      /\ c2s' = [c2s EXCEPT ![c][srv[c]] = SubSeq(q, 1, Len(q) - 1)]
  BY DEF Kill
<1>2. srv[c] \in Server /\ c \in Client
  BY <1>1 DEF Inv, TypeInv, LoopsInRange, LoopInRange, Puts
<1>3. CASE s # srv[c]
  BY <1>1, <1>2, <1>3 DEF Inv, TypeInv, TypeOK, NetType
<1>4. CASE s = srv[c]
  <2>1. c2s'[c][s] = SubSeq(q, 1, Len(q) - 1)
    BY <1>1, <1>2, <1>4 DEF Inv, TypeInv, TypeOK, NetType
  <2>2. Idle(c, s) \/ UnderWay(c, s)
    BY <1>2 DEF Inv, PutsInv, PutOk, InTurn
  <2>3. q \in {<<Header(c)>>, <<Header(c), Rest>>, <<Rest>>}
    BY <1>1, <1>4, <2>2 DEF Idle, UnderWay, Sent, Writing, Acking, Acked
  <2>4. q # <<Header(c)>>
    BY <1>1 DEF Header
  <2>5. CASE q = <<Header(c), Rest>>
    BY <1>4, <2>1, <2>5, TakeOffRest
  <2>6. CASE q = <<Rest>>
    BY <1>4, <2>1, <2>6
  <2> QED BY <2>3, <2>4, <2>5, <2>6
<1> QED BY <1>3, <1>4

\* The end of a put, by whatever cause, what it had done so far.
LEMMA EndsOk ==
  ASSUME Inv, NEW c \in Puts, cpc[c] \notin {"exited", "killed"},
         NEW l \in {"exited", "killed"}, cpc' = [cpc EXCEPT ![c] = l],
         UNCHANGED <<arg, srv, pos, ts, disk, eofAck>>,
         \A r \in result'[c] : r \in result[c] \/ r.status # "stored"
  PROVE  AtStart(c)' /\ AckedSoFar(c)' /\ StoredKnown(c)'
<1>0. cpc'[c] = l
  BY DEF Inv, TypeInv, TypeOK, ClientType, Puts
<1>1. AtStart(c)'
  BY <1>0 DEF AtStart
<1>2. AckedSoFar(c)'
  BY DEF Inv, PutsInv, PutOk, AckedSoFar, Past, PathOf, WholeBy
<1>3. StoredKnown(c)'
  BY DEF Inv, PutsInv, PutOk, StoredKnown
<1> QED BY <1>1, <1>2, <1>3

LEMMA PutEnds ==
  ASSUME Inv, NEW c \in Puts,
         PutRefused(c) \/ PutSendDies(c) \/ PutFails(c) \/ Kill(c)
           \/ (Finish(c) /\ cpc[c] = "put_send" /\ NoMoreArgs(c))
  PROVE  PutOk(c)'
<1>0. c \in Client /\ ~Connect(c)
  BY DEF Puts, PutRefused, PutSendDies, PutFails, Kill, Finish, Dies, Connect, Inv, TypeInv,
     TypeOK, ClientType
<1>1. /\ UNCHANGED <<arg, srv, pos, ts, eofAck>>
      /\ cpc[c] \notin {"exited", "killed"}
      /\ s2c' = [s2c EXCEPT ![c] = [s \in Server |-> <<>>]]
  BY DEF PutRefused, PutSendDies, PutFails, Kill, Finish, Dies, CloseAll, memory, hist, Running
<1>2. UNCHANGED <<spc, cur, disk>>
  BY DEF PutRefused, PutSendDies, PutFails, Kill, Finish, Dies, server
<1>3. PICK l \in {"exited", "killed"} :
        cpc' = [cpc EXCEPT ![c] = l] /\ (Finish(c) => l = "exited")
  BY DEF PutRefused, PutSendDies, PutFails, Kill, Finish, Dies
<1>4. \A r \in result'[c] : r \in result[c] \/ r.status # "stored"
  <2>1. CASE PutRefused(c)
    BY <1>0, <2>1 DEF PutRefused, Inv, TypeInv, TypeOK, MemoryType
  <2>2. CASE PutFails(c)
    BY <1>0, <2>2 DEF PutFails, Report, Inv, TypeInv, TypeOK, MemoryType
  <2>3. CASE PutSendDies(c) \/ Kill(c) \/ Finish(c)
    BY <2>3 DEF PutSendDies, Dies, Kill, Finish, memory
  <2> QED BY <2>1, <2>2, <2>3
<1>5. InTurn(c)'
  <2> SUFFICES ASSUME NEW s \in Server
               PROVE  (Idle(c, s) \/ UnderWay(c, s))'
    BY DEF InTurn
  <2>1. CASE UNCHANGED c2s
    BY <1>1, <1>2, <1>3, <2>1, LeavesPut
  <2>2. CASE Finish(c) /\ cpc[c] = "put_send"
    <3>1. PICK cut \in 1..(N+1) :
            c2s' = [c2s EXCEPT ![c] = [u \in Server |->
              IF u < cut /\ live[c][u] /\ serverEnd[c][u] = "open"
              THEN Append(c2s[c][u], [t |-> "done"]) ELSE c2s[c][u]]]
      BY <2>2 DEF Finish
    <3>2. c2s[c][s] = <<>> /\ ~UnderWay(c, s)
      BY <2>2, IdleBetween DEF UnderWay
    <3>3. c2s'[c][s] = c2s[c][s] \/ c2s'[c][s] = Append(<<>>, [t |-> "done"])
      BY <1>0, <3>1, <3>2 DEF Inv, TypeInv, TypeOK, NetType
    <3>4. c2s'[c][s] = c2s[c][s] \/ c2s'[c][s] = <<[t |-> "done"]>>
      BY <3>3
    <3> QED BY <1>1, <1>2, <1>3, <2>2, <3>2, <3>4, LeavesPut
  <2>3. CASE Kill(c) /\ ~UNCHANGED c2s
    <3>1. \/ c2s'[c][s] = c2s[c][s]
          \/ c2s[c][s] = <<Header(c), Rest>> /\ c2s'[c][s] = <<Header(c)>>
          \/ c2s[c][s] = <<Rest>> /\ c2s'[c][s] = <<>>
      BY <2>3, KillTakesRest
    <3> QED BY <1>1, <1>2, <1>3, <3>1, LeavesPut
  <2> QED BY <2>1, <2>2, <2>3 DEF PutRefused, PutSendDies, PutFails, Dies
<1>6. AtStart(c)' /\ AckedSoFar(c)' /\ StoredKnown(c)'
  BY <1>1, <1>2, <1>3, <1>4, EndsOk
<1> QED BY <1>5, <1>6 DEF PutOk

\* To show that nothing is under way look at the connections.
LEMMA StillIdle ==
  ASSUME Inv, NEW c \in Puts,
         \A s \in Server : /\ spc'[s][c] \in {"none", "recv", "ended"}
                           /\ s2c'[c][s] = <<>> /\ c2s'[c][s] = <<>>
  PROVE  InTurn(c)'
BY DEF InTurn, Idle, AtRest

LEMMA PutConnect ==
  ASSUME Inv, NEW c \in Puts, Connect(c)
  PROVE  PutOk(c)'
<1>0. c \in Client /\ cpc[c] = "connect" /\ ts[c] = 0 /\ srv[c] \in Server
      /\ arg[c] = 1 /\ pos[c] = 1 /\ result[c] = {}
  BY DEF Connect, Puts, Inv, PutsInv, PutOk, AtStart, TypeInv, LoopsInRange, LoopInRange
<1>1. InTurn(c)'
  <2>1. UNCHANGED <<c2s, s2c>>
        /\ (UNCHANGED spc \/ spc' = [spc EXCEPT ![srv[c]][c] = "recv"])
    BY DEF Connect, net
  <2>2. \A s \in Server : spc'[s][c] \in {spc[s][c], "recv"}
    <3>1. spc \in [Server -> [Client -> ThreadStates]]
      BY DEF Inv, TypeInv, TypeOK, ServerType
    <3> QED BY <1>0, <2>1, <3>1
  <2> QED BY <1>0, <2>1, <2>2, IdleBetween, StillIdle DEF AtRest
<1>2. AtStart(c)'
  BY <1>0 DEF Connect, AtStart, Inv, TypeInv, TypeOK, ClientType
<1>3. AckedSoFar(c)' /\ StoredKnown(c)'
  BY <1>0 DEF Connect, AckedSoFar, StoredKnown
<1> QED BY <1>1, <1>2, <1>3 DEF PutOk

LEMMA ArgIndex ==
  ASSUME NEW c \in Client, NEW i \in DOMAIN Job[c].files
  PROVE  i \in Nat /\ i >= 1 /\ i <= Len(Job[c].files) /\ Job[c].files[i] \in File
<1>1. Job[c].files \in Seq(File)
  BY DfsAssumption
<1> QED BY <1>1

LEMMA SizeOfFile ==
  ASSUME NEW c \in Client, NEW f \in File
  PROVE  LocalSize[c][f] \in Int
BY DfsAssumption

LEMMA PutStarts ==
  ASSUME Inv, NEW c \in Puts, PutStart(c)
  PROVE  PutOk(c)'
<1>0. c \in Client /\ cpc[c] = "dispatch" /\ srv[c] = 1 /\ arg[c] = 1 /\ pos[c] = 1
      /\ result[c] = {} /\ cpc' = [cpc EXCEPT ![c] = "put_send"]
      /\ UNCHANGED <<arg, srv, pos, result, c2s, s2c, spc>>
  BY DEF PutStart, Puts, Inv, PutsInv, PutOk, AtStart, net, server
<1>1. InTurn(c)'
  BY <1>0, IdleBetween, StillIdle DEF AtRest
<1>2. AtStart(c)'
  BY <1>0 DEF AtStart, Inv, TypeInv, TypeOK, ClientType
<1>3. AckedSoFar(c)'
  <2> SUFFICES ASSUME NEW i \in DOMAIN Job[c].files, NEW s \in Server, NEW w \in Which
               PROVE  ~Past(c, i, s, w)'
    BY DEF AckedSoFar
  <2>1. i \in Nat /\ i >= 1
    BY <1>0, ArgIndex
  <2>2. arg'[c] = 1 /\ srv'[c] = 1 /\ pos'[c] = 1
    BY <1>0
  <2> QED BY <2>1, <2>2 DEF Past, Server, Which
<1>4. StoredKnown(c)'
  BY <1>0 DEF StoredKnown
<1> QED BY <1>1, <1>2, <1>3, <1>4 DEF PutOk

\* The numbers of a put that is between two sends, or waits for an answer.
LEMMA AtArg ==
  ASSUME Inv, NEW c \in Puts, cpc[c] \in {"put_send", "put_ack"}, ~NoMoreArgs(c)
  PROVE  /\ c \in Client /\ arg[c] \in Nat /\ arg[c] >= 1 /\ arg[c] \in DOMAIN Job[c].files
         /\ srv[c] \in Server /\ pos[c] \in Which /\ ts[c] \in Stamp
         /\ F(c) \in File /\ LocalSize[c][F(c)] \in Int
<1>1. c \in Client
  BY DEF Puts
<1>2. /\ arg \in [Client -> Nat] /\ arg[c] >= 1
      /\ srv[c] \in Server /\ pos[c] \in Which /\ ts[c] \in Stamp
  BY <1>1 DEF Inv, TypeInv, TypeOK, ClientType, LoopsInRange, LoopInRange
<1>3. F(c) \in File
  BY <1>1, <1>2, FileOfArg
<1>4. Job[c].files \in Seq(File)
  BY <1>1, DfsAssumption
<1>5. arg[c] \in DOMAIN Job[c].files
  BY <1>1, <1>2, <1>4 DEF NoMoreArgs
<1> QED BY <1>1, <1>2, <1>3, <1>5, SizeOfFile

LEMMA PutSkips ==
  ASSUME Inv, NEW c \in Puts, PutSkip(c)
  PROVE  PutOk(c)'
<1>0. /\ cpc[c] = "put_send" /\ ~NoMoreArgs(c) /\ LocalSize[c][F(c)] < 0
      /\ arg' = [arg EXCEPT ![c] = arg[c] + 1]
      /\ UNCHANGED <<cpc, srv, pos, ts, c2s, s2c, spc, disk, eofAck>>
  BY DEF PutSkip, net, server, hist
<1>a. /\ c \in Client /\ arg[c] \in Nat /\ LocalSize[c][F(c)] \in Int
      /\ arg[c] \in DOMAIN Job[c].files
  BY <1>0, AtArg
<1>b. arg'[c] = arg[c] + 1
  BY <1>0, <1>a DEF Inv, TypeInv, TypeOK, ClientType
<1>c. result'[c] = result[c] \cup
        {[arg |-> arg[c], file |-> F(c), status |-> "no file", parts |-> <<>>]}
  BY <1>a DEF PutSkip, Report, Inv, TypeInv, TypeOK, MemoryType
<1>1. srv[c] = 1 /\ pos[c] = 1
  BY <1>0, <1>a DEF Inv, PutsInv, PutOk, AtStart
<1>2. InTurn(c)'
  BY <1>0, IdleBetween, StillIdle DEF AtRest
<1>3. AtStart(c)'
  BY <1>0, <1>1 DEF AtStart
<1>4. AckedSoFar(c)'
  <2> SUFFICES ASSUME ts[c] # 0, ~eofAck[c], NEW i \in DOMAIN Job[c].files, NEW s \in Server,
                      NEW w \in Which, Past(c, i, s, w)', LocalSize[c][Job[c].files[i]] >= 0
               PROVE  disk[s][PathOf(c, i, s, w)] = WholeBy(c)
    BY <1>0 DEF AckedSoFar, PathOf, WholeBy
  <2>1. srv'[c] = 1 /\ pos'[c] = 1
    BY <1>0, <1>1
  <2>2. i < arg[c] + 1
    BY <1>b, <2>1 DEF Past, Server, Which
  <2>3. i # arg[c]
    BY <1>0, <1>a DEF F
  <2>4. i < arg[c]
    BY <1>a, <2>2, <2>3, ArgIndex
  <2>5. Past(c, i, s, w)
    BY <2>4 DEF Past
  <2> QED BY <2>5 DEF Inv, PutsInv, PutOk, AckedSoFar
<1>5. StoredKnown(c)'
  <2> SUFFICES ASSUME NEW r \in result'[c], r.status = "stored"
               PROVE  /\ ts[c] # 0
                      /\ \E i \in DOMAIN Job[c].files :
                           i < arg'[c] /\ r.file = Job[c].files[i] /\ LocalSize[c][r.file] >= 0
    BY <1>0 DEF StoredKnown
  <2>1. r \in result[c]
    <3> DEFINE new == [arg |-> arg[c], file |-> F(c), status |-> "no file", parts |-> <<>>]
    <3>1. new.status = "no file"
      OBVIOUS
    <3>2. r \in result[c] \/ r = new
      BY <1>c
    <3> HIDE DEF new
    <3> QED BY <3>1, <3>2
  <2>2. ts[c] # 0
    BY <2>1 DEF Inv, PutsInv, PutOk, StoredKnown
  <2>3. PICK i \in DOMAIN Job[c].files :
          i < arg[c] /\ r.file = Job[c].files[i] /\ LocalSize[c][r.file] >= 0
    BY <2>1 DEF Inv, PutsInv, PutOk, StoredKnown
  <2>4. i < arg'[c]
    BY <1>a, <1>b, <2>3, ArgIndex
  <2> QED BY <2>2, <2>3, <2>4
<1> QED BY <1>2, <1>3, <1>4, <1>5 DEF PutOk

LEMMA PutSends ==
  ASSUME Inv, NEW c \in Puts, PutSend(c)
  PROVE  PutOk(c)'
<1>0. c \in Client /\ cpc[c] = "put_send" /\ ~NoMoreArgs(c) /\ LocalSize[c][F(c)] >= 0
      /\ cpc' = [cpc EXCEPT ![c] = "put_ack"] /\ ClientSends(c, srv[c], PutUnits(c, PutPath(c)))
      /\ UNCHANGED <<arg, srv, pos, ts, result, s2c, spc, cur, disk, eofAck>>
  BY DEF PutSend, Puts, memory, server, hist
<1>1. /\ F(c)' = F(c) /\ PutPath(c)' = PutPath(c) /\ NoMoreArgs(c)' = NoMoreArgs(c)
      /\ Header(c)' = Header(c) /\ Size(c, PutPath(c))' = Size(c, PutPath(c))
      /\ cpc'[c] = "put_ack"
  <2>1. ProgressKept(c) \/ cpc'[c] = "put_ack"
    BY <1>0 DEF Inv, TypeInv, TypeOK, ClientType
  <2>2. F(c)' = F(c) /\ NoMoreArgs(c)' = NoMoreArgs(c)
    BY <1>0 DEF F, NoMoreArgs
  <2>3. PutPath(c)' = PutPath(c)
    BY <1>0, <2>2 DEF PutPath
  <2> QED BY <1>0, <2>2, <2>3 DEF Header, Size, Inv, TypeInv, TypeOK, ClientType
<1>2. srv[c] \in Server /\ pos[c] \in Which /\ ts[c] \in Stamp
  BY <1>0 DEF Inv, TypeInv, LoopsInRange, LoopInRange
<1>3. InTurn(c)'
  <2> SUFFICES ASSUME NEW s \in Server PROVE (Idle(c, s) \/ UnderWay(c, s))'
    BY DEF InTurn
  <2>1. AtRest(c, s)' /\ s2c'[c][s] = <<>> /\ c2s[c][s] = <<>>
    BY <1>0, IdleBetween DEF AtRest
  <2>2. CASE c2s'[c][s] = c2s[c][s]
    BY <2>1, <2>2 DEF Idle
  <2>3. CASE c2s'[c][s] # c2s[c][s]
    <3>1. s = srv[c] /\ c2s'[c][s] = <<>> \o PutUnits(c, PutPath(c))
      BY <1>0, <1>2, <2>1, <2>3 DEF ClientSends, Inv, TypeInv, TypeOK, NetType
    <3>2. \/ c2s'[c][s] = <<Header(c)>>
          \/ c2s'[c][s] = <<Header(c), Rest>> /\ Size(c, PutPath(c)) > 0
      BY <3>1 DEF PutUnits, Header, Rest
    <3>3. Sent(c, s)'
      BY <1>1, <2>1, <3>2 DEF Sent, Rest
    <3> QED BY <1>0, <1>1, <1>2, <3>1, <3>3 DEF UnderWay
  <2> QED BY <2>2, <2>3
<1>4. AtStart(c)'
  BY <1>0, <1>1 DEF AtStart
<1>5. AckedSoFar(c)' /\ StoredKnown(c)'
  BY <1>0 DEF AckedSoFar, StoredKnown, Past, PathOf, WholeBy, Inv, PutsInv, PutOk
<1> QED BY <1>3, <1>4, <1>5 DEF PutOk

\* After an answer: the chunk is behind it, and only that one more.
LEMMA Advances ==
  ASSUME Inv, NEW c \in Puts, cpc[c] = "put_ack", PutAdvance(c)
  PROVE  /\ cpc'[c] = "put_send" /\ arg'[c] \in {arg[c], arg[c] + 1}
         /\ \/ arg'[c] = arg[c] /\ srv'[c] = srv[c] /\ pos[c] = 1 /\ pos'[c] = 2
            \/ arg'[c] = arg[c] /\ srv'[c] = srv[c] + 1 /\ pos[c] = 2 /\ pos'[c] = 1
            \/ /\ arg'[c] = arg[c] + 1 /\ srv'[c] = 1 /\ pos'[c] = 1
               /\ srv[c] = N /\ pos[c] = 2
         /\ \/ result'[c] = result[c]
            \/ /\ arg'[c] = arg[c] + 1
               /\ \A r \in result'[c] : r \in result[c] \/ r.file = F(c)
<1>0. /\ c \in Client /\ arg[c] \in Nat /\ srv[c] \in 1..N /\ pos[c] \in {1, 2}
  BY AtArg DEF Server, Which, Inv, TypeInv, LoopsInRange, LoopInRange, Puts
<1>1. /\ cpc \in [Client -> ClientStates] /\ arg \in [Client -> Nat]
      /\ srv \in [Client -> 1..(N+1)] /\ pos \in [Client -> Chunk]
      /\ result \in [Client -> SUBSET Outcome]
  BY DEF Inv, TypeInv, TypeOK, ClientType, MemoryType
<1>2. cpc'[c] = "put_send"
  BY <1>0, <1>1 DEF PutAdvance
<1>3. CASE pos[c] = 1
  <2>1. pos' = [pos EXCEPT ![c] = 2] /\ UNCHANGED <<arg, srv, result>>
    BY <1>3 DEF PutAdvance
  <2> QED BY <1>0, <1>1, <1>2, <1>3, <2>1
<1>4. CASE pos[c] = 2 /\ srv[c] < N
  <2>1. /\ pos' = [pos EXCEPT ![c] = 1] /\ srv' = [srv EXCEPT ![c] = srv[c] + 1]
        /\ UNCHANGED <<arg, result>>
    BY <1>4 DEF PutAdvance
  <2> QED BY <1>0, <1>1, <1>2, <1>4, <2>1
<1>5. CASE pos[c] = 2 /\ srv[c] = N
  <2>1. /\ pos' = [pos EXCEPT ![c] = 1] /\ srv' = [srv EXCEPT ![c] = 1]
        /\ arg' = [arg EXCEPT ![c] = arg[c] + 1] /\ Report(c, "stored")
    BY <1>5, NAssumption DEF PutAdvance
  <2>2. pos'[c] = 1 /\ srv'[c] = 1 /\ arg'[c] = arg[c] + 1
    BY <1>0, <1>1, <2>1
  <2> DEFINE new == [arg |-> arg[c], file |-> F(c), status |-> "stored", parts |-> <<>>]
  <2>3. result'[c] = result[c] \cup {new}
    BY <1>0, <1>1, <2>1 DEF Report
  <2>4. new.file = F(c)
    OBVIOUS
  <2>5. \A r \in result'[c] : r \in result[c] \/ r = new
    BY <2>3
  <2> HIDE DEF new
  <2>6. \A r \in result'[c] : r \in result[c] \/ r.file = F(c)
    BY <2>4, <2>5
  <2> QED BY <1>0, <1>2, <1>5, <2>2, <2>6
<1> QED BY <1>0, <1>3, <1>4, <1>5, NAssumption

LEMMA AdvancesPast ==
  ASSUME Inv, NEW c \in Puts, cpc[c] = "put_ack", PutAdvance(c),
         NEW i \in DOMAIN Job[c].files, NEW s \in Server, NEW w \in Which, Past(c, i, s, w)'
  PROVE  Past(c, i, s, w) \/ (i = arg[c] /\ s = srv[c] /\ w = pos[c])
<1>0. /\ c \in Client /\ arg[c] \in Nat /\ srv[c] \in 1..N /\ pos[c] \in {1, 2}
  BY AtArg DEF Server, Which, Inv, TypeInv, LoopsInRange, LoopInRange, Puts
<1>1. i \in Nat /\ s \in 1..N /\ w \in {1, 2}
  BY <1>0, ArgIndex DEF Server, Which
<1>2. \/ i < arg'[c]
      \/ i = arg'[c] /\ s < srv'[c]
      \/ i = arg'[c] /\ s = srv'[c] /\ w < pos'[c]
  BY DEF Past
<1>3. \/ arg'[c] = arg[c] /\ srv'[c] = srv[c] /\ pos[c] = 1 /\ pos'[c] = 2
      \/ arg'[c] = arg[c] /\ srv'[c] = srv[c] + 1 /\ pos[c] = 2 /\ pos'[c] = 1
      \/ arg'[c] = arg[c] + 1 /\ srv'[c] = 1 /\ pos'[c] = 1 /\ srv[c] = N /\ pos[c] = 2
  BY Advances
<1> QED BY <1>0, <1>1, <1>2, <1>3, NAssumption DEF Past

LEMMA AdvancesOk ==
  ASSUME Inv, NEW c \in Puts, cpc[c] = "put_ack", PutAdvance(c), ts'[c] = ts[c]
  PROVE  AtStart(c)' /\ StoredKnown(c)'
<1>0. ~NoMoreArgs(c) /\ LocalSize[c][F(c)] >= 0
  BY DEF Inv, PutsInv, PutOk, AtStart
<1>1. /\ c \in Client /\ arg[c] \in Nat /\ arg[c] \in DOMAIN Job[c].files /\ ts[c] \in Stamp
      /\ pos[c] \in Which
  BY <1>0, AtArg
<1>2. cpc'[c] = "put_send" /\ arg'[c] \in {arg[c], arg[c] + 1}
  BY Advances
<1>3. AtStart(c)'
  <2>1. CASE arg'[c] = arg[c]
    <3>1. F(c)' = F(c) /\ NoMoreArgs(c)' = NoMoreArgs(c)
      BY <2>1 DEF F, NoMoreArgs
    <3> QED BY <1>0, <1>2, <3>1 DEF AtStart
  <2>2. CASE arg'[c] # arg[c]
    <3>1. srv'[c] = 1 /\ pos'[c] = 1
      BY <2>2, Advances
    <3> QED BY <1>2, <3>1 DEF AtStart
  <2> QED BY <2>1, <2>2
<1>4. StoredKnown(c)'
  <2> SUFFICES ASSUME NEW r \in result'[c], r.status = "stored"
               PROVE  /\ ts[c] # 0
                      /\ \E i \in DOMAIN Job[c].files :
                           i < arg'[c] /\ r.file = Job[c].files[i] /\ LocalSize[c][r.file] >= 0
    BY DEF StoredKnown
  <2>1. ts[c] # 0
    BY <1>1 DEF Stamp
  <2>2. CASE r \in result[c]
    <3>1. PICK i \in DOMAIN Job[c].files :
            i < arg[c] /\ r.file = Job[c].files[i] /\ LocalSize[c][r.file] >= 0
      BY <2>2 DEF Inv, PutsInv, PutOk, StoredKnown
    <3>2. i < arg'[c]
      BY <1>1, <1>2, <3>1, ArgIndex
    <3> QED BY <2>1, <3>1, <3>2
  <2>3. CASE r \notin result[c]
    <3>1. arg'[c] = arg[c] + 1 /\ r.file = F(c)
      BY <2>3, Advances
    <3>2. arg[c] < arg'[c] /\ r.file = Job[c].files[arg[c]]
      BY <1>1, <3>1 DEF F
    <3> QED BY <1>0, <1>1, <2>1, <3>1, <3>2
  <2> QED BY <2>2, <2>3
<1> QED BY <1>3, <1>4

LEMMA PutIsAcked ==
  ASSUME Inv, NEW c \in Puts, PutAcked(c)
  PROVE  PutOk(c)'
<1> DEFINE u == srv[c]
<1>0. /\ cpc[c] = "put_ack" /\ s2c[c][u] # <<>> /\ PutAdvance(c)
      /\ s2c' = [s2c EXCEPT ![c][u] = Tail(@)]
      /\ UNCHANGED <<ts, c2s, spc, disk, eofAck>>
  BY DEF PutAcked, Arrived, Receive, server, hist
<1>1. ~NoMoreArgs(c)
  BY <1>0 DEF Inv, PutsInv, PutOk, AtStart
<1>2. /\ c \in Client /\ arg[c] \in DOMAIN Job[c].files /\ u \in Server /\ pos[c] \in Which
  BY <1>0, <1>1, AtArg
<1>3. Acked(c, u)
  BY <1>0, <1>2 DEF Inv, PutsInv, PutOk, InTurn, Idle, UnderWay, Sent, Writing, Acking
<1>4. InTurn(c)'
  <2>0. s2c \in [Client -> [Server -> Seq(S2C)]]
    BY DEF Inv, TypeInv, TypeOK, NetType
  <2>1. s2c'[c][u] = Tail(<<[t |-> "ack"]>>)
    BY <1>0, <1>2, <1>3, <2>0 DEF Acked
  <2>2. s2c'[c][u] = <<>> /\ c2s'[c][u] = <<>> /\ spc'[u][c] \in {"none", "recv", "ended"}
    BY <1>0, <1>3, <2>1 DEF Acked, AtRest
  <2>3. \A s \in Server : s # u => s2c'[c][s] = s2c[c][s]
    BY <1>0, <1>2, <2>0
  <2> QED BY <1>0, <2>2, <2>3, IdleElsewhere, StillIdle DEF AtRest
<1>5. AckedSoFar(c)'
  <2> SUFFICES ASSUME ts[c] # 0, ~eofAck[c], NEW i \in DOMAIN Job[c].files, NEW s \in Server,
                      NEW w \in Which, Past(c, i, s, w)', LocalSize[c][Job[c].files[i]] >= 0
               PROVE  disk[s][PathOf(c, i, s, w)] = WholeBy(c)
    BY <1>0 DEF AckedSoFar, PathOf, WholeBy
  <2>1. CASE Past(c, i, s, w)
    BY <2>1 DEF Inv, PutsInv, PutOk, AckedSoFar
  <2>2. CASE i = arg[c] /\ s = u /\ w = pos[c]
    <3>1. PathOf(c, i, s, w) = PutPath(c)
      BY <2>2 DEF PathOf, PutPath, F
    <3> QED BY <1>3, <2>2, <3>1 DEF Acked
  <2> QED BY <1>0, <2>1, <2>2, AdvancesPast
<1>6. AtStart(c)' /\ StoredKnown(c)'
  BY <1>0, AdvancesOk
<1> QED BY <1>4, <1>5, <1>6 DEF PutOk

LEMMA PutMeetsEof ==
  ASSUME Inv, NEW c \in Puts, PutEof(c)
  PROVE  PutOk(c)'
<1> DEFINE u == srv[c]
<1>0. /\ cpc[c] = "put_ack" /\ s2c[c][u] = <<>> /\ serverEnd[c][u] # "open" /\ PutAdvance(c)
      /\ eofAck' = [eofAck EXCEPT ![c] = TRUE]
      /\ UNCHANGED <<ts, c2s, s2c, spc>>
  BY DEF PutEof, ReadsEof, Arrived, server, net
<1>1. ~NoMoreArgs(c)
  BY <1>0 DEF Inv, PutsInv, PutOk, AtStart
<1>2. c \in Client /\ u \in Server
  BY <1>0, <1>1, AtArg
<1>3. spc[u][c] = "none" /\ c2s[c][u] = <<>>
  BY <1>0, <1>2 DEF Inv, EndsAreFinal, EndIsFinal
<1>4. InTurn(c)'
  BY <1>0, <1>3, IdleElsewhere, StillIdle DEF AtRest
<1>5. AckedSoFar(c)'
  BY <1>0, <1>2 DEF AckedSoFar, Inv, TypeInv, TypeOK, HistType
<1>6. AtStart(c)' /\ StoredKnown(c)'
  BY <1>0, AdvancesOk
<1> QED BY <1>4, <1>5, <1>6 DEF PutOk

LEMMA PutsOfOne ==
  ASSUME Inv, NEW c \in Puts, ClientStep(c) \/ Kill(c)
  PROVE  PutOk(c)'
<1>1. PutStep(c)
  BY StepsOfPut DEF Inv
<1> QED BY <1>1, PutConnect, PutStarts, PutSkips, PutSends, PutIsAcked, PutMeetsEof, PutEnds
    DEF PutStep

(* --------------------- the steps of everybody else ---------------------- *)

\* Nobody but its own thread writes the chunk a put is at.
LEMMA VersionStays ==
  ASSUME Inv, DiskChange, NEW c \in Puts, NEW s \in Server, spc[s][c] = "put_write",
         disk'[s][PutPath(c)] = disk[s][PutPath(c)]
  PROVE  disk'[s][PutPath(c)].ver = c
<1>1. Writing(c, s)
  BY WriterIsPut DEF Puts
<1> QED BY <1>1 DEF Writing

\* A step that leaves the directories alone, and of c everything.
LEMMA PutAside ==
  ASSUME Inv, NoFileTwice, UNCHANGED disk, NEW c \in Puts, ProgressKept(c), MemoryKept(c),
         \A s \in Server : /\ spc'[s][c] = spc[s][c] /\ cur'[s][c] = cur[s][c]
                           /\ c2s'[c][s] = c2s[c][s] /\ s2c'[c][s] = s2c[c][s]
  PROVE  PutOk(c)'
<1>1. DiskChange
  BY DEF DiskChange
<1>2. \A s \in Server : spc[s][c] = "put_write" => disk'[s][PutPath(c)].ver = c
  BY <1>1, VersionStays
<1> QED BY <1>1, <1>2, PutFrame

LEMMA PutsClients ==
  ASSUME Inv, NoFileTwice, NEW c \in Client, ClientStep(c) \/ Kill(c)
  PROVE  PutsInv'
<1> SUFFICES ASSUME NEW d \in Puts PROVE PutOk(d)'
  BY DEF PutsInv, Puts
<1>1. CASE d = c
  BY <1>1, PutsOfOne
<1>2. CASE d # c
  <2>1. /\ ClientKept(d) /\ \A s \in Server : spc'[s][d] = spc[s][d]
    BY <1>2, OthersKept DEF Inv, Puts
  <2>2. UNCHANGED <<cur, disk>>
    BY ClientsLeaveDisk
  <2> QED BY <2>1, <2>2, PutAside DEF ClientKept, NetKept
<1> QED BY <1>1, <1>2

LEMMA ThreadsOfPut ==
  ASSUME RolesKept, NEW s \in Server, NEW c \in Puts, ThreadStep(s, c), ~ServerDies(s)
  PROVE  RecvPut(s, c) \/ PutOpen(s, c) \/ PutClose(s, c) \/ PutAck(s, c) \/ RecvDone(s, c)
<1>1. Job[c].cmd = "put" /\ c \in Client /\ spc[s][c] \in ThreadsOf(c)
  BY DEF Puts, RolesKept
<1>2. ~Next_(s, c, "get") /\ ~Next_(s, c, "list")
  BY <1>1, WordOfRole
<1>3. spc[s][c] \notin {"get_lock", "get_ready"}
  BY <1>1 DEF ThreadsOf
<1> QED BY <1>2, <1>3
    DEF ThreadStep, RecvGet, RecvGetNotFound, GetOpen, GetSend, RecvList, RecvError, SendSigpipe

LEMMA ThreadsChangeDisk ==
  ASSUME TypeInv, NEW s \in Server, NEW c \in Client, ThreadStep(s, c), ~ServerDies(s)
  PROVE  \A u \in Server, p \in Path : disk'[u][p] # disk[u][p] =>
           /\ u = s /\ spc[s][c] \in {"put_lock", "put_write"} /\ cur[s][c] = p
<1>1. CASE PutOpen(s, c) \/ PutClose(s, c)
  <2>1. PICK d : disk' = [disk EXCEPT ![s][cur[s][c]] = d]
    BY <1>1 DEF PutOpen, PutClose
  <2>2. spc[s][c] \in {"put_lock", "put_write"}
    BY <1>1 DEF PutOpen, PutClose
  <2> QED BY <2>1, <2>2 DEF TypeInv, TypeOK, ServerType
<1>2. CASE UNCHANGED disk
  BY <1>2
<1> QED BY <1>1, <1>2 DEF ThreadStep, RecvPut, PutAck, RecvGet, RecvGetNotFound, GetOpen,
    GetSend, RecvList, RecvDone, RecvError, SendSigpipe, server

LEMMA Tails ==
  ASSUME NEW x, NEW y
  PROVE  Tail(<<x>>) = <<>> /\ Tail(<<x, y>>) = <<y>>
OBVIOUS

LEMMA TakesOne ==
  ASSUME NetType, NEW s \in Server, NEW c \in Client, Takes(s, c)
  PROVE  c2s'[c][s] = Tail(c2s[c][s])
BY DEF NetType, Takes

LEMMA GoesTo ==
  ASSUME ServerType, NEW s \in Server, NEW c \in Client, NEW l, Goto(s, c, l)
  PROVE  spc'[s][c] = l
BY DEF ServerType, Goto

\* The connection at which a thread of a put takes its step.
LEMMA PutServed ==
  ASSUME Inv, DiskChange, NEW s \in Server, NEW c \in Puts, ThreadStep(s, c),
         ~ServerDies(s), ProgressKept(c), ts'[c] = ts[c]
  PROVE  (Idle(c, s) \/ UnderWay(c, s))'
<1>0. /\ c \in Client /\ (Idle(c, s) \/ UnderWay(c, s))
      /\ spc \in [Server -> [Client -> ThreadStates]]
      /\ cur \in [Server -> [Client -> Path \cup {NoPath}]]
      /\ disk \in [Server -> [Path -> Present \cup {Absent}]]
      /\ c2s \in [Client -> [Server -> Seq(C2S)]] /\ s2c \in [Client -> [Server -> Seq(S2C)]]
  BY DEF Inv, PutsInv, PutOk, InTurn, Puts, TypeInv, TypeOK, ServerType, NetType
<1>t. NetType /\ ServerType
  BY DEF Inv, TypeInv, TypeOK
<1>p. /\ PutPath(c)' = PutPath(c) /\ NoMoreArgs(c)' = NoMoreArgs(c)
      /\ Header(c)' = Header(c) /\ Size(c, PutPath(c))' = Size(c, PutPath(c))
  BY PutPathKept
<1> DEFINE here == /\ cpc[c] \in {"put_ack", "exited", "killed"} /\ s = srv[c]
                   /\ ~NoMoreArgs(c) /\ pos[c] \in Which /\ ts[c] \in Stamp
<1>h. UnderWay(c, s) => here'
  BY <1>p DEF UnderWay, ProgressKept
<1>1. CASE RecvPut(s, c)
  <2>1. /\ c2s[c][s] # <<>> /\ Head(c2s[c][s]).t = "put" /\ spc[s][c] = "recv"
        /\ c2s'[c][s] = Tail(c2s[c][s]) /\ cur'[s][c] = Head(c2s[c][s]).path
        /\ spc'[s][c] = "put_lock" /\ s2c'[c][s] = s2c[c][s]
    BY <1>0, <1>1 DEF RecvPut, Next_, Takes, Goto
  <2>2. UnderWay(c, s) /\ Sent(c, s)
    BY <1>0, <2>1 DEF Idle, UnderWay, Writing, Acking, Acked
  <2>3. cur'[s][c] = PutPath(c)
    BY <2>1, <2>2 DEF Sent, Header
  <2>4. c2s'[c][s] = <<>> \/ (c2s'[c][s] = <<Rest>> /\ Size(c, PutPath(c)) > 0)
    BY <2>1, <2>2, Tails DEF Sent
  <2>5. Writing(c, s)'
    BY <1>p, <2>1, <2>2, <2>3, <2>4 DEF Sent, Writing, Rest
  <2> QED BY <1>h, <2>2, <2>5 DEF UnderWay
<1>2. CASE PutOpen(s, c)
  <2>1. /\ spc[s][c] = "put_lock" /\ spc'[s][c] = "put_write" /\ cur'[s][c] = cur[s][c]
        /\ c2s'[c][s] = c2s[c][s] /\ s2c'[c][s] = s2c[c][s]
        /\ disk' = [disk EXCEPT ![s][cur[s][c]] = [ver |-> c, st |-> "part"]]
    BY <1>0, <1>2 DEF PutOpen, Goto, net
  <2>2. UnderWay(c, s) /\ Writing(c, s)
    BY <1>0, <2>1, WriterIsPut
  <2>3. cur[s][c] \in Path
    BY <1>0, <2>1 DEF Inv, TypeInv, PathsInUse
  <2>4. disk'[s][PutPath(c)].ver = c
    BY <1>0, <2>1, <2>2, <2>3 DEF Writing
  <2>5. Writing(c, s)'
    BY <1>p, <2>1, <2>2, <2>4 DEF Writing, Rest
  <2> QED BY <1>h, <2>2, <2>5 DEF UnderWay
<1>3. CASE PutClose(s, c)
  <2>1. /\ spc[s][c] = "put_write" /\ spc'[s][c] = "put_ack" /\ s2c'[c][s] = s2c[c][s]
        /\ disk' = [disk EXCEPT ![s][cur[s][c]] =
                      [ver |-> disk[s][cur[s][c]].ver, st |-> "whole"]]
        /\ IF Size(c, cur[s][c]) > 0 THEN c2s'[c][s] = Tail(c2s[c][s])
                                     ELSE c2s'[c][s] = c2s[c][s]
    BY <1>0, <1>t, <1>3, TakesOne, GoesTo DEF PutClose
  <2>2. UnderWay(c, s) /\ Writing(c, s)
    BY <1>0, <2>1, WriterIsPut
  <2>3. cur[s][c] \in Path /\ cur[s][c] = PutPath(c)
    BY <1>0, <2>1, <2>2 DEF Inv, TypeInv, PathsInUse, Writing
  <2>4. disk'[s][PutPath(c)] = WholeBy(c)
    BY <1>0, <2>1, <2>2, <2>3 DEF Writing, WholeBy
  <2>5. c2s'[c][s] = <<>>
    <3>1. CASE Size(c, PutPath(c)) > 0
      <4>1. c2s[c][s] # <<>>
        BY <1>3, <2>3, <3>1 DEF PutClose, Next_
      <4> QED BY <2>1, <2>2, <2>3, <3>1, <4>1, Tails DEF Writing
    <3>2. CASE ~(Size(c, PutPath(c)) > 0)
      BY <2>1, <2>2, <2>3, <3>2 DEF Writing
    <3> QED BY <3>1, <3>2
  <2>6. Acking(c, s)'
    BY <1>p, <2>1, <2>2, <2>4, <2>5 DEF Acking, Writing, WholeBy
  <2> QED BY <1>h, <2>2, <2>6 DEF UnderWay
<1>4. CASE PutAck(s, c)
  <2>1. /\ spc[s][c] = "put_ack" /\ spc'[s][c] = "recv" /\ c2s'[c][s] = c2s[c][s]
        /\ disk' = disk
        /\ s2c'[c][s] \in {s2c[c][s], s2c[c][s] \o <<[t |-> "ack"]>>}
    BY <1>0, <1>4 DEF PutAck, Goto, Reply
  <2>2. UnderWay(c, s) /\ Acking(c, s)
    BY <1>0, <2>1 DEF Idle, AtRest, UnderWay, Sent, Writing, Acked
  <2>3. s2c'[c][s] = <<>> \/ s2c'[c][s] = <<[t |-> "ack"]>>
    BY <2>1, <2>2 DEF Acking
  <2>4. CASE s2c'[c][s] = <<>>
    BY <2>1, <2>2, <2>4 DEF Acking, Idle, AtRest
  <2>5. CASE s2c'[c][s] = <<[t |-> "ack"]>>
    <3>1. Acked(c, s)'
      BY <1>p, <2>1, <2>2, <2>5 DEF Acked, Acking, AtRest, WholeBy
    <3> QED BY <1>h, <2>2, <3>1 DEF UnderWay
  <2> QED BY <2>3, <2>4, <2>5
<1>5. CASE RecvDone(s, c)
  <2>1. /\ spc[s][c] = "recv" /\ spc'[s][c] = "ended" /\ disk' = disk
        /\ s2c'[c][s] = s2c[c][s]
        /\ \/ /\ c2s[c][s] # <<>> /\ Head(c2s[c][s]).t = "done"
              /\ c2s'[c][s] = Tail(c2s[c][s])
           \/ c2s[c][s] = <<>> /\ c2s'[c][s] = <<>>
    BY <1>0, <1>t, <1>5, TakesOne, GoesTo DEF RecvDone, Next_
  <2>2. CASE Idle(c, s)
    <3>1. c2s'[c][s] = <<>>
      BY <2>1, <2>2, Tails DEF Idle
    <3> QED BY <2>1, <2>2, <3>1 DEF Idle, AtRest
  <2>3. CASE UnderWay(c, s)
    <3>1. Acked(c, s)
      BY <2>1, <2>3 DEF UnderWay, Sent, Header, Writing, Acking
    <3>2. Acked(c, s)'
      BY <1>p, <2>1, <3>1 DEF Acked, AtRest, WholeBy
    <3> QED BY <1>h, <2>3, <3>2 DEF UnderWay
  <2> QED BY <1>0, <2>2, <2>3
<1> QED BY <1>1, <1>2, <1>3, <1>4, <1>5, ThreadsOfPut DEF Inv

LEMMA PutsThreads ==
  ASSUME Inv, NoFileTwice, NEW s \in Server, NEW c \in Client, ThreadStep(s, c), ~ServerDies(s)
  PROVE  PutsInv'
<1> SUFFICES ASSUME NEW d \in Puts PROVE PutOk(d)'
  BY DEF PutsInv, Puts
<1>0. d \in Client
  BY DEF Puts
<1>1. /\ UNCHANGED <<progress, memory, env, hist>>
      /\ \A u \in Server, e \in Client : u # s \/ e # c =>
           /\ spc'[u][e] = spc[u][e] /\ cur'[u][e] = cur[u][e]
           /\ c2s'[e][u] = c2s[e][u] /\ s2c'[e][u] = s2c[e][u]
  BY ThreadsLeaveOthers DEF Inv
<1>2. ProgressKept(d) /\ MemoryKept(d)
  BY <1>1 DEF ProgressKept, MemoryKept, progress, memory, hist
<1>3. ts'[d] = ts[d] /\ result'[d] = result[d] /\ eofAck'[d] = eofAck[d] /\ arg'[d] = arg[d]
  BY <1>2 DEF MemoryKept, ProgressKept
<1>4. \A u \in Server, p \in Path : disk'[u][p] # disk[u][p] =>
        u = s /\ spc[s][c] \in {"put_lock", "put_write"} /\ cur[s][c] = p
  BY ThreadsChangeDisk DEF Inv
<1>5. DiskChange
  BY <1>4 DEF DiskChange
<1>6. ASSUME NEW u \in Server, u # s \/ d # c, spc[u][d] = "put_write"
      PROVE  disk'[u][PutPath(d)].ver = d
  <2>1. UnderWay(d, u) /\ cur[u][d] = PutPath(d)
    BY <1>0, <1>6, WriterIsPut
  <2>2. PutPath(d) \in Path
    BY <1>0, <1>6, <2>1 DEF Inv, TypeInv, PathsInUse
  <2>3. disk'[u][PutPath(d)] = disk[u][PutPath(d)]
    <3> SUFFICES ASSUME disk'[u][PutPath(d)] # disk[u][PutPath(d)] PROVE FALSE
      OBVIOUS
    <3>1. u = s /\ spc[s][c] \in {"put_lock", "put_write"} /\ cur[s][c] = PutPath(d)
      BY <1>4, <2>2
    <3>2. c \in Puts /\ UnderWay(c, s) /\ cur[s][c] = PutPath(c)
      BY <3>1, WriterIsPut
    <3>3. ts[c] = ts[d] /\ ts[d] # 0
      BY <2>1, <3>1, <3>2 DEF PutPath, UnderWay, Stamp
    <3> QED BY <1>0, <1>6, <3>1, <3>3 DEF Inv, StampsApart
  <2> QED BY <1>5, <1>6, <2>3, VersionStays
<1>7. InTurn(d)'
  <2> SUFFICES ASSUME NEW u \in Server PROVE (Idle(d, u) \/ UnderWay(d, u))'
    BY DEF InTurn
  <2>1. CASE u # s \/ d # c
    BY <1>0, <1>1, <1>2, <1>3, <1>5, <1>6, <2>1, ConnectionKept
  <2>2. CASE u = s /\ d = c
    BY <1>2, <1>3, <1>5, <2>2, PutServed
  <2> QED BY <2>1, <2>2
<1>8. AtStart(d)' /\ AckedSoFar(d)' /\ StoredKnown(d)'
  BY <1>2, <1>3, <1>5, StartKept, AckedKept, StoredKept
<1> QED BY <1>7, <1>8 DEF PutOk

\* Of a server that ends only the directory is left, and in it what was
\* acknowledged.
LEMMA PutsDeath ==
  ASSUME Inv, NoFileTwice, NEW s \in Server, ServerDies(s)
  PROVE  PutsInv'
<1> SUFFICES ASSUME NEW d \in Puts PROVE PutOk(d)'
  BY DEF PutsInv, Puts
<1>0. d \in Client
  BY DEF Puts
<1>1. UNCHANGED <<progress, memory, s2c, eofAck, base>>
  BY DEF ServerDies
<1>2. ProgressKept(d) /\ MemoryKept(d)
  BY <1>1 DEF ProgressKept, MemoryKept, progress, memory
<1>3. ts'[d] = ts[d] /\ result'[d] = result[d] /\ eofAck'[d] = eofAck[d] /\ arg'[d] = arg[d]
  BY <1>2 DEF MemoryKept, ProgressKept
<1>4. /\ \A u \in Server \ {s} : /\ spc'[u][d] = spc[u][d] /\ cur'[u][d] = cur[u][d]
                                 /\ c2s'[d][u] = c2s[d][u] /\ disk'[u] = disk[u]
      /\ spc'[s][d] = "none" /\ c2s'[d][s] = <<>>
  BY <1>0 DEF ServerDies, Inv, TypeInv, TypeOK, NetType, ServerType
<1>5. DiskChange
  <2>1. PICK torn \in {"empty", "part"} : disk' = [disk EXCEPT ![s] = [p \in Path |->
          IF \E c \in Client : spc[s][c] = "put_write" /\ cur[s][c] = p
          THEN [ver |-> disk[s][p].ver, st |-> torn] ELSE disk[s][p]]]
    BY DEF ServerDies
  <2>2. disk \in [Server -> [Path -> Present \cup {Absent}]]
    BY DEF Inv, TypeInv, TypeOK, ServerType
  <2> QED BY <2>1, <2>2 DEF DiskChange
<1>6. InTurn(d)'
  <2> SUFFICES ASSUME NEW u \in Server PROVE (Idle(d, u) \/ UnderWay(d, u))'
    BY DEF InTurn
  <2>1. CASE u # s
    <3>1. spc[u][d] = "put_write" => disk'[u][PutPath(d)].ver = d
      BY <1>4, <1>5, <2>1, VersionStays
    <3> QED BY <1>1, <1>2, <1>3, <1>4, <1>5, <2>1, <3>1, ConnectionKept
  <2>2. CASE u = s /\ s2c[d][s] = <<>>
    BY <1>1, <1>4, <2>2 DEF Idle, AtRest
  <2>3. CASE u = s /\ s2c[d][s] # <<>>
    <3>1. UnderWay(d, s) /\ Acked(d, s)
      BY <2>3 DEF Inv, PutsInv, PutOk, InTurn, Idle, UnderWay, Sent, Writing, Acking
    <3>2. disk'[s][PutPath(d)] = WholeBy(d)
      BY <1>5, <3>1, CurrentStays DEF Acked, AtRest
    <3>3. PutPath(d)' = PutPath(d) /\ NoMoreArgs(d)' = NoMoreArgs(d)
      BY <1>2, <1>3, PutPathKept
    <3>4. Acked(d, s)'
      BY <1>1, <1>4, <3>1, <3>2, <3>3 DEF Acked, AtRest, WholeBy
    <3> QED BY <1>2, <1>3, <2>3, <3>1, <3>3, <3>4 DEF UnderWay, ProgressKept
  <2> QED BY <2>1, <2>2, <2>3
<1>7. AtStart(d)' /\ AckedSoFar(d)' /\ StoredKnown(d)'
  BY <1>2, <1>3, <1>5, StartKept, AckedKept, StoredKept
<1> QED BY <1>6, <1>7 DEF PutOk

LEMMA PutsStep ==
  ASSUME NoFileTwice
  PROVE  Inv /\ [Next]_vars => PutsInv'
<1> SUFFICES ASSUME Inv, [Next]_vars PROVE PutsInv'
  OBVIOUS
<1>1. CASE UNCHANGED <<progress, memory, c2s, s2c, spc, cur, disk, hist>>
  <2> SUFFICES ASSUME NEW d \in Puts PROVE PutOk(d)'
    BY DEF PutsInv, Puts
  <2>1. ProgressKept(d) /\ MemoryKept(d)
    BY <1>1 DEF ProgressKept, MemoryKept, progress, memory, hist
  <2> QED BY <1>1, <2>1, PutAside
<1>2. ASSUME NEW c \in Client, ClientStep(c) \/ Kill(c) PROVE PutsInv'
  BY <1>2, PutsClients
<1>3. ASSUME NEW s \in Server, NEW c \in Client, ThreadStep(s, c) PROVE PutsInv'
  BY <1>3, PutsThreads, PutsDeath
<1>4. ASSUME NEW s \in Server, Crash(s) \/ Restart(s) PROVE PutsInv'
  <2>1. CASE Crash(s)
    BY <2>1, PutsDeath DEF Crash
  <2>2. CASE Restart(s)
    BY <1>1, <2>2 DEF Restart, net
  <2> QED BY <1>4, <2>1, <2>2
<1>5. CASE UNCHANGED vars
  BY <1>1, <1>5 DEF vars, net, server
<1> QED BY <1>2, <1>3, <1>4, <1>5 DEF Next

LEMMA InvInvariant ==
  ASSUME ~SameMicrosecond, NoFileTwice
  PROVE  Spec => []Inv
<1>1. Init => Inv
  BY TypeInit, MutexInit, RolesInit, EndsInit, StampsInit, PutsInit DEF Inv
<1>2. Inv /\ [Next]_vars => Inv'
  BY TypeStep, MutexStep, RolesStep, EndsStep, StampsStep, PutsStep DEF Inv
<1> QED BY <1>1, <1>2, PTL DEF Spec

LEMMA StoredOfInv == Inv => AckedIsStored
<1> SUFFICES ASSUME Inv, NEW c \in Puts, ~eofAck[c], NEW r \in result[c],
                    r.status = "stored", NEW k \in Chunk, NEW s \in Server, NEW w \in Which,
                    Slot(HashOf[r.file], s, w) = k
             PROVE  disk[s][[file |-> r.file, chunk |-> k, ts |-> ts[c]]]
                      = [ver |-> c, st |-> "whole"]
  BY DEF AckedIsStored, Outcomes, Holders
<1>1. ts[c] # 0
  BY DEF Inv, PutsInv, PutOk, StoredKnown
<1>2. PICK i \in DOMAIN Job[c].files :
        i < arg[c] /\ r.file = Job[c].files[i] /\ LocalSize[c][r.file] >= 0
  BY DEF Inv, PutsInv, PutOk, StoredKnown
<1>3. Past(c, i, s, w)
  BY <1>2 DEF Past
<1>4. disk[s][PathOf(c, i, s, w)] = WholeBy(c)
  BY <1>1, <1>2, <1>3 DEF Inv, PutsInv, PutOk, AckedSoFar
<1> QED BY <1>2, <1>4 DEF PathOf, WholeBy

\* What was acknowledged is stored (dfc.c:423-719 and dfs.c:120-214): when
\* every chunk of a put was answered, both holders of every chunk have it,
\* whole and with the bytes of that put, whatever crashed, was restarted or
\* killed meanwhile and whoever put what later.  It takes that two puts read
\* different times off the clock, and that a put names no file twice: the
\* second time it writes over the chunks of the first.
THEOREM AcknowledgedIsStored ==
  ASSUME ~SameMicrosecond, NoFileTwice
  PROVE  Spec => []AckedIsStored
BY InvInvariant, StoredOfInv, PTL

(* ------------------------ every file is written once -------------------- *)

Present_(s, p) == disk[s][p] # Absent

\* No file goes away, and a new one is the chunk that a put is at.
LEMMA FilesStay ==
  ASSUME Inv, [Next]_vars, NEW s \in Server, NEW p \in Path
  PROVE  /\ Present_(s, p) => Present_(s, p)'
         /\ ~Present_(s, p) /\ Present_(s, p)' =>
              \E c \in Puts : PutOpen(s, c) /\ UnderWay(c, s) /\ p = PutPath(c)
<1>0. TypeInv /\ ServerType /\ Absent.st = "absent"
  BY DEF Inv, TypeInv, TypeOK, Absent
<1>1. CASE UNCHANGED disk
  BY <1>1 DEF Present_
<1>2. ASSUME NEW c \in Client, ClientStep(c) \/ Kill(c) PROVE UNCHANGED disk
  BY <1>2, ClientsLeaveDisk
<1>3. ASSUME NEW u \in Server, ServerDies(u)
      PROVE  Present_(s, p)' <=> Present_(s, p)
  <2>1. PICK torn \in {"empty", "part"} :
          disk' = [disk EXCEPT ![u] = [q \in Path |->
            IF \E c \in Client : spc[u][c] = "put_write" /\ cur[u][c] = q
            THEN [ver |-> disk[u][q].ver, st |-> torn] ELSE disk[u][q]]]
    BY <1>3 DEF ServerDies
  <2>2. CASE u = s /\ \E c \in Client : spc[u][c] = "put_write" /\ cur[u][c] = p
    <3>1. disk'[s][p] = [ver |-> disk[s][p].ver, st |-> torn]
      BY <1>0, <2>1, <2>2 DEF ServerType
    <3>2. disk'[s][p].st = torn
      BY <3>1
    <3>3. disk[s][p] \in Present
      BY <1>0, <2>2 DEF TypeInv, PathsInUse
    <3>4. disk[s][p].st # "absent"
      BY <3>3 DEF Present
    <3> QED BY <1>0, <3>2, <3>4 DEF Present_, Absent
  <2>3. CASE ~(u = s /\ \E c \in Client : spc[u][c] = "put_write" /\ cur[u][c] = p)
    BY <1>0, <2>1, <2>3 DEF ServerType, Present_
  <2> QED BY <2>2, <2>3
<1>4. ASSUME NEW u \in Server, NEW c \in Client, ThreadStep(u, c), ~ServerDies(u),
             disk'[s][p] # disk[s][p]
      PROVE  /\ Present_(s, p)'
             /\ ~Present_(s, p) => \E d \in Puts : PutOpen(s, d) /\ UnderWay(d, s) /\ p = PutPath(d)
  <2>1. u = s /\ spc[s][c] \in {"put_lock", "put_write"} /\ cur[s][c] = p
    BY <1>0, <1>4, ThreadsChangeDisk
  <2>2. c \in Puts /\ UnderWay(c, s) /\ p = PutPath(c)
    BY <2>1, WriterIsPut
  <2>3. PutOpen(s, c) \/ PutClose(s, c)
    BY <1>4, <2>1 DEF ThreadStep, RecvPut, PutAck, RecvGet, RecvGetNotFound, GetOpen,
       GetSend, RecvList, RecvDone, RecvError, SendSigpipe
  <2>4. PICK v : disk' = [disk EXCEPT ![s][p] = v] /\ v.st \in {"part", "whole"}
    <3>1. CASE PutOpen(s, c)
      <4> DEFINE x == [ver |-> c, st |-> "part"]
      <4>1. disk' = [disk EXCEPT ![s][p] = x] /\ x.st = "part"
        BY <2>1, <3>1 DEF PutOpen
      <4> HIDE DEF x
      <4> QED BY <4>1
    <3>2. CASE PutClose(s, c)
      <4> DEFINE x == [ver |-> disk[s][p].ver, st |-> "whole"]
      <4>1. disk' = [disk EXCEPT ![s][p] = x] /\ x.st = "whole"
        BY <2>1, <3>2 DEF PutClose
      <4> HIDE DEF x
      <4> QED BY <4>1
    <3> QED BY <2>3, <3>1, <3>2
  <2>5. disk'[s][p] = v
    BY <1>0, <2>4 DEF ServerType
  <2>6. PutClose(s, c) => Present_(s, p)
    <3>1. PutClose(s, c) => disk[s][p] \in Present
      BY <1>0, <2>1 DEF PutClose, TypeInv, PathsInUse
    <3> QED BY <1>0, <3>1 DEF Present_, Present, Absent
  <2> QED BY <1>0, <2>2, <2>3, <2>4, <2>5, <2>6 DEF Present_, Absent
<1>5. ASSUME NEW u \in Server, Crash(u) PROVE Present_(s, p)' <=> Present_(s, p)
  BY <1>3, <1>5 DEF Crash
<1>6. ASSUME NEW u \in Server, Restart(u) PROVE UNCHANGED disk
  BY <1>6 DEF Restart
<1>7. CASE UNCHANGED vars
  BY <1>1, <1>7 DEF vars, server
<1>8. ASSUME NEW u \in Server, NEW c \in Client, ThreadStep(u, c)
      PROVE  /\ Present_(s, p) => Present_(s, p)'
             /\ ~Present_(s, p) /\ Present_(s, p)' =>
                  \E d \in Puts : PutOpen(s, d) /\ UnderWay(d, s) /\ p = PutPath(d)
  <2>1. CASE disk'[s][p] = disk[s][p]
    BY <2>1 DEF Present_, Absent
  <2> QED BY <1>3, <1>4, <1>8, <2>1
<1> QED BY <1>1, <1>2, <1>5, <1>6, <1>7, <1>8 DEF Next

\* The chunk at which a put is has not been opened for writing yet.
Heading(c, s) == c2s[c][s] # <<>> /\ Head(c2s[c][s]).t = "put"
NotYet(c, s) == cpc[c] = "put_send" \/ Heading(c, s) \/ spc[s][c] = "put_lock"
Ahead(c, i, s, w) ==
  ~Past(c, i, s, w) /\ (i = arg[c] /\ s = srv[c] /\ w = pos[c] => NotYet(c, s))

\* There are no files of the chunks that a put has before it, or of a time
\* to come, and what a thread has open for writing is not complete.
Blank(c) == ts[c] # 0 => \A i \in DOMAIN Job[c].files, s \in Server, w \in Which :
  Ahead(c, i, s, w) => ~Present_(s, PathOf(c, i, s, w))
InTime == \A s \in Server, p \in Path : Present_(s, p) => p.ts <= clock
OpenIsPart == \A s \in Server, c \in Client :
  spc[s][c] = "put_write" => disk[s][cur[s][c]].st = "part"
OnceInv == InTime /\ OpenIsPart /\ \A c \in Puts : Blank(c)

LEMMA OnceInit == Init => OnceInv
BY DEF Init, OnceInv, InTime, OpenIsPart, Blank, Present_, Puts

\* A put that goes on leaves a chunk it is at behind, and none comes ahead
\* of it again.
LEMMA AheadAdvances ==
  ASSUME Inv, NEW c \in Puts, cpc[c] = "put_ack", PutAdvance(c),
         NEW i \in DOMAIN Job[c].files, NEW s \in Server, NEW w \in Which, Ahead(c, i, s, w)'
  PROVE  Ahead(c, i, s, w)
<1>0. ~NoMoreArgs(c)
  BY DEF Inv, PutsInv, PutOk, AtStart
<1>1. /\ c \in Client /\ arg[c] \in Nat /\ srv[c] \in 1..N /\ pos[c] \in {1, 2}
  BY <1>0, AtArg DEF Server, Which
<1>2. i \in Nat /\ s \in 1..N /\ w \in {1, 2}
  BY <1>1, ArgIndex DEF Server, Which
<1>3. \/ arg'[c] = arg[c] /\ srv'[c] = srv[c] /\ pos[c] = 1 /\ pos'[c] = 2
      \/ arg'[c] = arg[c] /\ srv'[c] = srv[c] + 1 /\ pos[c] = 2 /\ pos'[c] = 1
      \/ arg'[c] = arg[c] + 1 /\ srv'[c] = 1 /\ pos'[c] = 1 /\ srv[c] = N /\ pos[c] = 2
  BY Advances
<1>4. ~Past(c, i, s, w)'
  BY DEF Ahead
<1>5. ~Past(c, i, s, w) /\ ~(i = arg[c] /\ s = srv[c] /\ w = pos[c])
  BY <1>1, <1>2, <1>3, <1>4, NAssumption DEF Past
<1> QED BY <1>5 DEF Ahead

\* The end of a run takes no header to the server.
LEMMA HeadingEnds ==
  ASSUME Inv, NEW c \in Puts, cpc[c] # "put_send",
         PutRefused(c) \/ PutFails(c) \/ Kill(c), NEW s \in Server, Heading(c, s)'
  PROVE  Heading(c, s)
<1>1. CASE UNCHANGED c2s
  BY <1>1 DEF Heading
<1>2. CASE Kill(c) /\ ~UNCHANGED c2s
  <2>1. \/ c2s'[c][s] = c2s[c][s]
        \/ c2s[c][s] = <<Header(c), Rest>> /\ c2s'[c][s] = <<Header(c)>>
        \/ c2s[c][s] = <<Rest>> /\ c2s'[c][s] = <<>>
    BY <1>2, KillTakesRest
  <2>2. Head(<<Header(c), Rest>>) = Header(c) /\ Header(c).t = "put"
    BY DEF Header
  <2> QED BY <2>1, <2>2 DEF Heading
<1> QED BY <1>1, <1>2 DEF PutRefused, PutFails

LEMMA AheadOwn ==
  ASSUME Inv, NEW c \in Puts, ts[c] # 0, ClientStep(c) \/ Kill(c),
         NEW i \in DOMAIN Job[c].files, NEW s \in Server, NEW w \in Which, Ahead(c, i, s, w)'
  PROVE  Ahead(c, i, s, w)
<1>0. c \in Client /\ PutStep(c)
  BY StepsOfPut DEF Puts, Inv
<1>1. ~Connect(c) /\ ~PutStart(c) /\ ~PutRefused(c)
  BY DEF Connect, PutStart, PutRefused, Inv, PutsInv, PutOk, AtStart
<1>2. CASE PutSkip(c)
  <2>1. /\ cpc[c] = "put_send" /\ ~NoMoreArgs(c) /\ arg' = [arg EXCEPT ![c] = arg[c] + 1]
        /\ UNCHANGED <<srv, pos>>
    BY <1>2 DEF PutSkip
  <2>2. arg[c] \in Nat /\ i \in Nat
    BY <1>0, <2>1, AtArg, ArgIndex
  <2>3. arg'[c] = arg[c] + 1
    BY <1>0, <2>1 DEF Inv, TypeInv, TypeOK, ClientType
  <2>4. ~Past(c, i, s, w)
    BY <2>1, <2>2, <2>3 DEF Ahead, Past
  <2> QED BY <2>1, <2>4 DEF Ahead, NotYet
<1>3. CASE PutAcked(c) \/ PutEof(c)
  BY <1>3, AheadAdvances DEF PutAcked, PutEof
<1>4. CASE PutSend(c) \/ PutSendDies(c) \/ (Finish(c) /\ cpc[c] = "put_send")
  BY <1>4 DEF PutSend, PutSendDies, Dies, Finish, Ahead, Past, NotYet
<1>5. CASE (PutFails(c) \/ Kill(c)) /\ cpc[c] = "put_send"
  BY <1>5 DEF PutFails, Kill, Ahead, Past, NotYet
<1>6. CASE (PutFails(c) \/ Kill(c)) /\ cpc[c] # "put_send"
  <2>1. /\ cpc'[c] # "put_send" /\ UNCHANGED <<arg, srv, pos, spc>>
    BY <1>0, <1>6 DEF PutFails, Kill, server, Inv, TypeInv, TypeOK, ClientType
  <2>2. NotYet(c, s)' => NotYet(c, s)
    BY <1>6, <2>1, HeadingEnds DEF NotYet
  <2> QED BY <2>1, <2>2 DEF Ahead, Past
<1> QED BY <1>0, <1>1, <1>2, <1>3, <1>4, <1>5, <1>6 DEF PutStep

\* A thread takes headers from the connection, and a file it has opened it
\* does not wait to open.
LEMMA NotYetServed ==
  ASSUME Inv, NEW s \in Server, NEW c \in Puts, ThreadStep(s, c), ~ServerDies(s),
         NotYet(c, s)'
  PROVE  NotYet(c, s)
<1>0. /\ c \in Client /\ (Idle(c, s) \/ UnderWay(c, s)) /\ NetType /\ ServerType
  BY DEF Inv, PutsInv, PutOk, InTurn, Puts, TypeInv, TypeOK
<1>1. cpc' = cpc
  BY <1>0, ThreadsLeaveOthers DEF Inv, progress
<1>2. CASE RecvPut(s, c)
  BY <1>2 DEF RecvPut, Next_, NotYet, Heading
<1>3. CASE PutOpen(s, c)
  BY <1>3 DEF PutOpen, NotYet
<1>4. CASE PutClose(s, c)
  <2>1. /\ spc[s][c] = "put_write" /\ spc'[s][c] = "put_ack"
        /\ \/ c2s'[c][s] = c2s[c][s]
           \/ c2s[c][s] # <<>> /\ c2s'[c][s] = Tail(c2s[c][s])
    BY <1>0, <1>4, TakesOne, GoesTo DEF PutClose, Next_
  <2>2. c2s[c][s] \in {<<>>, <<Rest>>}
    BY <1>0, <2>1, WriterIsPut DEF Writing
  <2>3. ~Heading(c, s)'
    <3>1. Rest.t = "rest" /\ Head(<<Rest>>) = Rest
      BY DEF Rest
    <3> QED BY <2>1, <2>2, <3>1, Tails DEF Heading
  <2> QED BY <1>1, <2>1, <2>3 DEF NotYet
<1>5. CASE PutAck(s, c)
  <2>1. spc'[s][c] = "recv" /\ c2s' = c2s
    BY <1>0, <1>5, GoesTo DEF PutAck
  <2> QED BY <1>1, <2>1 DEF NotYet, Heading
<1>6. CASE RecvDone(s, c)
  <2>1. /\ spc[s][c] = "recv" /\ spc'[s][c] = "ended"
        /\ \/ Next_(s, c, "done") /\ c2s'[c][s] = Tail(c2s[c][s])
           \/ c2s[c][s] = <<>> /\ c2s'[c][s] = <<>>
    BY <1>0, <1>6, TakesOne, GoesTo DEF RecvDone
  <2>2. c2s'[c][s] = <<>>
    <3>1. CASE Idle(c, s)
      BY <2>1, <3>1, Tails DEF Idle, Next_
    <3>2. CASE UnderWay(c, s)
      <4>1. ~Next_(s, c, "done")
        BY <2>1, <3>2 DEF UnderWay, Sent, Header, Writing, Acking, Acked, Next_
      <4> QED BY <2>1, <4>1
    <3> QED BY <1>0, <3>1, <3>2
  <2> QED BY <1>1, <2>1, <2>2 DEF NotYet, Heading
<1> QED BY <1>2, <1>3, <1>4, <1>5, <1>6, ThreadsOfPut DEF Inv

LEMMA AheadKept ==
  ASSUME NEW c, ProgressKept(c), NEW i, NEW s, NEW w, NotYet(c, s)' => NotYet(c, s),
         Ahead(c, i, s, w)'
  PROVE  Ahead(c, i, s, w)
BY DEF ProgressKept, Ahead, Past

\* What is ahead of a put was ahead of it before.
LEMMA AheadStays ==
  ASSUME Inv, [Next]_vars, NEW c \in Puts, ts[c] # 0,
         NEW i \in DOMAIN Job[c].files, NEW s \in Server, NEW w \in Which, Ahead(c, i, s, w)'
  PROVE  Ahead(c, i, s, w)
<1>0. c \in Client
  BY DEF Puts
<1>1. CASE UNCHANGED <<progress, c2s, spc>>
  BY <1>1 DEF progress, Ahead, Past, NotYet, Heading
<1>2. ASSUME NEW d \in Client, ClientStep(d) \/ Kill(d) PROVE Ahead(c, i, s, w)
  <2>1. CASE d = c
    BY <1>2, <2>1, AheadOwn
  <2>2. CASE d # c
    <3>1. /\ ClientKept(c) /\ spc'[s][c] = spc[s][c]
      BY <1>0, <1>2, <2>2, OthersKept DEF Inv
    <3>2. ProgressKept(c) /\ c2s'[c] = c2s[c]
      BY <3>1 DEF ClientKept, NetKept
    <3>3. NotYet(c, s)' => NotYet(c, s)
      BY <3>1, <3>2 DEF NotYet, Heading, ProgressKept
    <3> QED BY <3>2, <3>3, AheadKept
  <2> QED BY <2>1, <2>2
<1>3. ASSUME NEW u \in Server, ServerDies(u) PROVE Ahead(c, i, s, w)
  <2>1. UNCHANGED progress
    BY <1>3 DEF ServerDies
  <2>2. IF u = s THEN spc'[s][c] = "none" /\ c2s'[c][s] = <<>>
                 ELSE spc'[s][c] = spc[s][c] /\ c2s'[c][s] = c2s[c][s]
    BY <1>0, <1>3 DEF ServerDies, Inv, TypeInv, TypeOK, NetType, ServerType
  <2>3. NotYet(c, s)' => NotYet(c, s)
    BY <2>1, <2>2 DEF NotYet, Heading, progress
  <2>4. ProgressKept(c)
    BY <2>1 DEF ProgressKept, progress
  <2> QED BY <2>3, <2>4, AheadKept
<1>4. ASSUME NEW u \in Server, NEW d \in Client, ThreadStep(u, d), ~ServerDies(u)
      PROVE  Ahead(c, i, s, w)
  <2>1. /\ UNCHANGED progress
        /\ u # s \/ d # c => spc'[s][c] = spc[s][c] /\ c2s'[c][s] = c2s[c][s]
    BY <1>0, <1>4, ThreadsLeaveOthers DEF Inv
  <2>2. NotYet(c, s)' => NotYet(c, s)
    <3>1. CASE u = s /\ d = c
      BY <1>4, <3>1, NotYetServed
    <3>2. CASE u # s \/ d # c
      BY <2>1, <3>2 DEF NotYet, Heading, progress
    <3> QED BY <3>1, <3>2
  <2>3. ProgressKept(c)
    BY <2>1 DEF ProgressKept, progress
  <2> QED BY <2>2, <2>3, AheadKept
<1>5. ASSUME NEW u \in Server, Crash(u) \/ Restart(u) PROVE Ahead(c, i, s, w)
  <2>1. CASE Crash(u)
    BY <1>3, <2>1 DEF Crash
  <2>2. CASE Restart(u)
    BY <1>1, <2>2 DEF Restart, net
  <2> QED BY <1>5, <2>1, <2>2
<1>6. CASE UNCHANGED vars
  BY <1>1, <1>6 DEF vars, net, server
<1> QED BY <1>2, <1>3, <1>4, <1>5, <1>6 DEF Next

\* The chunk that a thread opens for writing is the one the put is at, and
\* from then on no longer ahead of it.
LEMMA OpenedIsPast ==
  ASSUME Inv, NoFileTwice, NEW c \in Puts, NEW s \in Server, PutOpen(s, c), UnderWay(c, s),
         NEW i \in DOMAIN Job[c].files, NEW w \in Which, PathOf(c, i, s, w) = PutPath(c)
  PROVE  ~Ahead(c, i, s, w)'
<1>0. /\ c \in Client /\ NetType /\ ServerType /\ s = srv[c] /\ ~NoMoreArgs(c)
      /\ pos[c] \in Which /\ cpc[c] \in {"put_ack", "exited", "killed"}
  BY DEF Puts, Inv, TypeInv, TypeOK, UnderWay
<1>1. arg[c] \in DOMAIN Job[c].files
  BY <1>0, DfsAssumption
  DEF NoMoreArgs, Inv, TypeInv, TypeOK, ClientType, LoopsInRange, LoopInRange
<1>2. i = arg[c]
  <2>1. Job[c].files[i] = Job[c].files[arg[c]]
    BY DEF PathOf, PutPath, F
  <2> QED BY <1>1, <2>1 DEF NoFileTwice
<1>3. w = pos[c]
  <2>1. Job[c].files[i] \in File
    BY <1>0, ArgIndex
  <2>2. HashOf[Job[c].files[i]] \in Hash
    BY <2>1, DfsAssumption
  <2>3. Slot(HashOf[Job[c].files[i]], s, w) = Slot(HashOf[Job[c].files[i]], s, pos[c])
    BY <1>0, <1>2 DEF PathOf, PutPath, F
  <2> QED BY <1>0, <2>2, <2>3, SlotsDiffer
<1>4. UNCHANGED <<progress, c2s>> /\ spc'[s][c] = "put_write" /\ spc[s][c] = "put_lock"
  BY <1>0, GoesTo DEF PutOpen, clientSide, net
<1>5. ~Heading(c, s)'
  <2>1. c2s[c][s] \in {<<>>, <<Rest>>}
    BY <1>0, <1>4, WriterIsPut DEF Writing
  <2> QED BY <1>4, <2>1 DEF Heading, Rest
<1> QED BY <1>0, <1>2, <1>3, <1>4, <1>5 DEF Ahead, NotYet, progress

LEMMA InTimeStep == Inv /\ InTime /\ [Next]_vars => InTime'
<1> SUFFICES ASSUME Inv, InTime, [Next]_vars, NEW s \in Server, NEW p \in Path, Present_(s, p)'
             PROVE  p.ts <= clock'
  BY DEF InTime
<1>0. clock \in Nat /\ p.ts \in Nat /\ \A t \in Stamp : t \in Nat
  BY DfsAssumption DEF Inv, TypeInv, TypeOK, EnvType, Path, Stamp
<1>1. clock' \in Nat /\ clock <= clock'
  <2>1. ASSUME NEW c \in Client, PutStart(c) PROVE clock' \in Nat /\ clock <= clock'
    BY <1>0, <2>1 DEF PutStart
  <2> QED BY <1>0, <2>1, TimeStands DEF Inv
<1>2. p.ts <= clock
  <2>1. CASE Present_(s, p)
    BY <2>1 DEF InTime
  <2>2. CASE ~Present_(s, p)
    <3>1. PICK c \in Puts : p = PutPath(c)
      BY <2>2, FilesStay
    <3>2. p.ts = ts[c] /\ c \in Client
      BY <3>1 DEF PutPath, Puts
    <3> QED BY <3>2 DEF Inv, StampsApart
  <2> QED BY <2>1, <2>2
<1> QED BY <1>0, <1>1, <1>2

\* No two threads write the same file.
LEMMA OneWriter ==
  ASSUME Inv, NEW s \in Server, NEW c \in Client, NEW d \in Client,
         spc[s][c] \in {"put_lock", "put_write"}, spc[s][d] \in {"put_lock", "put_write"},
         cur[s][c] = cur[s][d]
  PROVE  c = d
<1>1. PutPath(c) = PutPath(d) /\ ts[c] \in Stamp
  BY WriterIsPut DEF UnderWay
<1>2. ts[c] = ts[d] /\ ts[c] # 0
  BY <1>1 DEF PutPath, Stamp
<1> QED BY <1>2 DEF Inv, StampsApart

LEMMA OpenIsPartStep == Inv /\ OpenIsPart /\ [Next]_vars => OpenIsPart'
<1> SUFFICES ASSUME Inv, OpenIsPart, [Next]_vars, NEW s \in Server, NEW c \in Client,
                    spc'[s][c] = "put_write"
             PROVE  disk'[s][cur'[s][c]].st = "part"
  BY DEF OpenIsPart
<1>0. NetType /\ ServerType
  BY DEF Inv, TypeInv, TypeOK
<1>1. CASE spc'[s][c] = spc[s][c] /\ cur'[s][c] = cur[s][c] /\ disk'[s] = disk[s]
  BY <1>1 DEF OpenIsPart
<1>2. ASSUME NEW d \in Client, ClientStep(d) \/ Kill(d)
      PROVE  disk'[s][cur'[s][c]].st = "part"
  <2>1. UNCHANGED <<cur, disk>>
    BY <1>2, ClientsLeaveDisk
  <2>2. spc'[s][c] = spc[s][c]
    <3>1. CASE Connect(d)
      BY <1>0, <3>1 DEF Connect, ServerType
    <3> QED BY <1>2, <3>1, ClientsLeaveThreads
  <2> QED BY <1>1, <2>1, <2>2
<1>3. ASSUME NEW u \in Server, ServerDies(u) PROVE disk'[s][cur'[s][c]].st = "part"
  <2>1. u # s
    BY <1>0, <1>3 DEF ServerDies, ServerType
  <2>2. spc'[s] = spc[s] /\ cur'[s] = cur[s] /\ disk'[s] = disk[s]
    BY <1>0, <1>3, <2>1 DEF ServerDies, ServerType
  <2> QED BY <1>1, <2>2
<1>4. ASSUME NEW u \in Server, NEW d \in Client, ThreadStep(u, d), ~ServerDies(u)
      PROVE  disk'[s][cur'[s][c]].st = "part"
  <2>1. CASE u = s /\ d = c
    <3>1. CASE PutOpen(s, c)
      <4> DEFINE x == [ver |-> c, st |-> "part"]
      <4>1. disk' = [disk EXCEPT ![s][cur[s][c]] = x] /\ x.st = "part" /\ cur' = cur
        BY <3>1 DEF PutOpen
      <4>2. cur[s][c] \in Path
        BY <3>1 DEF PutOpen, Inv, TypeInv, PathsInUse
      <4> HIDE DEF x
      <4> QED BY <1>0, <4>1, <4>2 DEF ServerType
    <3>2. CASE ~PutOpen(s, c)
      <4>1. CASE \E l \in ThreadStates : l # "put_write" /\ Goto(s, c, l)
        BY <1>0, <4>1, GoesTo
      <4>2. CASE spc[s][c] = "recv" /\ UNCHANGED spc
        BY <4>2
      <4> QED BY <1>4, <2>1, <3>2, <4>1, <4>2
          DEF ThreadStep, RecvPut, PutClose, PutAck, RecvGet, RecvGetNotFound, GetOpen, GetSend,
              RecvList, RecvDone, RecvError, SendSigpipe, server, ThreadStates
    <3> QED BY <3>1, <3>2
  <2>2. CASE u # s \/ d # c
    <3>1. spc'[s][c] = spc[s][c] /\ cur'[s][c] = cur[s][c]
      BY <1>4, <2>2, ThreadsLeaveOthers DEF Inv
    <3>2. cur[s][c] \in Path
      BY <3>1 DEF Inv, TypeInv, PathsInUse
    <3>3. disk'[s][cur[s][c]] = disk[s][cur[s][c]]
      <4> SUFFICES ASSUME disk'[s][cur[s][c]] # disk[s][cur[s][c]] PROVE FALSE
        OBVIOUS
      <4>1. u = s /\ spc[s][d] \in {"put_lock", "put_write"} /\ cur[s][d] = cur[s][c]
        BY <1>4, <3>2, ThreadsChangeDisk DEF Inv
      <4>2. c = d
        BY <3>1, <4>1, OneWriter
      <4> QED BY <2>2, <4>1, <4>2
    <3> QED BY <3>1, <3>3 DEF OpenIsPart
  <2> QED BY <2>1, <2>2
<1>5. ASSUME NEW u \in Server, Crash(u) \/ Restart(u) PROVE disk'[s][cur'[s][c]].st = "part"
  <2>1. CASE Crash(u)
    BY <1>3, <2>1 DEF Crash
  <2>2. CASE Restart(u)
    BY <1>1, <2>2 DEF Restart
  <2> QED BY <1>5, <2>1, <2>2
<1>6. CASE UNCHANGED vars
  BY <1>1, <1>6 DEF vars, server
<1>7. ASSUME NEW u \in Server, NEW d \in Client, ThreadStep(u, d)
      PROVE  disk'[s][cur'[s][c]].st = "part"
  BY <1>3, <1>4, <1>7
<1> QED BY <1>2, <1>5, <1>6, <1>7 DEF Next

LEMMA BlankStep ==
  ASSUME ~SameMicrosecond, NoFileTwice
  PROVE  Inv /\ OnceInv /\ [Next]_vars => \A c \in Puts : Blank(c)'
<1> SUFFICES ASSUME Inv, OnceInv, [Next]_vars, NEW c \in Puts, ts'[c] # 0,
                    NEW i \in DOMAIN Job[c].files, NEW s \in Server, NEW w \in Which,
                    Ahead(c, i, s, w)'
             PROVE  ~Present_(s, PathOf(c, i, s, w))'
  BY DEF Blank
<1>0. c \in Client /\ MemoryType /\ clock \in Nat /\ ts'[c] \in Stamp
  <2>1. TypeInv'
    BY TypeStep DEF Inv
  <2>2. c \in Client
    BY DEF Puts
  <2>3. MemoryType' /\ MemoryType /\ EnvType
    BY <2>1 DEF TypeInv, TypeOK, Inv
  <2>4. clock \in Nat
    BY <2>3 DEF EnvType
  <2>5. ts'[c] \in Stamp
    BY <2>2, <2>3 DEF MemoryType
  <2> QED BY <2>2, <2>3, <2>4, <2>5
<1>1. PICK p \in Path : p.ts = ts'[c] /\ PathOf(c, i, s, w)' = p
  <2> DEFINE q == [file |-> Job[c].files[i], chunk |-> Slot(HashOf[Job[c].files[i]], s, w),
                   ts |-> ts'[c]]
  <2>1. Job[c].files[i] \in File
    BY <1>0, ArgIndex
  <2>2. Slot(HashOf[Job[c].files[i]], s, w) \in Chunk
    BY <2>1, SlotIsChunk, DfsAssumption
  <2>3. q \in Path /\ q.ts = ts'[c] /\ PathOf(c, i, s, w)' = q
    BY <1>0, <2>1, <2>2 DEF PathOf, Path
  <2> HIDE DEF q
  <2> QED BY <2>3
<1>2. CASE PutStart(c)
  <2>1. ts'[c] = clock + 1 /\ UNCHANGED disk
    BY <1>0, <1>2 DEF PutStart, MemoryType, server
  <2>2. ~Present_(s, p)
    BY <1>0, <1>1, <2>1 DEF OnceInv, InTime
  <2> QED BY <1>1, <2>1, <2>2 DEF Present_
<1>3. CASE ~PutStart(c)
  <2>1. ts'[c] = ts[c]
    <3>1. ASSUME NEW d \in Client, PutStart(d) PROVE ts'[c] = ts[c]
      BY <1>0, <1>3, <3>1 DEF PutStart, MemoryType
    <3> QED BY <3>1, TimeStands DEF Inv
  <2>2. p = PathOf(c, i, s, w)
    BY <1>1, <2>1 DEF PathOf
  <2>3. Ahead(c, i, s, w)
    BY <2>1, AheadStays
  <2>4. ~Present_(s, p)
    BY <2>1, <2>2, <2>3 DEF OnceInv, Blank
  <2> SUFFICES ASSUME Present_(s, p)' PROVE FALSE
    BY <1>1 DEF Present_
  <2>5. PICK d \in Puts : PutOpen(s, d) /\ UnderWay(d, s) /\ p = PutPath(d)
    BY <1>1, <2>4, FilesStay
  <2>6. d = c
    <3>1. ts[d] = ts[c] /\ d \in Client
      BY <1>1, <2>1, <2>5 DEF PutPath, Puts
    <3> QED BY <1>0, <2>1, <3>1 DEF Inv, StampsApart
  <2> QED BY <2>2, <2>5, <2>6, OpenedIsPast
<1> QED BY <1>2, <1>3

\* Every file is written once: none is there before its put has come to it,
\* and it is a part as long as it is open.
LEMMA OnceStep ==
  ASSUME ~SameMicrosecond, NoFileTwice
  PROVE  Inv /\ OnceInv /\ [Next]_vars => OnceInv'
<1> SUFFICES ASSUME Inv, OnceInv, [Next]_vars PROVE OnceInv'
  OBVIOUS
<1>1. InTime' /\ OpenIsPart'
  BY InTimeStep, OpenIsPartStep DEF OnceInv
<1>2. \A c \in Puts : Blank(c)'
  BY BlankStep
<1> QED BY <1>1, <1>2 DEF OnceInv

\* A file of size 0 stays one.
LEMMA EmptyStays ==
  ASSUME Inv, OnceInv, [Next]_vars, NEW s \in Server, NEW p \in Path,
         Present_(s, p), ~HasBytes(s, p)
  PROVE  Present_(s, p)' /\ ~HasBytes(s, p)'
<1>0. Present_(s, p)' /\ ServerType
  BY FilesStay DEF Inv, TypeInv, TypeOK
<1>1. CASE disk'[s][p] = disk[s][p]
  BY <1>0, <1>1 DEF HasBytes, Size
<1>2. ASSUME NEW d \in Client, spc[s][d] = "put_write", cur[s][d] = p PROVE FALSE
  BY <1>2 DEF OnceInv, OpenIsPart, HasBytes
<1>3. ASSUME NEW u \in Server, ServerDies(u) PROVE disk'[s][p] = disk[s][p]
  <2>1. PICK torn \in {"empty", "part"} :
          disk' = [disk EXCEPT ![u] = [q \in Path |->
            IF \E c \in Client : spc[u][c] = "put_write" /\ cur[u][c] = q
            THEN [ver |-> disk[u][q].ver, st |-> torn] ELSE disk[u][q]]]
    BY <1>3 DEF ServerDies
  <2> QED BY <1>0, <1>2, <2>1 DEF ServerType
<1>4. ASSUME NEW u \in Server, NEW d \in Client, ThreadStep(u, d), ~ServerDies(u)
      PROVE  disk'[s][p] = disk[s][p]
  <2> SUFFICES ASSUME disk'[s][p] # disk[s][p] PROVE FALSE
    OBVIOUS
  <2>1. u = s /\ spc[s][d] \in {"put_lock", "put_write"} /\ cur[s][d] = p
    BY <1>4, ThreadsChangeDisk DEF Inv
  <2>2. spc[s][d] = "put_lock"
    BY <1>2, <2>1
  <2>3. /\ d \in Puts /\ s = srv[d] /\ p = PutPath(d) /\ ts[d] \in Stamp /\ pos[d] \in Which
        /\ ~NoMoreArgs(d)
    BY <2>1, WriterIsPut DEF UnderWay
  <2>4. /\ arg[d] \in DOMAIN Job[d].files /\ arg[d] \in Nat
    <3>1. arg[d] \in Nat /\ arg[d] >= 1 /\ Job[d].files \in Seq(File)
      BY DfsAssumption DEF Inv, TypeInv, TypeOK, ClientType, LoopsInRange, LoopInRange
    <3> QED BY <2>3, <3>1 DEF NoMoreArgs
  <2>5. Ahead(d, arg[d], s, pos[d])
    BY <2>2, <2>3, <2>4 DEF Ahead, Past, NotYet, Server, Which
  <2>6. PathOf(d, arg[d], s, pos[d]) = p
    BY <2>3 DEF PathOf, PutPath, F
  <2> QED BY <2>3, <2>4, <2>5, <2>6 DEF OnceInv, Blank, Stamp
<1>5. ASSUME NEW d \in Client, ClientStep(d) \/ Kill(d) PROVE disk'[s][p] = disk[s][p]
  BY <1>5, ClientsLeaveDisk
<1>6. ASSUME NEW u \in Server, Crash(u) \/ Restart(u) PROVE disk'[s][p] = disk[s][p]
  BY <1>3, <1>6 DEF Crash, Restart
<1>7. CASE UNCHANGED vars
  BY <1>1, <1>7 DEF vars, server
<1>8. ASSUME NEW u \in Server, NEW d \in Client, ThreadStep(u, d) PROVE disk'[s][p] = disk[s][p]
  BY <1>3, <1>4, <1>8
<1> QED BY <1>1, <1>5, <1>6, <1>7, <1>8 DEF Next

(* ---------------- what a server cannot give stays so -------------------- *)

\* A server that a run has given up it does not ask again.
LEMMA LiveFalls ==
  ASSUME TypeInv, [Next]_vars, NEW c \in Client, cpc[c] # "connect", NEW s \in Server,
         ~live[c][s]
  PROVE  ~live'[c][s]
<1>0. MemoryType
  BY DEF TypeInv, TypeOK
<1>1. CASE live'[c] = live[c]
  BY <1>1
<1>2. ASSUME ClientStep(c) \/ Kill(c) PROVE ~live'[c][s]
  <2>1. CASE GetFails(c)
    BY <1>0, <2>1 DEF GetFails, MemoryType
  <2>2. CASE ~GetFails(c)
    <3>1. UNCHANGED live
      BY <1>2, <2>2 DEF ClientStep, Connect, PutRefused, PutStart, GetStart, ListStart, PutSkip,
         PutSend, PutSendDies, PutAcked, PutEof, PutFails, GetQuery, GetQueryDies, GetMissing,
         GetJunk, GetReady, GetNot, GetData, GetDataFails, GetDataForEver, ListQuery,
         ListAnswered, ListFails, ListFailsDies, ListShow, Finish, Kill, Dies, memory
    <3> QED BY <1>1, <3>1
  <2> QED BY <2>1, <2>2
<1>3. ASSUME NEW d \in Client, ClientStep(d) \/ Kill(d) PROVE ~live'[c][s]
  <2>1. CASE d = c
    BY <1>2, <1>3, <2>1
  <2>2. CASE d # c
    BY <1>1, <1>3, <2>2, OthersKept DEF ClientKept, MemoryKept
  <2> QED BY <2>1, <2>2
<1>4. ASSUME NEW u \in Server, ServerDies(u) \/ Restart(u) PROVE ~live'[c][s]
  BY <1>1, <1>4 DEF ServerDies, Restart, memory
<1>5. ASSUME NEW u \in Server, NEW d \in Client, ThreadStep(u, d) PROVE ~live'[c][s]
  <2>1. CASE ~ServerDies(u)
    BY <1>1, <1>5, <2>1, ThreadsLeaveOthers DEF memory
  <2> QED BY <1>4, <2>1
<1>6. CASE UNCHANGED vars
  BY <1>1, <1>6 DEF vars, memory
<1> QED BY <1>3, <1>4, <1>5, <1>6 DEF Next, Crash

\* A connection that the server's end has closed stays closed.
LEMMA EndStays ==
  ASSUME TypeInv, [Next]_vars, NEW c \in Client, NEW s \in Server, serverEnd[c][s] # "open"
  PROVE  serverEnd'[c][s] # "open"
<1>0. NetType
  BY DEF TypeInv, TypeOK
<1>1. CASE serverEnd'[c] = serverEnd[c]
  BY <1>1
<1>2. ASSUME NEW u \in Server, NEW units, ClientSends(c, u, units) PROVE serverEnd'[c][s] # "open"
  BY <1>0, <1>2 DEF ClientSends, NetType
<1>3. ASSUME ClientStep(c) \/ Kill(c) PROVE serverEnd'[c][s] # "open"
  <2>0. LoopInRange(c)
    BY DEF TypeInv, LoopsInRange
  <2>1. CASE PutSend(c) \/ GetReady(c)
    BY <1>2, <2>0, <2>1 DEF PutSend, GetReady, LoopInRange
  <2>2. CASE GetQuery(c) \/ ListQuery(c)
    BY <1>2, <2>2 DEF GetQuery, ListQuery
  <2>3. CASE ~(PutSend(c) \/ GetReady(c) \/ GetQuery(c) \/ ListQuery(c))
    <3>1. UNCHANGED serverEnd
      BY <1>3, <2>3 DEF ClientStep, Connect, PutRefused, PutStart, GetStart, ListStart, PutSkip,
         PutSendDies, PutAcked, PutEof, PutFails, GetQueryDies, GetMissing,
         GetJunk, GetNot, GetFails, GetData, GetDataFails, GetDataForEver,
         ListAnswered, ListFails, ListFailsDies, ListShow, Finish, Kill, Dies, net
    <3> QED BY <1>1, <3>1
  <2> QED BY <2>1, <2>2, <2>3
<1>4. ASSUME NEW d \in Client, ClientStep(d) \/ Kill(d) PROVE serverEnd'[c][s] # "open"
  <2>1. CASE d = c
    BY <1>3, <1>4, <2>1
  <2>2. CASE d # c
    BY <1>1, <1>4, <2>2, OthersKept DEF ClientKept, NetKept
  <2> QED BY <2>1, <2>2
<1>5. ASSUME NEW u \in Server, ServerDies(u) PROVE serverEnd'[c][s] # "open"
  BY <1>0, <1>5 DEF ServerDies, NetType
<1>6. ASSUME NEW u \in Server, NEW d \in Client, ThreadStep(u, d) PROVE serverEnd'[c][s] # "open"
  <2>1. CASE ~ServerDies(u)
    BY <1>1, <1>6, <2>1, ThreadsLeaveOthers
  <2> QED BY <1>5, <2>1
<1>7. CASE UNCHANGED vars
  BY <1>1, <1>7 DEF vars, net
<1> QED BY <1>1, <1>4, <1>5, <1>6, <1>7 DEF Next, Crash, Restart, net

LEMMA CannotStays ==
  ASSUME Inv, OnceInv, [Next]_vars, NEW c \in Client, cpc[c] # "connect", NEW s \in Server,
         NEW f, NEW k, CannotGive(c, s, f, k)
  PROVE  CannotGive(c, s, f, k)'
<1>0. TypeInv
  BY DEF Inv
<1>1. CASE ~live[c][s] \/ serverEnd[c][s] # "open"
  BY <1>0, <1>1, LiveFalls, EndStays DEF CannotGive
<1>2. CASE ~(~live[c][s] \/ serverEnd[c][s] # "open")
  <2>1. PICK p \in Path : p.file = f /\ p.chunk = k /\ Present_(s, p) /\ ~HasBytes(s, p)
    BY <1>2 DEF CannotGive, Present_
  <2>2. Present_(s, p)' /\ ~HasBytes(s, p)'
    BY <2>1, EmptyStays
  <2> QED BY <2>1, <2>2 DEF CannotGive, Present_
<1> QED BY <1>1, <1>2
=============================================================================
