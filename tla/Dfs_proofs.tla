----------------------------- MODULE Dfs_proofs -----------------------------
(***************************************************************************)
(* Safety of Dfs for any number of servers, clients, files and failures.   *)
(* First what the table of dfc.c guarantees.  Then the mutex excludes;     *)
(* every variable keeps its type; and no reader is given a chunk that is   *)
(* being written, with clients that are killed, servers that die, and a    *)
(* directory that is searched without the mutex.                           *)
(* The last part says what each process may touch, for the modules that    *)
(* follow: a step of a client or of a thread leaves the others alone; both *)
(* keep to their command; a connection that its server ended stays ended;  *)
(* two puts have different timestamps.                                     *)
(***************************************************************************)
EXTENDS Dfs, TLAPS

(* ------------- what the table of the chunks guarantees ---------------- *)

\* Going once around the ring stays on it: every index the table takes is
\* that of a server or chunk.
LEMMA WrapInRing ==
  ASSUME NEW i \in Int, 1 - N <= i, i <= 2 * N
  PROVE  Wrap(i) \in 1..N
BY NAssumption DEF Wrap

\* Every entry of the table is the number of a chunk.
THEOREM SlotIsChunk ==
  ASSUME NEW x \in Hash, NEW d \in Server, NEW w \in Which
  PROVE  Slot(x, d, w) \in Chunk
BY NAssumption DEF Slot, Wrap, Hash, Server, Which, Chunk

\* Every chunk is sent to two servers, which are neighbours: server
\* Wrap(k + x - 1) has it as its second chunk, the next one as its first.
THEOREM HoldersAreNeighbours ==
  ASSUME NEW x \in Hash, NEW k \in Chunk
  PROVE  /\ Wrap(k + x - 1) \in Server
         /\ NextServer(Wrap(k + x - 1)) # Wrap(k + x - 1)
         /\ Holders(x, k) = {Wrap(k + x - 1), NextServer(Wrap(k + x - 1))}
<1> DEFINE d1 == Wrap(k + x - 1)
           d2 == NextServer(d1)
<1>1. d1 \in Server /\ d2 \in Server /\ d1 # d2
  BY NAssumption DEF Wrap, NextServer, Hash, Server, Chunk
<1>2. ASSUME NEW d \in Server
      PROVE  (Slot(x, d, 2) = k <=> d = d1) /\ (Slot(x, d, 1) = k <=> d = d2)
  <2>1. Slot(x, d, 2) = k <=> d = d1
    BY NAssumption DEF Slot, Wrap, Hash, Server, Chunk
  <2>2. Slot(x, d, 1) = k <=> d = d2
    BY NAssumption DEF Slot, Wrap, NextServer, Hash, Server, Chunk
  <2> QED BY <2>1, <2>2
<1>3. \A d \in Server : (\E w \in Which : Slot(x, d, w) = k) <=> d = d1 \/ d = d2
  <2> TAKE d \in Server
  <2>1. Which = {1, 2}
    BY DEF Which
  <2> QED BY <1>2, <2>1
<1>4. Holders(x, k) = {d1, d2}
  BY <1>1, <1>3 DEF Holders
<1> QED BY <1>1, <1>4

\* With no two neighbours gone every chunk has a holder left; and when two
\* neighbours are gone the chunk the two share is lost.
THEOREM ReachableWhenNoGap ==
  ASSUME NEW x \in Hash, NEW left \in SUBSET Server
  PROVE  (\A k \in Chunk : Holders(x, k) \cap left # {})
           <=> (\A d \in Server : d \in left \/ NextServer(d) \in left)
<1>1. ASSUME \A d \in Server : d \in left \/ NextServer(d) \in left, NEW k \in Chunk
      PROVE  Holders(x, k) \cap left # {}
  BY <1>1, HoldersAreNeighbours
<1>2. ASSUME \A k \in Chunk : Holders(x, k) \cap left # {}, NEW d \in Server
      PROVE  d \in left \/ NextServer(d) \in left
  <2> DEFINE k == Slot(x, d, 2)
  <2>1. k \in Chunk
    BY SlotIsChunk DEF Which
  <2>2. Wrap(k + x - 1) = d
    BY NAssumption DEF Slot, Wrap, Hash, Server
  <2>3. Holders(x, k) = {d, NextServer(d)}
    BY <2>1, <2>2, HoldersAreNeighbours
  <2> QED BY <1>2, <2>1, <2>3
<1> QED BY <1>1, <1>2

\* The chunks, written one after the other, tile the file.
THEOREM ChunksTile ==
  ASSUME NEW size \in Nat
  PROVE  /\ ChunkStart(size, 1) = 0
         /\ \A k \in 1..(N-1) :
              ChunkStart(size, k) + ChunkSize(size, k) = ChunkStart(size, k+1)
         /\ ChunkStart(size, N) + ChunkSize(size, N) = size
<1> DEFINE q == size \div N
<1>1. q \in Int
  BY NAssumption
<1> HIDE DEF q
<1>2. (1 - 1) * q = 0
  BY <1>1
<1>3. ASSUME NEW k \in 1..(N-1)
      PROVE  (k - 1) * q + q = ((k + 1) - 1) * q
  <2>1. k \in Int
    BY NAssumption
  <2> QED BY <1>1, <2>1
<1>4. (N - 1) * q \in Int
  BY <1>1, NAssumption
<1>5. (N - 1) * q + (size - (N - 1) * q) = size
  BY <1>4
<1> QED BY <1>2, <1>3, <1>5, NAssumption DEF ChunkStart, ChunkSize, q

(* ---------------- the steps that leave the threads alone -------------- *)

threads == <<lock, spc>>

\* Of the steps of a client only connecting touches the threads.
LEMMA ClientsLeaveThreads ==
  ASSUME NEW c \in Client, ClientStep(c) \/ Kill(c), ~Connect(c)
  PROVE  UNCHANGED <<lock, spc, up, cur, disk, died>>
BY DEF ClientStep, Kill, PutRefused, PutStart, GetStart, ListStart, PutSkip,
       PutSend, PutSendDies, PutAcked, PutEof, PutFails, GetQuery,
       GetQueryDies, GetMissing, GetJunk, GetReady, GetNot, GetFails, GetData,
       GetDataFails, GetDataForEver, ListQuery, ListAnswered, ListFails,
       ListFailsDies, ListShow, Finish, Dies, server, hist

(* ------------------------- the client's loop -------------------------- *)

\* A step of a client moves that client alone, and none but Connect leaves
\* it connecting.
LEMMA ClientsMoveAlone ==
  ASSUME NEW c \in Client, ClientStep(c) \/ Kill(c),
         cpc \in [Client -> ClientStates], srv \in [Client -> Int]
  PROVE  /\ cpc' \in [Client -> ClientStates]
         /\ srv' \in [Client -> Int]
         /\ \A d \in Client \ {c} : cpc'[d] = cpc[d] /\ srv'[d] = srv[d]
         /\ Connect(c) \/ cpc'[c] # "connect"
<1> USE DEF ClientStates, Running, Server
<1> DEFINE Goal == /\ cpc' \in [Client -> ClientStates]
                   /\ srv' \in [Client -> Int]
                   /\ \A d \in Client \ {c} : cpc'[d] = cpc[d] /\ srv'[d] = srv[d]
                   /\ Connect(c) \/ cpc'[c] # "connect"
<1>1. CASE Connect(c)
  BY <1>1, NAssumption DEF Connect
<1>2. CASE PutRefused(c) \/ PutStart(c) \/ GetStart(c) \/ ListStart(c)
  BY <1>2 DEF PutRefused, PutStart, GetStart, ListStart
<1>3. CASE PutSkip(c)
  BY <1>3 DEF PutSkip
<1>4. CASE PutSend(c) \/ PutFails(c)
  BY <1>4 DEF PutSend, PutFails
<1>5. CASE PutAcked(c) \/ PutEof(c)
  BY <1>5 DEF PutAcked, PutEof, PutAdvance
<1>6. CASE PutSendDies(c) \/ GetQueryDies(c) \/ GetDataFails(c) \/ ListFailsDies(c)
  BY <1>6 DEF PutSendDies, GetQueryDies, GetDataFails, ListFailsDies, Dies
<1>7. CASE GetQuery(c) \/ ListQuery(c)
  BY <1>7 DEF GetQuery, ListQuery
<1>8. CASE GetMissing(c) \/ GetJunk(c) \/ GetData(c)
  <2>1. cpc' = [cpc EXCEPT ![c] = "get_query"] /\ srv' = [srv EXCEPT ![c] = 1]
    BY <1>8 DEF GetMissing, GetJunk, GetData, NextChunk, NextFile
  <2> QED BY <2>1
<1>9. CASE GetReady(c) \/ GetNot(c) \/ GetFails(c) \/ GetDataForEver(c)
  BY <1>9 DEF GetReady, GetNot, GetFails, GetDataForEver
<1>10. CASE ListAnswered(c) \/ ListFails(c)
  BY <1>10 DEF ListAnswered, ListFails
<1>11. CASE ListShow(c) \/ Finish(c) \/ Kill(c)
  BY <1>11 DEF ListShow, Finish, Kill
<1> QED BY <1>1, <1>2, <1>3, <1>4, <1>5, <1>6, <1>7, <1>8, <1>9, <1>10, <1>11 DEF ClientStep

(* --------------------------- the mutex -------------------------------- *)

\* A client still connecting has no thread at the servers it has yet to
\* come to: accepting it cannot overwrite a thread that holds the mutex.
NoThreadYet ==
  \A c \in Client : cpc[c] = "connect" =>
    /\ srv[c] \in Server
    /\ \A s \in Server : srv[c] <= s => spc[s][c] = "none"

MutexType ==
  /\ cpc \in [Client -> ClientStates]
  /\ srv \in [Client -> Int]
  /\ lock \in [Server -> Client \cup {None}]
  /\ spc \in [Server -> [Client -> ThreadStates]]

MutexInv == MutexType /\ NoThreadYet /\ MutualExclusion

LEMMA MutexInit == Init => MutexInv
BY DfsAssumption, NAssumption
DEF Init, MutexInv, MutexType, NoThreadYet, MutualExclusion, ClientStates, Running,
    ThreadStates, Server

LEMMA MutexConnect ==
  ASSUME MutexInv, NEW c \in Client, Connect(c)
  PROVE  MutexInv'
<1> USE DEF MutexInv, MutexType, NoThreadYet, MutualExclusion
<1>1. srv[c] \in Server /\ spc[srv[c]][c] = "none"
  BY DEF Connect, Server
<1>2. MutexType'
  BY <1>1, ClientsMoveAlone DEF Connect, ClientStep, ThreadStates
<1>3. NoThreadYet'
  <2> SUFFICES ASSUME NEW d \in Client, cpc'[d] = "connect"
               PROVE  /\ srv'[d] \in Server
                      /\ \A s \in Server : srv'[d] <= s => spc'[s][d] = "none"
    OBVIOUS
  <2>1. CASE d = c
    BY <2>1, <1>1, NAssumption DEF Connect, Server
  <2>2. CASE d # c
    BY <2>2, <1>1 DEF Connect
  <2> QED BY <2>1, <2>2
<1>4. MutualExclusion'
  BY <1>1, DfsAssumption DEF Connect
<1> QED BY <1>2, <1>3, <1>4

LEMMA MutexClients ==
  ASSUME MutexInv, NEW c \in Client, ClientStep(c) \/ Kill(c)
  PROVE  MutexInv'
<1>1. CASE Connect(c)
  BY <1>1, MutexConnect
<1>2. CASE ~Connect(c)
  <2>1. UNCHANGED <<lock, spc>>
    BY <1>2, ClientsLeaveThreads
  <2>2. /\ cpc' \in [Client -> ClientStates]
        /\ srv' \in [Client -> Int]
        /\ \A d \in Client \ {c} : cpc'[d] = cpc[d] /\ srv'[d] = srv[d]
        /\ cpc'[c] # "connect"
    BY <1>2, ClientsMoveAlone DEF MutexInv, MutexType
  <2> QED BY <2>1, <2>2 DEF MutexInv, MutexType, NoThreadYet, MutualExclusion
<1> QED BY <1>1, <1>2

LEMMA MutexServers ==
  ASSUME MutexInv, NEW s \in Server, ServerDies(s) \/ Restart(s)
  PROVE  MutexInv'
<1> USE DEF MutexInv
<1>1. CASE Restart(s)
  BY <1>1 DEF Restart, MutexType, NoThreadYet, MutualExclusion, progress
<1>2. CASE ServerDies(s)
  <2>1. /\ UNCHANGED <<cpc, srv>>
        /\ lock' = [lock EXCEPT ![s] = None]
        /\ spc' = [spc EXCEPT ![s] = [c \in Client |-> "none"]]
    BY <1>2 DEF ServerDies, progress
  <2>2. MutexType'
    BY <2>1 DEF MutexType, ThreadStates
  <2>3. NoThreadYet'
    BY <2>1 DEF MutexType, NoThreadYet
  <2>4. MutualExclusion'
    BY <2>1, DfsAssumption DEF MutexType, MutualExclusion
  <2> QED BY <2>2, <2>3, <2>4
<1> QED BY <1>1, <1>2

\* The states in which a thread has a chunk file open.
Open == {"put_write", "get_ready"}

\* What a step of a thread does to it and to the mutex: nothing that
\* matters, take the mutex and open the file, or close it and let go.
ThreadMove(s, c) ==
  /\ UNCHANGED <<cpc, srv>>
  /\ spc[s][c] # "none"
  /\ \E l \in ThreadStates \ {"none"} :
       /\ spc' = [spc EXCEPT ![s][c] = l]
       /\ \/ UNCHANGED lock /\ spc[s][c] \notin Open /\ l \notin Open
          \/ lock[s] = None /\ lock' = [lock EXCEPT ![s] = c] /\ l \in Open
          \/ spc[s][c] \in Open /\ lock' = [lock EXCEPT ![s] = None] /\ l \notin Open

LEMMA ThreadsMove ==
  ASSUME NEW s \in Server, NEW c \in Client, ThreadStep(s, c), MutexType
  PROVE  ThreadMove(s, c) \/ ServerDies(s)
<1> USE DEF ThreadMove, Open, ThreadStates, Goto, clientSide, progress
<1>1. CASE RecvPut(s, c) \/ PutAck(s, c) \/ RecvGet(s, c) \/ RecvDone(s, c)
  BY <1>1 DEF RecvPut, PutAck, RecvGet, RecvDone
<1>2. CASE PutOpen(s, c) \/ GetOpen(s, c)
  BY <1>2 DEF PutOpen, GetOpen
<1>3. CASE PutClose(s, c) \/ GetSend(s, c)
  <2>1. UNCHANGED <<cpc, srv>> /\ spc[s][c] \in Open /\ lock' = [lock EXCEPT ![s] = None]
    BY <1>3 DEF PutClose, GetSend
  <2>2. \E l \in {"put_ack", "recv"} : spc' = [spc EXCEPT ![s][c] = l]
    BY <1>3 DEF PutClose, GetSend
  <2> QED BY <2>1, <2>2
<1>4. CASE RecvGetNotFound(s, c) \/ RecvList(s, c)
  <2>1. UNCHANGED <<cpc, srv, spc, lock>> /\ spc[s][c] = "recv"
    BY <1>4 DEF RecvGetNotFound, RecvList, server
  <2>2. spc' = [spc EXCEPT ![s][c] = "recv"]
    BY <2>1 DEF MutexType
  <2> QED BY <2>1, <2>2
<1>5. CASE RecvError(s, c) \/ SendSigpipe(s, c)
  BY <1>5 DEF RecvError, SendSigpipe
<1> QED BY <1>1, <1>2, <1>3, <1>4, <1>5 DEF ThreadStep

LEMMA MutexThreads ==
  ASSUME MutexInv, NEW s \in Server, NEW c \in Client, ThreadStep(s, c)
  PROVE  MutexInv'
<1> USE DEF MutexInv
<1>1. CASE ServerDies(s)
  BY <1>1, MutexServers
<1>2. CASE ThreadMove(s, c)
  <2>1. PICK l \in ThreadStates \ {"none"} :
          /\ spc' = [spc EXCEPT ![s][c] = l]
          /\ \/ UNCHANGED lock /\ spc[s][c] \notin Open /\ l \notin Open
             \/ lock[s] = None /\ lock' = [lock EXCEPT ![s] = c] /\ l \in Open
             \/ spc[s][c] \in Open /\ lock' = [lock EXCEPT ![s] = None] /\ l \notin Open
    BY <1>2 DEF ThreadMove
  <2>2. UNCHANGED <<cpc, srv>> /\ spc[s][c] # "none"
    BY <1>2 DEF ThreadMove
  <2>3. MutexType'
    BY <2>1, <2>2 DEF MutexType
  <2>4. NoThreadYet'
    BY <2>1, <2>2 DEF MutexType, NoThreadYet
  <2>5. MutualExclusion'
    BY <2>1, DfsAssumption DEF MutexType, MutualExclusion, Open
  <2> QED BY <2>3, <2>4, <2>5
<1> QED BY <1>1, <1>2, ThreadsMove

LEMMA MutexStep == MutexInv /\ [Next]_vars => MutexInv'
<1> SUFFICES ASSUME MutexInv, [Next]_vars PROVE MutexInv'
  OBVIOUS
<1>1. CASE UNCHANGED vars
  BY <1>1 DEF vars, progress, server, MutexInv, MutexType, NoThreadYet, MutualExclusion
<1>2. ASSUME NEW c \in Client, ClientStep(c) \/ Kill(c) PROVE MutexInv'
  BY <1>2, MutexClients
<1>3. ASSUME NEW s \in Server, Crash(s) \/ Restart(s) PROVE MutexInv'
  BY <1>3, MutexServers DEF Crash
<1>4. ASSUME NEW s \in Server, NEW c \in Client, ThreadStep(s, c) PROVE MutexInv'
  BY <1>4, MutexThreads
<1> QED BY <1>1, <1>2, <1>3, <1>4 DEF Next

LEMMA MutexInvariant == Spec => []MutexInv
BY MutexInit, MutexStep, PTL DEF Spec

\* The mutex of a server is held exactly by the thread that has a chunk file
\* open, with any number of clients coming, dying and being killed, and
\* servers dying and being restarted.
THEOREM MutexSafe == Spec => []MutualExclusion
<1>1. MutexInv => MutualExclusion
  BY DEF MutexInv
<1> QED BY <1>1, MutexInvariant, PTL

(* ------------------------ the inductive invariant --------------------- *)

\* Beyond the types: what the loop variables of a client are good for in the
\* states in which they are used.
LoopInRange(c) ==
  /\ arg[c] >= 1
  /\ cpc[c] \in {"connect", "dispatch", "put_send", "put_ack"} =>
       srv[c] \in Server /\ pos[c] \in Which
  /\ cpc[c] \in {"get_size", "get_data", "list_names"} => srv[c] \in Server
  /\ cpc[c] \in {"put_send", "put_ack"} => ts[c] \in Stamp
  /\ cpc[c] \in {"put_ack", "get_size", "get_data"} => ~NoMoreArgs(c)
LoopsInRange == \A c \in Client : LoopInRange(c)

\* The path a thread works on is that of a file: one it is going to write,
\* or one that is there.
PathsInUse == \A s \in Server, c \in Client :
  /\ spc[s][c] = "put_lock" => cur[s][c] \in Path
  /\ spc[s][c] \in {"put_write", "get_lock", "get_ready"} =>
       cur[s][c] \in Path /\ disk[s][cur[s][c]] \in Present

TypeInv == TypeOK /\ LoopsInRange /\ PathsInUse

LEMMA TypeInit == Init => TypeInv
<1> SUFFICES ASSUME Init PROVE TypeInv
  OBVIOUS
<1> USE NAssumption, DfsAssumption DEF Init
<1>1. ClientType
  BY DEF ClientType, ClientStates, Running, Chunk
<1>2. MemoryType
  BY DEF MemoryType
<1>3. NetType
  BY DEF NetType, End
<1>4. ServerType
  BY DEF ServerType, ThreadStates
<1>5. EnvType /\ HistType
  BY DEF EnvType, HistType
<1>6. LoopsInRange
  BY DEF LoopsInRange, LoopInRange, Server, Which
<1>7. PathsInUse
  BY DEF PathsInUse
<1> QED BY <1>1, <1>2, <1>3, <1>4, <1>5, <1>6, <1>7 DEF TypeInv, TypeOK

(* ---------------------------- the file argument ------------------------ *)

LEMMA FileOfArg ==
  ASSUME NEW c \in Client, arg \in [Client -> Nat], arg[c] >= 1, ~NoMoreArgs(c)
  PROVE  F(c) \in File
BY DfsAssumption DEF F, NoMoreArgs

LEMMA PathOfPut ==
  ASSUME TypeInv, NEW c \in Client, cpc[c] = "put_send", ~NoMoreArgs(c)
  PROVE  PutPath(c) \in Path
<1>1. F(c) \in File
  BY FileOfArg DEF TypeInv, TypeOK, ClientType, LoopsInRange, LoopInRange
<1>2. HashOf[F(c)] \in Hash
  BY <1>1, DfsAssumption
<1>3. srv[c] \in Server /\ pos[c] \in Which /\ ts[c] \in Stamp
  BY DEF TypeInv, LoopsInRange, LoopInRange
<1>4. Slot(HashOf[F(c)], srv[c], pos[c]) \in Chunk
  BY <1>2, <1>3, SlotIsChunk
<1> QED BY <1>1, <1>3, <1>4 DEF PutPath, Path

(* ------------------------- the steps of a client ---------------------- *)

\* To show that the loop variables stay in range look at the client that
\* takes the step.
LEMMA LoopOfOne ==
  ASSUME LoopsInRange, NEW c \in Client, LoopInRange(c)',
         \A d \in Client \ {c} : /\ cpc'[d] = cpc[d] /\ arg'[d] = arg[d]
                               /\ srv'[d] = srv[d] /\ pos'[d] = pos[d] /\ ts'[d] = ts[d]
  PROVE  LoopsInRange'
BY DEF LoopsInRange, LoopInRange, NoMoreArgs

LEMMA NextFileType ==
  ASSUME ClientType, LoopsInRange, NEW c \in Client, NEW status, NEW parts,
         NextFile(c, status, parts), UNCHANGED ts
  PROVE  ClientType' /\ LoopsInRange'
<1>1. /\ cpc' = [cpc EXCEPT ![c] = "get_query"] /\ arg' = [arg EXCEPT ![c] = arg[c] + 1]
      /\ srv' = [srv EXCEPT ![c] = 1] /\ pos' = [pos EXCEPT ![c] = 1]
  BY DEF NextFile
<1>2. ClientType'
  BY <1>1, NAssumption DEF ClientType, ClientStates, Running, Chunk
<1>3. LoopInRange(c)'
  BY <1>1 DEF ClientType, LoopsInRange, LoopInRange
<1>4. LoopsInRange'
  BY <1>1, <1>3, LoopOfOne DEF ClientType
<1> QED BY <1>2, <1>4

LEMMA NextChunkType ==
  ASSUME ClientType, LoopsInRange, NEW c \in Client, NEW parts,
         NextChunk(c, parts), UNCHANGED ts
  PROVE  ClientType' /\ LoopsInRange'
<1>1. CASE pos[c] = N
  BY <1>1, NextFileType DEF NextChunk
<1>2. CASE pos[c] # N
  <2>1. /\ cpc' = [cpc EXCEPT ![c] = "get_query"] /\ UNCHANGED arg
        /\ srv' = [srv EXCEPT ![c] = 1] /\ pos' = [pos EXCEPT ![c] = pos[c] + 1]
    BY <1>2 DEF NextChunk
  <2>2. ClientType'
    BY <1>2, <2>1, NAssumption DEF ClientType, ClientStates, Running, Chunk
  <2>3. LoopInRange(c)'
    BY <2>1 DEF ClientType, LoopsInRange, LoopInRange
  <2>4. LoopsInRange'
    BY <2>1, <2>3, LoopOfOne DEF ClientType
  <2> QED BY <2>2, <2>4
<1> QED BY <1>1, <1>2

LEMMA PutAdvanceType ==
  ASSUME ClientType, LoopsInRange, NEW c \in Client, cpc[c] = "put_ack",
         PutAdvance(c), UNCHANGED ts
  PROVE  ClientType' /\ LoopsInRange'
<1>1. srv[c] \in Server /\ pos[c] \in Which /\ ts[c] \in Stamp /\ arg[c] >= 1
  BY DEF LoopsInRange, LoopInRange
<1>2. /\ cpc' = [cpc EXCEPT ![c] = "put_send"]
      /\ \E w \in Which : pos' = [pos EXCEPT ![c] = w]
      /\ \E s \in Server : srv' = [srv EXCEPT ![c] = s]
      /\ \E i \in {arg[c], arg[c] + 1} : arg' = [arg EXCEPT ![c] = i]
  <2>1. CASE pos[c] = 1
    <3>1. /\ cpc' = [cpc EXCEPT ![c] = "put_send"] /\ pos' = [pos EXCEPT ![c] = 2]
          /\ UNCHANGED <<arg, srv>>
      BY <2>1 DEF PutAdvance
    <3> QED BY <1>1, <3>1 DEF ClientType, Which
  <2>2. CASE pos[c] # 1 /\ srv[c] < N
    <3>1. /\ cpc' = [cpc EXCEPT ![c] = "put_send"] /\ pos' = [pos EXCEPT ![c] = 1]
          /\ srv' = [srv EXCEPT ![c] = srv[c] + 1] /\ UNCHANGED arg
      BY <2>2 DEF PutAdvance
    <3>2. srv[c] + 1 \in Server
      BY <1>1, <2>2, NAssumption DEF Server
    <3>3. arg' = [arg EXCEPT ![c] = arg[c]] /\ 1 \in Which
      BY <3>1 DEF ClientType, Which
    <3> QED BY <3>1, <3>2, <3>3
  <2>3. CASE pos[c] # 1 /\ ~(srv[c] < N)
    <3>1. /\ cpc' = [cpc EXCEPT ![c] = "put_send"] /\ pos' = [pos EXCEPT ![c] = 1]
          /\ srv' = [srv EXCEPT ![c] = 1] /\ arg' = [arg EXCEPT ![c] = arg[c] + 1]
      BY <2>3 DEF PutAdvance
    <3>2. 1 \in Which /\ 1 \in Server
      BY NAssumption DEF Which, Server
    <3> QED BY <3>1, <3>2
  <2> QED BY <2>1, <2>2, <2>3
<1>3. PICK w \in Which, s \in Server, i \in {arg[c], arg[c] + 1} :
        /\ pos' = [pos EXCEPT ![c] = w] /\ srv' = [srv EXCEPT ![c] = s]
        /\ arg' = [arg EXCEPT ![c] = i]
  BY <1>2
<1>4. ClientType'
  BY <1>2, <1>3, NAssumption
  DEF ClientType, ClientStates, Running, Chunk, Server, Which
<1>5. LoopInRange(c)'
  BY <1>1, <1>2, <1>3 DEF ClientType, LoopInRange
<1>6. LoopsInRange'
  BY <1>2, <1>3, <1>5, LoopOfOne DEF ClientType
<1> QED BY <1>4, <1>6

\* A step that leaves the loop variables alone and goes where they are good
\* for anything.
LEMMA JumpType ==
  ASSUME ClientType, LoopsInRange, NEW c \in Client, UNCHANGED <<arg, srv, pos, ts>>,
         NEW l \in ClientStates, cpc' = [cpc EXCEPT ![c] = l], LoopInRange(c)'
  PROVE  ClientType' /\ LoopsInRange'
<1>1. ClientType'
  BY DEF ClientType
<1>2. LoopsInRange'
  BY LoopOfOne DEF ClientType
<1> QED BY <1>1, <1>2

LEMMA SkipType ==
  ASSUME ClientType, LoopsInRange, NEW c \in Client, UNCHANGED <<arg, srv, pos, ts>>,
         NEW l \in ClientStates \ {"connect", "dispatch", "put_send", "put_ack", "get_size",
                                   "get_data", "list_names"},
         cpc' = [cpc EXCEPT ![c] = l]
  PROVE  ClientType' /\ LoopsInRange'
<1>1. LoopInRange(c)'
  BY DEF ClientType, LoopsInRange, LoopInRange
<1> QED BY <1>1, JumpType

LEMMA SrvType ==
  ASSUME ClientType, LoopsInRange, NEW c \in Client, UNCHANGED <<arg, pos, ts>>,
         NEW l \in {"get_query", "list_query"}, NEW i \in 1..(N+1),
         cpc' = [cpc EXCEPT ![c] = l], srv' = [srv EXCEPT ![c] = i]
  PROVE  ClientType' /\ LoopsInRange'
<1>1. ClientType'
  BY DEF ClientType, ClientStates, Running
<1>2. LoopInRange(c)'
  BY DEF ClientType, LoopsInRange, LoopInRange
<1>3. LoopsInRange'
  BY <1>2, LoopOfOne DEF ClientType
<1> QED BY <1>1, <1>3

LEMMA ClientsInRange ==
  ASSUME TypeInv, NEW c \in Client, ClientStep(c) \/ Kill(c)
  PROVE  ClientType' /\ LoopsInRange'
<1>0. ClientType /\ LoopsInRange /\ LoopInRange(c) /\ MemoryType
  BY DEF TypeInv, TypeOK, LoopsInRange
<1> USE <1>0
<1>1. CASE Connect(c)
  <2>1. /\ srv[c] \in Server /\ pos[c] \in Which /\ arg[c] >= 1
        /\ UNCHANGED <<arg, pos, ts>>
        /\ \/ /\ srv[c] < N /\ srv' = [srv EXCEPT ![c] = srv[c] + 1] /\ UNCHANGED cpc
           \/ /\ srv' = [srv EXCEPT ![c] = 1] /\ cpc' = [cpc EXCEPT ![c] = "dispatch"]
        /\ cpc[c] = "connect"
    BY <1>1 DEF Connect, LoopInRange
  <2>2. /\ \E s \in Server : srv' = [srv EXCEPT ![c] = s]
        /\ \E l \in {"connect", "dispatch"} : cpc' = [cpc EXCEPT ![c] = l]
    BY <2>1, NAssumption DEF Server, ClientType
  <2>3. PICK s \in Server, l \in {"connect", "dispatch"} :
          srv' = [srv EXCEPT ![c] = s] /\ cpc' = [cpc EXCEPT ![c] = l]
    BY <2>2
  <2>4. ClientType'
    BY <2>1, <2>3, NAssumption DEF ClientType, ClientStates, Running, Server
  <2>5. LoopInRange(c)'
    BY <2>1, <2>3 DEF ClientType, LoopInRange
  <2> QED BY <2>1, <2>3, <2>4, <2>5, LoopOfOne DEF ClientType
<1>2. CASE PutRefused(c) \/ GetStart(c) \/ ListStart(c)
  BY <1>2, SkipType DEF PutRefused, GetStart, ListStart, memory, ClientStates, Running
<1>3. CASE PutStart(c)
  <2>1. PICK t \in Stamp : ts' = [ts EXCEPT ![c] = t]
    BY <1>3 DEF PutStart
  <2>2. /\ srv[c] \in Server /\ pos[c] \in Which /\ arg[c] >= 1
        /\ cpc' = [cpc EXCEPT ![c] = "put_send"] /\ UNCHANGED <<arg, srv, pos>>
    BY <1>3 DEF PutStart, LoopInRange
  <2>3. ClientType'
    BY <2>2 DEF ClientType, ClientStates, Running
  <2>4. LoopInRange(c)'
    BY <2>1, <2>2 DEF ClientType, LoopInRange, MemoryType
  <2> QED BY <2>1, <2>2, <2>3, <2>4, LoopOfOne DEF ClientType, MemoryType
<1>4. CASE PutSkip(c)
  <2>1. /\ cpc[c] = "put_send" /\ arg' = [arg EXCEPT ![c] = arg[c] + 1]
        /\ UNCHANGED <<cpc, srv, pos, ts>>
    BY <1>4 DEF PutSkip
  <2>2. ClientType'
    BY <2>1 DEF ClientType
  <2>3. LoopInRange(c)'
    BY <2>1 DEF ClientType, LoopInRange
  <2> QED BY <2>1, <2>2, <2>3, LoopOfOne DEF ClientType
<1>5. CASE PutSend(c)
  <2>1. /\ cpc' = [cpc EXCEPT ![c] = "put_ack"] /\ UNCHANGED <<arg, srv, pos, ts>>
        /\ cpc[c] = "put_send" /\ ~NoMoreArgs(c)
    BY <1>5 DEF PutSend, memory
  <2>2. LoopInRange(c)'
    BY <2>1 DEF ClientType, LoopInRange, NoMoreArgs
  <2> QED BY <2>1, <2>2, JumpType DEF ClientStates, Running
<1>6. CASE PutAcked(c) \/ PutEof(c)
  BY <1>6, PutAdvanceType DEF PutAcked, PutEof
<1>7. CASE PutSendDies(c) \/ GetQueryDies(c) \/ GetDataFails(c) \/ ListFailsDies(c)
  BY <1>7, SkipType DEF PutSendDies, GetQueryDies, GetDataFails, ListFailsDies, Dies,
     memory, ClientStates, Running
<1>8. CASE GetQuery(c) \/ ListQuery(c)
  <2>1. PICK s \in Server : srv' = [srv EXCEPT ![c] = s]
    BY <1>8 DEF GetQuery, ListQuery
  <2>2. PICK l \in {"get_size", "list_names"} :
          /\ cpc' = [cpc EXCEPT ![c] = l]
          /\ l = "get_size" => ~NoMoreArgs(c)
    BY <1>8 DEF GetQuery, ListQuery
  <2>3. UNCHANGED <<arg, pos, ts>>
    BY <1>8 DEF GetQuery, ListQuery, memory
  <2>4. ClientType'
    BY <2>1, <2>2, <2>3, NAssumption DEF ClientType, ClientStates, Running, Server
  <2>5. LoopInRange(c)'
    BY <2>1, <2>2, <2>3 DEF ClientType, LoopInRange, NoMoreArgs
  <2> QED BY <2>1, <2>2, <2>3, <2>4, <2>5, LoopOfOne DEF ClientType
<1>9. CASE GetMissing(c)
  BY <1>9, NextFileType DEF GetMissing
<1>10. CASE GetJunk(c)
  BY <1>10, NextChunkType DEF GetJunk
<1>11. CASE GetData(c)
  BY <1>11, NextChunkType DEF GetData
<1>12. CASE GetReady(c)
  <2>1. /\ cpc' = [cpc EXCEPT ![c] = "get_data"] /\ UNCHANGED <<arg, srv, pos, ts>>
        /\ cpc[c] = "get_size"
    BY <1>12 DEF GetReady, memory
  <2>2. LoopInRange(c)'
    BY <2>1 DEF ClientType, LoopInRange, NoMoreArgs
  <2> QED BY <2>1, <2>2, JumpType DEF ClientStates, Running
<1>13. CASE GetNot(c) \/ GetFails(c) \/ ListAnswered(c) \/ ListFails(c)
  <2>1. /\ srv[c] \in Server /\ srv' = [srv EXCEPT ![c] = srv[c] + 1]
        /\ UNCHANGED <<arg, pos, ts>>
    BY <1>13 DEF GetNot, GetFails, ListAnswered, ListFails, LoopInRange, memory
  <2>2. \E l \in {"get_query", "list_query"} : cpc' = [cpc EXCEPT ![c] = l]
    BY <1>13 DEF GetNot, GetFails, ListAnswered, ListFails
  <2>3. srv[c] + 1 \in 1..(N+1)
    BY <2>1, NAssumption DEF Server
  <2> QED BY <2>1, <2>2, <2>3, SrvType
<1>14. CASE ListShow(c) \/ Finish(c) \/ Kill(c) \/ PutFails(c) \/ GetDataForEver(c)
  <2>1. UNCHANGED <<arg, srv, pos, ts>>
    BY <1>14 DEF ListShow, Finish, Kill, PutFails, GetDataForEver, memory
  <2>2. \E l \in {"done", "exited", "killed", "wedged"} : cpc' = [cpc EXCEPT ![c] = l]
    BY <1>14 DEF ListShow, Finish, Kill, PutFails, GetDataForEver
  <2> QED BY <2>1, <2>2, SkipType DEF ClientStates, Running
<1> QED BY <1>1, <1>2, <1>3, <1>4, <1>5, <1>6, <1>7, <1>8, <1>9, <1>10, <1>11, <1>12,
           <1>13, <1>14 DEF ClientStep

(* --------------------- what a client remembers ------------------------ *)

\* What a result that is reported adds.
LEMMA ReportType ==
  ASSUME MemoryType, NEW c \in Client, NEW r \in Outcome,
         result' = [result EXCEPT ![c] = @ \cup {r}]
  PROVE  result' \in [Client -> SUBSET Outcome]
BY DEF MemoryType

LEMMA OutcomeType ==
  ASSUME TypeInv, NEW c \in Client, ~NoMoreArgs(c), NEW parts \in Seq(Piece),
         NEW status \in {"no file", "stored", "timeout", "success", "incomplete"}
  PROVE  [arg |-> arg[c], file |-> F(c), status |-> status, parts |-> parts] \in Outcome
<1>1. F(c) \in File /\ arg[c] \in Nat
  BY FileOfArg DEF TypeInv, TypeOK, ClientType, LoopsInRange, LoopInRange
<1> QED BY <1>1 DEF Outcome

LEMMA NoPieces == <<>> \in Seq(Piece)
OBVIOUS

LEMMA ReportedType ==
  ASSUME TypeInv, NEW c \in Client, ~NoMoreArgs(c),
         NEW status \in {"no file", "stored", "timeout"}, Report(c, status)
  PROVE  result' \in [Client -> SUBSET Outcome]
<1> DEFINE r == [arg |-> arg[c], file |-> F(c), status |-> status, parts |-> <<>>]
<1>1. r \in Outcome
  BY OutcomeType, NoPieces
<1>2. result' = [result EXCEPT ![c] = @ \cup {r}]
  BY DEF Report
<1> HIDE DEF r
<1> QED BY <1>1, <1>2, ReportType DEF TypeInv, TypeOK

LEMMA FileMemory ==
  ASSUME TypeInv, NEW c \in Client, ~NoMoreArgs(c), NEW parts \in Seq(Piece),
         NEW status \in {"success", "incomplete"}, NextFile(c, status, parts),
         UNCHANGED <<live, names, ts>>
  PROVE  MemoryType'
<1> USE DEF TypeInv, TypeOK
<1>1. result' \in [Client -> SUBSET Outcome]
  BY OutcomeType, ReportType DEF NextFile
<1> QED BY <1>1 DEF NextFile, MemoryType

LEMMA ChunkMemory ==
  ASSUME TypeInv, NEW c \in Client, ~NoMoreArgs(c), NEW parts \in Seq(Piece),
         NextChunk(c, parts), UNCHANGED <<live, names, ts>>
  PROVE  MemoryType'
<1>1. CASE pos[c] = N
  BY <1>1, FileMemory DEF NextChunk
<1>2. CASE pos[c] # N
  BY <1>2 DEF NextChunk, MemoryType, TypeInv, TypeOK
<1> QED BY <1>1, <1>2

\* The head of what has come from a server is a message of it.
LEMMA MessageOfServer ==
  ASSUME NetType, NEW c \in Client, NEW s \in Server, Arrived(c, s)
  PROVE  Head(s2c[c][s]) \in S2C
BY DEF NetType, Arrived

LEMMA PieceType ==
  ASSUME NEW m \in S2C, m.t = "data"
  PROVE  [path |-> m.path, ver |-> m.ver, st |-> m.st] \in Piece
BY DEF S2C, Piece

LEMMA NamesType ==
  ASSUME NEW m \in S2C, m.t = "names"
  PROVE  m.names \in SUBSET Path
BY DEF S2C

LEMMA ClientsMemory ==
  ASSUME TypeInv, NEW c \in Client, ClientStep(c) \/ Kill(c)
  PROVE  MemoryType'
<1>0. MemoryType /\ ClientType /\ NetType /\ LoopInRange(c)
  BY DEF TypeInv, TypeOK, LoopsInRange
<1>1. CASE Connect(c)
  <2>1. up \in [Server -> BOOLEAN] /\ srv[c] \in Server
    BY <1>0, <1>1 DEF TypeInv, TypeOK, ServerType, Connect, LoopInRange
  <2> QED BY <1>0, <1>1, <2>1 DEF Connect, MemoryType
<1>2. CASE PutRefused(c)
  <2>1. DOMAIN Job[c].files \subseteq Nat
        /\ \A i \in DOMAIN Job[c].files : Job[c].files[i] \in File
    BY DfsAssumption
  <2>2. \A i \in DOMAIN Job[c].files : [arg |-> i, file |-> Job[c].files[i],
          status |-> "refused", parts |-> <<>>] \in Outcome
    BY <2>1 DEF Outcome
  <2> QED BY <1>0, <1>2, <2>2 DEF PutRefused, MemoryType
<1>3. CASE PutStart(c)
  BY <1>0, <1>3 DEF PutStart, MemoryType
<1>4. CASE GetStart(c) \/ ListStart(c) \/ PutSend(c) \/ GetQuery(c) \/ GetReady(c)
           \/ GetDataForEver(c) \/ ListQuery(c) \/ ListFails(c) \/ Finish(c) \/ Kill(c)
  BY <1>0, <1>4 DEF GetStart, ListStart, PutSend, GetQuery, GetReady, GetDataForEver,
     ListQuery, ListFails, Finish, Kill, memory, MemoryType
<1>5. CASE PutSkip(c) \/ PutFails(c)
  <2>1. ~NoMoreArgs(c)
    BY <1>0, <1>5 DEF PutSkip, PutFails, LoopInRange
  <2>2. \E status \in {"no file", "timeout"} : Report(c, status)
    BY <1>5 DEF PutSkip, PutFails
  <2>3. result' \in [Client -> SUBSET Outcome]
    BY <2>1, <2>2, ReportedType
  <2> QED BY <1>0, <1>5, <2>3 DEF PutSkip, PutFails, MemoryType
<1>6. CASE PutSendDies(c) \/ GetQueryDies(c) \/ GetDataFails(c) \/ ListFailsDies(c)
  BY <1>0, <1>6 DEF PutSendDies, GetQueryDies, GetDataFails, ListFailsDies, Dies,
     memory, MemoryType
<1>7. CASE PutAcked(c) \/ PutEof(c)
  <2>1. ~NoMoreArgs(c) /\ PutAdvance(c) /\ UNCHANGED <<live, got, local, names, ts>>
    BY <1>0, <1>7 DEF PutAcked, PutEof, LoopInRange
  <2>2. UNCHANGED result \/ Report(c, "stored")
    BY <2>1 DEF PutAdvance
  <2>3. result' \in [Client -> SUBSET Outcome]
    BY <1>0, <2>1, <2>2, ReportedType DEF MemoryType
  <2> QED BY <1>0, <2>1, <2>3 DEF MemoryType
<1>8. CASE GetMissing(c)
  BY <1>8, FileMemory, NoPieces DEF GetMissing
<1>9. CASE GetJunk(c)
  BY <1>0, <1>9, ChunkMemory DEF GetJunk, MemoryType
<1>10. CASE GetData(c)
  <2>1. ~NoMoreArgs(c) /\ srv[c] \in Server
    BY <1>0, <1>10 DEF GetData, LoopInRange
  <2> DEFINE m == Head(s2c[c][srv[c]])
             piece == [path |-> m.path, ver |-> m.ver, st |-> m.st]
  <2>2. m \in S2C /\ m.t = "data"
    BY <1>0, <1>10, <2>1, MessageOfServer DEF GetData
  <2>3. piece \in Piece
    BY <2>2, PieceType
  <2>4. local[c] \in Seq(Piece)
    BY <1>0 DEF MemoryType
  <2>5. Append(local[c], piece) \in Seq(Piece)
    BY <2>3, <2>4
  <2>6. NextChunk(c, Append(local[c], piece)) /\ UNCHANGED <<live, names, ts>>
    BY <1>10 DEF GetData
  <2> QED BY <2>1, <2>5, <2>6, ChunkMemory
<1>11. CASE GetNot(c)
  BY <1>0, <1>11 DEF GetNot, MemoryType
<1>12. CASE GetFails(c)
  <2>1. srv[c] \in Server
    BY <1>0, <1>12 DEF GetFails, LoopInRange
  <2> QED BY <1>0, <1>12, <2>1 DEF GetFails, MemoryType
<1>13. CASE ListAnswered(c)
  <2>1. srv[c] \in Server
    BY <1>0, <1>13 DEF ListAnswered, LoopInRange
  <2>2. CASE UNCHANGED names
    BY <1>0, <1>13, <2>2 DEF ListAnswered, MemoryType
  <2>3. CASE /\ Arrived(c, srv[c]) /\ Head(s2c[c][srv[c]]).t = "names"
             /\ names' = [names EXCEPT ![c] = @ \cup Head(s2c[c][srv[c]]).names]
    <3>1. Head(s2c[c][srv[c]]).names \in SUBSET Path
      BY <1>0, <2>1, <2>3, MessageOfServer, NamesType
    <3> QED BY <1>0, <1>13, <2>3, <3>1 DEF ListAnswered, MemoryType
  <2> QED BY <1>13, <2>2, <2>3 DEF ListAnswered
<1>14. CASE ListShow(c)
  <2>1. \A p \in names[c] : p.file \in File
    BY <1>0 DEF MemoryType, Path
  <2>2. \A f \in {p.file : p \in names[c]}, status \in {"complete", "[Incomplete]"} :
          [arg |-> 0, file |-> f, status |-> status, parts |-> <<>>] \in Outcome
    <3> TAKE f \in {p.file : p \in names[c]}, status \in {"complete", "[Incomplete]"}
    <3>1. f \in File /\ 0 \in Nat
      BY <2>1
    <3> QED BY <3>1, NoPieces DEF Outcome
  <2> DEFINE full(f) == \A k \in Chunk : \E p \in names[c] : p.file = f /\ p.chunk = k
             R == {[arg |-> 0, file |-> f, status |-> IF full(f) THEN "complete" ELSE "[Incomplete]",
                    parts |-> <<>>] : f \in {p.file : p \in names[c]}}
  <2>3. R \in SUBSET Outcome
    <3> SUFFICES ASSUME NEW f \in {p.file : p \in names[c]}
                 PROVE  [arg |-> 0, file |-> f,
                         status |-> IF full(f) THEN "complete" ELSE "[Incomplete]",
                         parts |-> <<>>] \in Outcome
      OBVIOUS
    <3> QED BY <2>2
  <2>4. result' = [result EXCEPT ![c] = R] /\ UNCHANGED <<live, got, local, names, ts>>
    BY <1>14 DEF ListShow
  <2> HIDE DEF R
  <2> QED BY <1>0, <2>3, <2>4 DEF MemoryType
<1> QED BY <1>1, <1>2, <1>3, <1>4, <1>5, <1>6, <1>7, <1>8, <1>9, <1>10, <1>11, <1>12,
           <1>13, <1>14 DEF ClientStep

(* ---------------- connections, as the client uses them ---------------- *)

LEMMA SendsType ==
  ASSUME NetType, NEW c \in Client, NEW s \in Server, NEW units \in Seq(C2S),
         ClientSends(c, s, units)
  PROVE  /\ c2s' \in [Client -> [Server -> Seq(C2S)]]
         /\ serverEnd' \in [Client -> [Server -> End]]
<1>1. c2s[c][s] \o units \in Seq(C2S)
  BY DEF NetType
<1>2. c2s' \in [Client -> [Server -> Seq(C2S)]]
  BY <1>1 DEF NetType, ClientSends
<1>3. serverEnd' \in [Client -> [Server -> End]]
  BY DEF NetType, ClientSends, End
<1> QED BY <1>2, <1>3

LEMMA ReceiveType ==
  ASSUME NetType, NEW c \in Client, NEW s \in Server, Arrived(c, s), Receive(c, s)
  PROVE  s2c' \in [Client -> [Server -> Seq(S2C)]]
<1>1. Tail(s2c[c][s]) \in Seq(S2C)
  BY DEF NetType, Arrived
<1> QED BY <1>1 DEF NetType, Receive

LEMMA CloseType ==
  ASSUME NetType, NEW c \in Client, CloseAll(c)
  PROVE  /\ clientEnd' \in [Client -> [Server -> End]]
         /\ s2c' \in [Client -> [Server -> Seq(S2C)]]
BY DEF NetType, CloseAll, End

LEMMA UnitsType ==
  ASSUME TypeInv, NEW c \in Client, cpc[c] = "put_send", ~NoMoreArgs(c)
  PROVE  PutUnits(c, PutPath(c)) \in Seq(C2S)
<1>1. [t |-> "put", path |-> PutPath(c)] \in C2S
  BY PathOfPut DEF C2S
<1>2. [t |-> "rest"] \in C2S
  BY DEF C2S
<1> QED BY <1>1, <1>2 DEF PutUnits

LEMMA QueryType ==
  ASSUME TypeInv, NEW c \in Client, ~NoMoreArgs(c)
  PROVE  <<[t |-> "get", file |-> F(c), chunk |-> pos[c]]>> \in Seq(C2S)
<1>1. F(c) \in File /\ pos[c] \in Chunk
  BY FileOfArg DEF TypeInv, TypeOK, ClientType, LoopsInRange, LoopInRange
<1>2. [t |-> "get", file |-> F(c), chunk |-> pos[c]] \in C2S
  BY <1>1 DEF C2S
<1> QED BY <1>2

LEMMA WordsType ==
  ASSUME NEW w \in {"rest", "ready", "list", "done"}
  PROVE  [t |-> w] \in C2S /\ <<[t |-> w]>> \in Seq(C2S)
<1>1. [t |-> w] \in C2S
  BY DEF C2S
<1> QED BY <1>1

LEMMA ClientsNet ==
  ASSUME TypeInv, NEW c \in Client, ClientStep(c) \/ Kill(c)
  PROVE  NetType'
<1>0. NetType /\ LoopInRange(c)
  BY DEF TypeInv, TypeOK, LoopsInRange
<1>1. CASE UNCHANGED net
  BY <1>0, <1>1 DEF net, NetType
<1>2. CASE PutRefused(c) \/ PutFails(c)
  BY <1>0, <1>2, CloseType DEF PutRefused, PutFails, NetType
<1>3. CASE PutSend(c)
  <2>1. srv[c] \in Server
    BY <1>0, <1>3 DEF PutSend, LoopInRange
  <2> QED BY <1>0, <1>3, <2>1, UnitsType, SendsType DEF PutSend, NetType
<1>4. CASE Dies(c)
  BY <1>0, <1>4, CloseType DEF Dies, NetType
<1>5. CASE PutAcked(c) \/ GetData(c)
  <2>1. srv[c] \in Server
    BY <1>0, <1>5 DEF PutAcked, GetData, LoopInRange
  <2> QED BY <1>0, <1>5, <2>1, ReceiveType DEF PutAcked, GetData, NetType
<1>6. CASE GetQuery(c)
  <2>1. PICK s \in Server : ClientSends(c, s, <<[t |-> "get", file |-> F(c), chunk |-> pos[c]]>>)
    BY <1>6 DEF GetQuery
  <2>2. ~NoMoreArgs(c) /\ UNCHANGED <<s2c, clientEnd>>
    BY <1>6 DEF GetQuery
  <2> QED BY <1>0, <2>1, <2>2, QueryType, SendsType DEF NetType
<1>7. CASE ListQuery(c)
  <2>1. PICK s \in Server : ClientSends(c, s, <<[t |-> "list"]>>)
    BY <1>7 DEF ListQuery
  <2> QED BY <1>0, <1>7, <2>1, WordsType, SendsType DEF ListQuery, NetType
<1>8. CASE GetReady(c)
  <2>1. srv[c] \in Server
    BY <1>0, <1>8 DEF GetReady, LoopInRange
  <2> QED BY <1>0, <1>8, <2>1, ReceiveType, WordsType, SendsType DEF GetReady, NetType
<1>9. CASE GetNot(c) \/ ListAnswered(c)
  <2>1. srv[c] \in Server /\ UNCHANGED <<c2s, clientEnd, serverEnd>>
    BY <1>0, <1>9 DEF GetNot, ListAnswered, LoopInRange
  <2>2. (Arrived(c, srv[c]) /\ Receive(c, srv[c])) \/ UNCHANGED s2c
    BY <1>9 DEF GetNot, ListAnswered
  <2> QED BY <1>0, <2>1, <2>2, ReceiveType DEF NetType
<1>10. CASE Finish(c)
  <2>1. PICK cut \in 1..(N+1) :
          c2s' = [c2s EXCEPT ![c] = [s \in Server |->
            IF s < cut /\ live[c][s] /\ serverEnd[c][s] = "open"
            THEN Append(c2s[c][s], [t |-> "done"]) ELSE c2s[c][s]]]
    BY <1>10 DEF Finish
  <2>2. \A s \in Server : Append(c2s[c][s], [t |-> "done"]) \in Seq(C2S)
    BY <1>0, WordsType DEF NetType
  <2>3. c2s' \in [Client -> [Server -> Seq(C2S)]]
    BY <1>0, <2>1, <2>2 DEF NetType
  <2> QED BY <1>0, <1>10, <2>3, CloseType DEF Finish, NetType
<1>11. CASE Kill(c)
  <2>1. CASE UNCHANGED c2s
    BY <1>0, <1>11, <2>1, CloseType DEF Kill, NetType
  <2>2. CASE /\ cpc[c] = "put_ack" /\ c2s[c][srv[c]] # <<>>
             /\ c2s' = [c2s EXCEPT ![c][srv[c]] =
                         SubSeq(c2s[c][srv[c]], 1, Len(c2s[c][srv[c]]) - 1)]
    <3>1. srv[c] \in Server
      BY <1>0, <2>2 DEF LoopInRange
    <3>2. SubSeq(c2s[c][srv[c]], 1, Len(c2s[c][srv[c]]) - 1) \in Seq(C2S)
      BY <1>0, <2>2, <3>1 DEF NetType
    <3>3. c2s' \in [Client -> [Server -> Seq(C2S)]]
      BY <1>0, <2>2, <3>1, <3>2 DEF NetType
    <3> QED BY <1>0, <1>11, <3>3, CloseType DEF Kill, NetType
  <2> QED BY <1>11, <2>1, <2>2 DEF Kill
<1>12. \/ UNCHANGED net \/ PutRefused(c) \/ PutFails(c) \/ PutSend(c) \/ Dies(c)
       \/ PutAcked(c) \/ GetData(c) \/ GetQuery(c) \/ ListQuery(c) \/ GetReady(c)
       \/ GetNot(c) \/ ListAnswered(c) \/ Finish(c) \/ Kill(c)
  BY DEF ClientStep, Connect, PutStart, GetStart, ListStart, PutSkip, PutSendDies,
     PutEof, GetQueryDies, GetMissing, GetJunk, GetFails, GetDataFails, GetDataForEver,
     ListFails, ListFailsDies, ListShow
<1> QED BY <1>1, <1>2, <1>3, <1>4, <1>5, <1>6, <1>7, <1>8, <1>9, <1>10, <1>11, <1>12

(* ------------- counters, history, and the servers' side --------------- *)

LEMMA RecvFailsType ==
  ASSUME EnvType, NEW c \in Client, NEW s \in Server, RecvFails(c, s)
  PROVE  EnvType'
BY DfsAssumption DEF RecvFails, EnvType

LEMMA ClientsEnv ==
  ASSUME TypeInv, NEW c \in Client, ClientStep(c) \/ Kill(c)
  PROVE  EnvType' /\ HistType'
<1>0. EnvType /\ HistType /\ LoopInRange(c)
  BY DEF TypeInv, TypeOK, LoopsInRange
<1>1. EnvType'
  <2>1. CASE UNCHANGED env
    BY <1>0, <2>1 DEF env, EnvType
  <2>2. CASE PutStart(c)
    <3>1. clock' \in 0..MaxStamp /\ UNCHANGED <<slow, crashes, restarts, kills>>
      BY <2>2, DfsAssumption DEF PutStart, Stamp
    <3> QED BY <1>0, <3>1 DEF EnvType
  <2>3. CASE Kill(c)
    BY <1>0, <2>3, DfsAssumption DEF Kill, EnvType
  <2>4. CASE RecvFails(c, srv[c]) /\ cpc[c] \in {"put_ack", "get_size", "get_data", "list_names"}
    BY <1>0, <2>4, RecvFailsType DEF LoopInRange
  <2>5. \/ UNCHANGED env \/ PutStart(c) \/ Kill(c)
        \/ RecvFails(c, srv[c]) /\ cpc[c] \in {"put_ack", "get_size", "get_data", "list_names"}
    BY DEF ClientStep, Connect, PutRefused, GetStart, ListStart, PutSkip, PutSend,
       PutSendDies, PutAcked, PutEof, PutFails, GetQuery, GetQueryDies, GetMissing,
       GetJunk, GetReady, GetNot, GetFails, GetData, GetDataFails, GetDataForEver,
       ListQuery, ListAnswered, ListFails, ListFailsDies, ListShow, Finish
  <2> QED BY <2>1, <2>2, <2>3, <2>4, <2>5
<1>2. HistType'
  <2>1. CASE UNCHANGED hist
    BY <1>0, <2>1 DEF hist, HistType
  <2>2. CASE PutEof(c)
    BY <1>0, <2>2 DEF PutEof, HistType
  <2>3. CASE GetStart(c) \/ ListStart(c)
    <3>1. CompletePuts \in SUBSET (File \X Stamp)
      BY DEF CompletePuts
    <3> QED BY <1>0, <2>3, <3>1 DEF GetStart, ListStart, HistType
  <2>4. UNCHANGED hist \/ PutEof(c) \/ GetStart(c) \/ ListStart(c)
    BY DEF ClientStep, Connect, PutRefused, PutStart, PutSkip, PutSend,
       PutSendDies, PutAcked, PutFails, GetQuery, GetQueryDies, GetMissing,
       GetJunk, GetReady, GetNot, GetFails, GetData, GetDataFails, GetDataForEver,
       ListQuery, ListAnswered, ListFails, ListFailsDies, ListShow, Finish, Kill, Dies
  <2> QED BY <2>1, <2>2, <2>3, <2>4
<1> QED BY <1>1, <1>2

LEMMA ClientsServers ==
  ASSUME TypeInv, NEW c \in Client, ClientStep(c) \/ Kill(c)
  PROVE  ServerType' /\ PathsInUse'
<1>0. ServerType /\ PathsInUse /\ LoopInRange(c)
  BY DEF TypeInv, TypeOK, LoopsInRange
<1>1. CASE Connect(c)
  <2>1. srv[c] \in Server
    BY <1>0, <1>1 DEF Connect, LoopInRange
  <2>2. UNCHANGED <<up, lock, cur, disk>>
    BY <1>1 DEF Connect
  <2>3. CASE UNCHANGED spc
    BY <1>0, <2>2, <2>3 DEF ServerType, PathsInUse
  <2>4. CASE spc' = [spc EXCEPT ![srv[c]][c] = "recv"]
    <3>1. ServerType'
      BY <1>0, <2>1, <2>2, <2>4 DEF ServerType, ThreadStates
    <3>2. PathsInUse'
      BY <1>0, <2>1, <2>2, <2>4 DEF ServerType, PathsInUse
    <3> QED BY <3>1, <3>2
  <2> QED BY <1>1, <2>3, <2>4 DEF Connect
<1>2. CASE ~Connect(c)
  BY <1>0, <1>2, ClientsLeaveThreads DEF ServerType, PathsInUse
<1> QED BY <1>1, <1>2

LEMMA TypeClients ==
  ASSUME TypeInv, NEW c \in Client, ClientStep(c) \/ Kill(c)
  PROVE  TypeInv'
BY ClientsInRange, ClientsMemory, ClientsNet, ClientsEnv, ClientsServers
DEF TypeInv, TypeOK

(* ------------------------ the steps of a server ----------------------- *)

\* They leave alone what is the clients'.
LEMMA ServersLeaveClients ==
  ASSUME TypeInv, UNCHANGED <<progress, memory>>
  PROVE  ClientType' /\ MemoryType' /\ LoopsInRange'
<1>1. UNCHANGED <<cpc, arg, srv, pos, live, got, local, names, ts, result>>
  BY DEF progress, memory
<1> QED BY <1>1 DEF TypeInv, TypeOK, ClientType, MemoryType, LoopsInRange, LoopInRange,
           NoMoreArgs

LEMMA TypeDeath ==
  ASSUME TypeInv, NEW s \in Server, ServerDies(s), crashes' \in 0..MaxCrash
  PROVE  TypeInv'
<1> USE DEF ServerDies
<1>0. NetType /\ ServerType /\ EnvType /\ HistType /\ PathsInUse
  BY DEF TypeInv, TypeOK
<1>1. ClientType' /\ MemoryType' /\ LoopsInRange'
  BY ServersLeaveClients
<1>2. NetType'
  <2>1. c2s' \in [Client -> [Server -> Seq(C2S)]]
    BY <1>0 DEF NetType
  <2>2. serverEnd' \in [Client -> [Server -> End]]
    BY <1>0 DEF NetType, End
  <2> QED BY <1>0, <2>1, <2>2 DEF NetType
<1>3. ServerType'
  <2>1. PICK torn \in {"empty", "part"} :
          disk' = [disk EXCEPT ![s] = [p \in Path |->
            IF \E c \in Client : spc[s][c] = "put_write" /\ cur[s][c] = p
            THEN [ver |-> disk[s][p].ver, st |-> torn] ELSE disk[s][p]]]
    OBVIOUS
  <2>2. ASSUME NEW p \in Path, NEW c \in Client, spc[s][c] = "put_write", cur[s][c] = p
        PROVE  [ver |-> disk[s][p].ver, st |-> torn] \in Present
    BY <1>0, <2>2 DEF PathsInUse, Present
  <2>3. disk' \in [Server -> [Path -> Present \cup {Absent}]]
    BY <1>0, <2>1, <2>2 DEF ServerType
  <2> QED BY <1>0, <2>3 DEF ServerType, ThreadStates
<1>4. EnvType' /\ HistType'
  BY <1>0 DEF EnvType, HistType
<1>5. PathsInUse'
  BY <1>0 DEF PathsInUse, ServerType
<1> QED BY <1>1, <1>2, <1>3, <1>4, <1>5 DEF TypeInv, TypeOK

LEMMA TypeServers ==
  ASSUME TypeInv, NEW s \in Server, Crash(s) \/ Restart(s)
  PROVE  TypeInv'
<1>0. EnvType
  BY DEF TypeInv, TypeOK
<1>1. CASE Crash(s)
  BY <1>0, <1>1, TypeDeath, DfsAssumption DEF Crash, EnvType
<1>2. CASE Restart(s)
  <2>1. ClientType' /\ MemoryType' /\ LoopsInRange'
    BY <1>2, ServersLeaveClients DEF Restart
  <2>2. NetType' /\ HistType'
    BY <1>2 DEF Restart, net, hist, NetType, HistType, TypeInv, TypeOK
  <2>3. ServerType' /\ PathsInUse'
    BY <1>2 DEF Restart, ServerType, PathsInUse, TypeInv, TypeOK
  <2>4. EnvType'
    BY <1>0, <1>2, DfsAssumption DEF Restart, EnvType
  <2> QED BY <2>1, <2>2, <2>3, <2>4 DEF TypeInv, TypeOK
<1> QED BY <1>1, <1>2

(* -------------------------- the steps of a thread --------------------- *)

LEMMA TakesType ==
  ASSUME NetType, NEW s \in Server, NEW c \in Client, c2s[c][s] # <<>>, Takes(s, c)
  PROVE  c2s' \in [Client -> [Server -> Seq(C2S)]]
<1>1. Tail(c2s[c][s]) \in Seq(C2S)
  BY DEF NetType
<1> QED BY <1>1 DEF NetType, Takes

LEMMA RepliesType ==
  ASSUME NetType, NEW s \in Server, NEW c \in Client, NEW units \in Seq(S2C),
         Reply(s, c, units)
  PROVE  /\ s2c' \in [Client -> [Server -> Seq(S2C)]]
         /\ clientEnd' \in [Client -> [Server -> End]]
<1>1. s2c[c][s] \o units \in Seq(S2C)
  BY DEF NetType
<1>2. s2c' \in [Client -> [Server -> Seq(S2C)]]
  BY <1>1 DEF NetType, Reply
<1>3. clientEnd' \in [Client -> [Server -> End]]
  BY DEF NetType, Reply, End
<1> QED BY <1>2, <1>3

\* What a thread sends.
LEMMA AnswersType ==
  /\ <<[t |-> "ack"]>> \in Seq(S2C) /\ <<[t |-> "not found"]>> \in Seq(S2C)
  /\ \A b \in BOOLEAN : <<[t |-> "size", some |-> b]>> \in Seq(S2C)
  /\ \A P \in SUBSET Path : <<[t |-> "names", names |-> P]>> \in Seq(S2C)
<1>1. [t |-> "ack"] \in S2C /\ [t |-> "not found"] \in S2C
  BY DEF S2C
<1>2. ASSUME NEW b \in BOOLEAN PROVE [t |-> "size", some |-> b] \in S2C
  BY DEF S2C
<1>3. ASSUME NEW P \in SUBSET Path PROVE [t |-> "names", names |-> P] \in S2C
  BY DEF S2C
<1>4. ASSUME NEW m \in S2C PROVE <<m>> \in Seq(S2C)
  OBVIOUS
<1>5. ASSUME NEW b \in BOOLEAN PROVE <<[t |-> "size", some |-> b]>> \in Seq(S2C)
  BY <1>2, <1>4
<1>6. ASSUME NEW P \in SUBSET Path PROVE <<[t |-> "names", names |-> P]>> \in Seq(S2C)
  BY <1>3, <1>4
<1> QED BY <1>1, <1>4, <1>5, <1>6

LEMMA ChunkType ==
  ASSUME NEW p \in Path, NEW d \in Present
  PROVE  <<[t |-> "data", path |-> p, ver |-> d.ver, st |-> d.st]>> \in Seq(S2C)
<1>1. [t |-> "data", path |-> p, ver |-> d.ver, st |-> d.st] \in S2C
  BY DEF S2C, Present
<1> QED BY <1>1

\* The head of what has come from a client is a request of it.
LEMMA RequestOfClient ==
  ASSUME NetType, NEW s \in Server, NEW c \in Client, Next_(s, c, "put")
  PROVE  Head(c2s[c][s]).path \in Path
<1>1. Head(c2s[c][s]) \in C2S
  BY DEF NetType, Next_
<1> QED BY <1>1 DEF Next_, C2S

LEMMA ThreadsNet ==
  ASSUME TypeInv, NEW s \in Server, NEW c \in Client, ThreadStep(s, c), ~ServerDies(s)
  PROVE  NetType'
<1>0. NetType /\ ServerType /\ PathsInUse
  BY DEF TypeInv, TypeOK
<1>1. CASE RecvPut(s, c) \/ RecvGet(s, c)
  BY <1>0, <1>1, TakesType DEF RecvPut, RecvGet, Next_, NetType
<1>2. CASE PutOpen(s, c)
  BY <1>0, <1>2 DEF PutOpen, net, NetType
<1>3. CASE PutClose(s, c) \/ RecvDone(s, c)
  <2>1. UNCHANGED c2s \/ (c2s[c][s] # <<>> /\ Takes(s, c))
    BY <1>3 DEF PutClose, RecvDone, Next_
  <2> QED BY <1>0, <1>3, <2>1, TakesType DEF PutClose, RecvDone, NetType
<1>4. CASE PutAck(s, c)
  BY <1>0, <1>4, AnswersType, RepliesType DEF PutAck, NetType
<1>5. CASE RecvGetNotFound(s, c)
  BY <1>0, <1>5, AnswersType, RepliesType, TakesType DEF RecvGetNotFound, Next_, NetType
<1>6. CASE GetOpen(s, c)
  <2>1. HasBytes(s, cur[s][c]) \in BOOLEAN
    BY DEF HasBytes
  <2> QED BY <1>0, <1>6, <2>1, AnswersType, RepliesType DEF GetOpen, NetType
<1>7. CASE GetSend(s, c)
  <2>1. cur[s][c] \in Path /\ disk[s][cur[s][c]] \in Present
    BY <1>0, <1>7 DEF GetSend, PathsInUse
  <2> DEFINE data == <<[t |-> "data", path |-> cur[s][c], ver |-> disk[s][cur[s][c]].ver,
                        st |-> disk[s][cur[s][c]].st]>>
  <2>2. data \in Seq(S2C) /\ <<>> \in Seq(S2C)
    BY <2>1, ChunkType
  <2>3. Reply(s, c, IF HasBytes(s, cur[s][c]) THEN data ELSE <<>>)
    BY <1>7 DEF GetSend
  <2> HIDE DEF data
  <2>4. \E units \in Seq(S2C) : Reply(s, c, units)
    BY <2>2, <2>3
  <2>5. UNCHANGED c2s \/ (c2s[c][s] # <<>> /\ Takes(s, c))
    BY <1>7 DEF GetSend
  <2> QED BY <1>0, <1>7, <2>4, <2>5, RepliesType, TakesType DEF GetSend, NetType
<1>8. CASE RecvList(s, c)
  <2> DEFINE P == {p \in Path : disk[s][p] # Absent}
             all == <<[t |-> "names", names |-> P]>>
  <2>1. Reply(s, c, IF P = {} THEN <<>> ELSE all)
    BY <1>8 DEF RecvList
  <2>2. P \in SUBSET Path
    OBVIOUS
  <2> HIDE DEF P
  <2>3. <<[t |-> "names", names |-> P]>> \in Seq(S2C)
    BY <2>2, AnswersType, Zenon
  <2>4. all \in Seq(S2C) /\ <<>> \in Seq(S2C)
    BY <2>3
  <2> HIDE DEF all
  <2>5. \E units \in Seq(S2C) : Reply(s, c, units)
    BY <2>1, <2>4
  <2> QED BY <1>0, <1>8, <2>5, RepliesType, TakesType DEF RecvList, Next_, NetType
<1>9. ~RecvError(s, c) /\ ~SendSigpipe(s, c)
  BY DEF RecvError, SendSigpipe
<1> QED BY <1>1, <1>2, <1>3, <1>4, <1>5, <1>6, <1>7, <1>8, <1>9 DEF ThreadStep

LEMMA ThreadsServers ==
  ASSUME TypeInv, NEW s \in Server, NEW c \in Client, ThreadStep(s, c), ~ServerDies(s)
  PROVE  ServerType' /\ PathsInUse'
<1>0. NetType /\ ServerType /\ PathsInUse
  BY DEF TypeInv, TypeOK
<1>1. CASE RecvPut(s, c)
  <2>1. Head(c2s[c][s]).path \in Path
    BY <1>0, <1>1, RequestOfClient DEF RecvPut
  <2>2. /\ spc' = [spc EXCEPT ![s][c] = "put_lock"]
        /\ cur' = [cur EXCEPT ![s][c] = Head(c2s[c][s]).path]
        /\ UNCHANGED <<up, lock, disk>>
    BY <1>1 DEF RecvPut, Goto
  <2>3. ServerType'
    BY <1>0, <2>1, <2>2 DEF ServerType, ThreadStates
  <2>4. PathsInUse'
    BY <1>0, <2>1, <2>2 DEF ServerType, PathsInUse
  <2> QED BY <2>3, <2>4
<1>2. CASE RecvGet(s, c)
  <2>1. PICK p \in Path : disk[s][p] # Absent /\ cur' = [cur EXCEPT ![s][c] = p]
    BY <1>2 DEF RecvGet, MostRecent, Matching
  <2>2. spc' = [spc EXCEPT ![s][c] = "get_lock"] /\ UNCHANGED <<up, lock, disk>>
    BY <1>2 DEF RecvGet, Goto
  <2>3. disk[s][p] \in Present
    BY <1>0, <2>1 DEF ServerType
  <2>4. ServerType'
    BY <1>0, <2>1, <2>2 DEF ServerType, ThreadStates
  <2>5. PathsInUse'
    BY <1>0, <2>1, <2>2, <2>3 DEF ServerType, PathsInUse
  <2> QED BY <2>4, <2>5
<1>3. CASE PutOpen(s, c)
  <2>1. cur[s][c] \in Path
    BY <1>0, <1>3 DEF PutOpen, PathsInUse
  <2>2. [ver |-> c, st |-> "part"] \in Present
    BY DEF Present
  <2>3. /\ lock' = [lock EXCEPT ![s] = c]
        /\ disk' = [disk EXCEPT ![s][cur[s][c]] = [ver |-> c, st |-> "part"]]
        /\ spc' = [spc EXCEPT ![s][c] = "put_write"] /\ UNCHANGED <<up, cur>>
    BY <1>3 DEF PutOpen, Goto
  <2>4. ServerType'
    BY <1>0, <2>1, <2>2, <2>3 DEF ServerType, ThreadStates
  <2>5. \A q \in Path : disk[s][q] \in Present => disk'[s][q] \in Present
    BY <1>0, <2>1, <2>2, <2>3 DEF ServerType
  <2>6. disk'[s][cur[s][c]] \in Present
    BY <1>0, <2>1, <2>2, <2>3 DEF ServerType
  <2>7. PathsInUse'
    BY <1>0, <2>1, <2>3, <2>5, <2>6 DEF ServerType, PathsInUse
  <2> QED BY <2>4, <2>7
<1>4. CASE PutClose(s, c)
  <2>1. cur[s][c] \in Path /\ disk[s][cur[s][c]] \in Present
    BY <1>0, <1>4 DEF PutClose, PathsInUse
  <2>2. [ver |-> disk[s][cur[s][c]].ver, st |-> "whole"] \in Present
    BY <2>1 DEF Present
  <2>3. /\ lock' = [lock EXCEPT ![s] = None]
        /\ disk' = [disk EXCEPT ![s][cur[s][c]] =
                     [ver |-> disk[s][cur[s][c]].ver, st |-> "whole"]]
        /\ spc' = [spc EXCEPT ![s][c] = "put_ack"] /\ UNCHANGED <<up, cur>>
    BY <1>4 DEF PutClose, Goto
  <2>4. ServerType'
    BY <1>0, <2>1, <2>2, <2>3 DEF ServerType, ThreadStates
  <2>5. \A q \in Path : disk[s][q] \in Present => disk'[s][q] \in Present
    BY <1>0, <2>1, <2>2, <2>3 DEF ServerType
  <2>6. PathsInUse'
    BY <1>0, <2>1, <2>3, <2>5 DEF ServerType, PathsInUse
  <2> QED BY <2>4, <2>6
<1>5. CASE PutAck(s, c) \/ GetSend(s, c)
  <2>1. /\ spc' = [spc EXCEPT ![s][c] = "recv"] /\ cur' = [cur EXCEPT ![s][c] = NoPath]
        /\ UNCHANGED <<up, disk>> /\ lock' \in {lock, [lock EXCEPT ![s] = None]}
    BY <1>5 DEF PutAck, GetSend, Goto
  <2>2. ServerType'
    BY <1>0, <2>1 DEF ServerType, ThreadStates
  <2>3. PathsInUse'
    BY <1>0, <2>1 DEF ServerType, PathsInUse
  <2> QED BY <2>2, <2>3
<1>6. CASE GetOpen(s, c)
  <2>1. /\ spc' = [spc EXCEPT ![s][c] = "get_ready"] /\ lock' = [lock EXCEPT ![s] = c]
        /\ UNCHANGED <<up, cur, disk>> /\ spc[s][c] = "get_lock"
    BY <1>6 DEF GetOpen, Goto
  <2>2. ServerType'
    BY <1>0, <2>1 DEF ServerType, ThreadStates
  <2>3. PathsInUse'
    BY <1>0, <2>1 DEF ServerType, PathsInUse
  <2> QED BY <2>2, <2>3
<1>7. CASE RecvGetNotFound(s, c) \/ RecvList(s, c)
  BY <1>0, <1>7 DEF RecvGetNotFound, RecvList, server, ServerType, PathsInUse
<1>8. CASE RecvDone(s, c)
  <2>1. spc' = [spc EXCEPT ![s][c] = "ended"] /\ UNCHANGED <<up, lock, cur, disk>>
    BY <1>8 DEF RecvDone, Goto
  <2>2. ServerType'
    BY <1>0, <2>1 DEF ServerType, ThreadStates
  <2>3. PathsInUse'
    BY <1>0, <2>1 DEF ServerType, PathsInUse
  <2> QED BY <2>2, <2>3
<1>9. ~RecvError(s, c) /\ ~SendSigpipe(s, c)
  BY DEF RecvError, SendSigpipe
<1> QED BY <1>1, <1>2, <1>3, <1>4, <1>5, <1>6, <1>7, <1>8, <1>9 DEF ThreadStep

LEMMA TypeThreads ==
  ASSUME TypeInv, NEW s \in Server, NEW c \in Client, ThreadStep(s, c)
  PROVE  TypeInv'
<1>1. CASE ServerDies(s)
  <2>1. UNCHANGED crashes
    BY <1>1 DEF ThreadStep, RecvPut, PutOpen, PutClose, PutAck, RecvGet, RecvGetNotFound,
       GetOpen, GetSend, RecvList, RecvDone, RecvError, SendSigpipe, clientSide, env
  <2> QED BY <1>1, <2>1, TypeDeath DEF TypeInv, TypeOK, EnvType
<1>2. CASE ~ServerDies(s)
  <2>1. UNCHANGED clientSide
    BY <1>2 DEF ThreadStep, RecvPut, PutOpen, PutClose, PutAck, RecvGet, RecvGetNotFound,
       GetOpen, GetSend, RecvList, RecvDone, RecvError, SendSigpipe
  <2>2. ClientType' /\ MemoryType' /\ LoopsInRange'
    BY <2>1, ServersLeaveClients DEF clientSide
  <2>3. EnvType' /\ HistType'
    BY <2>1 DEF clientSide, env, hist, EnvType, HistType, TypeInv, TypeOK
  <2> QED BY <1>2, <2>2, <2>3, ThreadsNet, ThreadsServers DEF TypeInv, TypeOK
<1> QED BY <1>1, <1>2

LEMMA TypeStep == TypeInv /\ [Next]_vars => TypeInv'
<1> SUFFICES ASSUME TypeInv, [Next]_vars PROVE TypeInv'
  OBVIOUS
<1>1. CASE UNCHANGED vars
  <2>1. UNCHANGED <<progress, memory, net, server, env, hist>>
    BY <1>1 DEF vars
  <2>2. ClientType' /\ MemoryType' /\ LoopsInRange'
    BY <2>1, ServersLeaveClients
  <2>3. NetType' /\ EnvType' /\ HistType'
    BY <2>1 DEF net, env, hist, NetType, EnvType, HistType, TypeInv, TypeOK
  <2>4. ServerType' /\ PathsInUse'
    BY <2>1 DEF server, ServerType, PathsInUse, TypeInv, TypeOK
  <2> QED BY <2>2, <2>3, <2>4 DEF TypeInv, TypeOK
<1>2. ASSUME NEW c \in Client, ClientStep(c) \/ Kill(c) PROVE TypeInv'
  BY <1>2, TypeClients
<1>3. ASSUME NEW s \in Server, Crash(s) \/ Restart(s) PROVE TypeInv'
  BY <1>3, TypeServers
<1>4. ASSUME NEW s \in Server, NEW c \in Client, ThreadStep(s, c) PROVE TypeInv'
  BY <1>4, TypeThreads
<1> QED BY <1>1, <1>2, <1>3, <1>4 DEF Next

LEMMA TypeInvariant == Spec => []TypeInv
BY TypeInit, TypeStep, PTL DEF Spec

\* Every variable keeps its type, and no loop variable runs out of range.
THEOREM TypesHold == Spec => []TypeOK
<1>1. TypeInv => TypeOK
  BY DEF TypeInv
<1> QED BY <1>1, TypeInvariant, PTL

\* While a server has not died a chunk file that is not whole is being
\* written.
TornOnlyIfWriting == \A s \in Server, p \in Path :
  ~died[s] /\ disk[s][p].st \in {"empty", "part"} =>
    \E c \in Client : spc[s][c] = "put_write" /\ cur[s][c] = p

ReadInv == TypeInv /\ MutexInv /\ TornOnlyIfWriting

LEMMA ReadInit == Init => TornOnlyIfWriting
BY DEF Init, TornOnlyIfWriting, Absent

\* Where nothing a property of the servers reads is changed.
LEMMA ReadUnchanged ==
  ASSUME TornOnlyIfWriting, UNCHANGED <<spc, cur, disk, died>>
  PROVE  TornOnlyIfWriting'
BY DEF TornOnlyIfWriting

LEMMA ReadClients ==
  ASSUME ReadInv, NEW c \in Client, ClientStep(c) \/ Kill(c)
  PROVE  TornOnlyIfWriting'
<1>1. CASE Connect(c)
  <2>1. srv[c] \in Server /\ spc[srv[c]][c] = "none"
    BY <1>1 DEF ReadInv, MutexInv, NoThreadYet, Connect, Server
  <2>2. spc \in [Server -> [Client -> ThreadStates]]
    BY DEF ReadInv, MutexInv, MutexType
  <2>3. UNCHANGED <<cur, disk, died>>
        /\ (UNCHANGED spc \/ spc' = [spc EXCEPT ![srv[c]][c] = "recv"])
    BY <1>1 DEF Connect, hist
  <2>4. ASSUME NEW s \in Server, NEW d \in Client, spc[s][d] = "put_write"
        PROVE  spc'[s][d] = "put_write"
    BY <2>1, <2>2, <2>3, <2>4
  <2> QED BY <2>3, <2>4 DEF ReadInv, TornOnlyIfWriting
<1>2. CASE ~Connect(c)
  BY <1>2, ClientsLeaveThreads, ReadUnchanged DEF ReadInv
<1> QED BY <1>1, <1>2

\* A server that dies is out of the property's reach from then on.
LEMMA ReadDeath ==
  ASSUME ReadInv, NEW s \in Server, ServerDies(s)
  PROVE  TornOnlyIfWriting'
<1>1. /\ died' = [died EXCEPT ![s] = TRUE]
      /\ \A u \in Server \ {s} : /\ disk'[u] = disk[u] /\ spc'[u] = spc[u]
                                 /\ cur'[u] = cur[u] /\ died'[u] = died[u]
  BY DEF ServerDies, ReadInv, TypeInv, TypeOK, ServerType, HistType
<1>2. died'[s]
  BY <1>1 DEF ReadInv, TypeInv, TypeOK, HistType
<1> QED BY <1>1, <1>2 DEF ReadInv, TornOnlyIfWriting

LEMMA ReadThreads ==
  ASSUME ReadInv, NEW s \in Server, NEW c \in Client, ThreadStep(s, c), ~ServerDies(s)
  PROVE  TornOnlyIfWriting'
<1>0. ServerType /\ PathsInUse /\ TornOnlyIfWriting
  BY DEF ReadInv, TypeInv, TypeOK
<1>1. UNCHANGED died
  BY DEF ThreadStep, RecvPut, PutOpen, PutClose, PutAck, RecvGet, RecvGetNotFound,
     GetOpen, GetSend, RecvList, RecvDone, RecvError, SendSigpipe, clientSide, hist
<1>2. CASE PutOpen(s, c)
  <2>1. /\ spc' = [spc EXCEPT ![s][c] = "put_write"] /\ UNCHANGED cur
        /\ disk' = [disk EXCEPT ![s][cur[s][c]] = [ver |-> c, st |-> "part"]]
        /\ spc[s][c] = "put_lock"
    BY <1>2 DEF PutOpen, Goto
  <2>2. cur[s][c] \in Path
    BY <1>0, <2>1 DEF PathsInUse
  <2> SUFFICES ASSUME NEW u \in Server, NEW p \in Path, ~died'[u],
                      disk'[u][p].st \in {"empty", "part"}
               PROVE  \E d \in Client : spc'[u][d] = "put_write" /\ cur'[u][d] = p
    BY DEF TornOnlyIfWriting
  <2>3. CASE u = s /\ p = cur[s][c]
    BY <1>0, <2>1, <2>3 DEF ServerType
  <2>4. CASE ~(u = s /\ p = cur[s][c])
    <3>1. disk'[u][p] = disk[u][p]
      BY <1>0, <2>1, <2>2, <2>4 DEF ServerType
    <3>2. PICK d \in Client : spc[u][d] = "put_write" /\ cur[u][d] = p
      BY <1>0, <1>1, <3>1 DEF TornOnlyIfWriting
    <3>3. spc'[u][d] = "put_write" /\ cur'[u][d] = p
      BY <1>0, <2>1, <3>2 DEF ServerType
    <3> QED BY <3>3
  <2> QED BY <2>3, <2>4
<1>3. CASE PutClose(s, c)
  <2>1. /\ spc' = [spc EXCEPT ![s][c] = "put_ack"] /\ UNCHANGED cur
        /\ disk' = [disk EXCEPT ![s][cur[s][c]] =
                    [ver |-> disk[s][cur[s][c]].ver, st |-> "whole"]]
        /\ spc[s][c] = "put_write"
    BY <1>3 DEF PutClose, Goto
  <2>2. cur[s][c] \in Path
    BY <1>0, <2>1 DEF PathsInUse
  <2> SUFFICES ASSUME NEW u \in Server, NEW p \in Path, ~died'[u],
                      disk'[u][p].st \in {"empty", "part"}
               PROVE  \E d \in Client : spc'[u][d] = "put_write" /\ cur'[u][d] = p
    BY DEF TornOnlyIfWriting
  <2>3. ~(u = s /\ p = cur[s][c])
    BY <1>0, <2>1 DEF ServerType
  <2>4. disk'[u][p] = disk[u][p]
    BY <1>0, <2>1, <2>2, <2>3 DEF ServerType
  <2>5. PICK d \in Client : spc[u][d] = "put_write" /\ cur[u][d] = p
    BY <1>0, <1>1, <2>4 DEF TornOnlyIfWriting
  <2>6. spc'[u][d] = "put_write" /\ cur'[u][d] = p
    BY <1>0, <2>1, <2>3, <2>5 DEF ServerType
  <2> QED BY <2>6
<1>4. CASE RecvPut(s, c) \/ PutAck(s, c) \/ RecvGet(s, c) \/ GetOpen(s, c) \/ GetSend(s, c)
           \/ RecvDone(s, c)
  <2>1. /\ spc[s][c] # "put_write" /\ UNCHANGED disk
        /\ \A u \in Server, d \in Client : ~(u = s /\ d = c) =>
             spc'[u][d] = spc[u][d] /\ cur'[u][d] = cur[u][d]
    BY <1>0, <1>4 DEF RecvPut, PutAck, RecvGet, GetOpen, GetSend, RecvDone, Goto, ServerType
  <2> QED BY <1>0, <1>1, <2>1 DEF TornOnlyIfWriting
<1>5. CASE RecvGetNotFound(s, c) \/ RecvList(s, c)
  BY <1>0, <1>1, <1>5, ReadUnchanged DEF RecvGetNotFound, RecvList, server
<1>6. ~RecvError(s, c) /\ ~SendSigpipe(s, c)
  BY DEF RecvError, SendSigpipe
<1> QED BY <1>2, <1>3, <1>4, <1>5, <1>6 DEF ThreadStep

LEMMA ReadStep == ReadInv /\ [Next]_vars => TornOnlyIfWriting'
<1> SUFFICES ASSUME ReadInv, [Next]_vars PROVE TornOnlyIfWriting'
  OBVIOUS
<1>1. CASE UNCHANGED vars
  BY <1>1, ReadUnchanged DEF vars, server, hist, ReadInv
<1>2. ASSUME NEW c \in Client, ClientStep(c) \/ Kill(c) PROVE TornOnlyIfWriting'
  BY <1>2, ReadClients
<1>3. ASSUME NEW s \in Server, Crash(s) \/ Restart(s) PROVE TornOnlyIfWriting'
  BY <1>3, ReadDeath, ReadUnchanged DEF Crash, Restart, hist, ReadInv
<1>4. ASSUME NEW s \in Server, NEW c \in Client, ThreadStep(s, c)
      PROVE  TornOnlyIfWriting'
  BY <1>4, ReadDeath, ReadThreads
<1> QED BY <1>1, <1>2, <1>3, <1>4 DEF Next

LEMMA ReadInvariant == Spec => []ReadInv
<1>1. Init => ReadInv
  BY TypeInit, MutexInit, ReadInit DEF ReadInv
<1>2. ReadInv /\ [Next]_vars => ReadInv'
  BY TypeStep, MutexStep, ReadStep DEF ReadInv
<1> QED BY <1>1, <1>2, PTL DEF Spec

\* The thread that reads holds the mutex, so no thread writes; and what no
\* thread writes is whole, as long as the server has not died.
LEMMA ReadersGetWhole == ReadInv => NoTornRead
<1> SUFFICES ASSUME ReadInv, NEW s \in Server, NEW c \in Client,
                    spc[s][c] = "get_ready", ~died[s]
             PROVE  disk[s][cur[s][c]].st = "whole"
  BY DEF NoTornRead
<1>1. cur[s][c] \in Path /\ disk[s][cur[s][c]] \in Present
  BY DEF ReadInv, TypeInv, PathsInUse
<1>2. lock[s] = c
  BY DEF ReadInv, MutexInv, MutualExclusion
<1>3. ASSUME NEW d \in Client PROVE spc[s][d] # "put_write"
  BY <1>2 DEF ReadInv, MutexInv, MutualExclusion
<1>4. disk[s][cur[s][c]].st \notin {"empty", "part"}
  BY <1>1, <1>3 DEF ReadInv, TornOnlyIfWriting
<1> QED BY <1>1, <1>4 DEF Present

\* While a server process lives no reader is given a chunk that is still
\* being written, although the newest name is looked up without the mutex.
THEOREM ReadsAreWhole == Spec => []NoTornRead
BY ReadInvariant, ReadersGetWhole, PTL


(* ------------------ a step is that of one process ---------------------- *)

\* What belongs to client d, its connections included, stays as it is.
ProgressKept(d) == /\ cpc'[d] = cpc[d] /\ arg'[d] = arg[d]
                   /\ srv'[d] = srv[d] /\ pos'[d] = pos[d]
MemoryKept(d) == /\ live'[d] = live[d] /\ got'[d] = got[d] /\ local'[d] = local[d]
                 /\ names'[d] = names[d] /\ ts'[d] = ts[d] /\ result'[d] = result[d]
                 /\ eofAck'[d] = eofAck[d] /\ base'[d] = base[d]
NetKept(d) == /\ c2s'[d] = c2s[d] /\ s2c'[d] = s2c[d]
              /\ clientEnd'[d] = clientEnd[d] /\ serverEnd'[d] = serverEnd[d]
ClientKept(d) == ProgressKept(d) /\ MemoryKept(d) /\ NetKept(d)

\* A step of a client leaves the other clients alone, and their threads.
LEMMA OthersProgress ==
  ASSUME ClientType, NEW c \in Client, ClientStep(c) \/ Kill(c), NEW d \in Client \ {c}
  PROVE  ProgressKept(d)
<1> USE DEF ProgressKept, ClientType
<1>1. CASE Connect(c)
  BY <1>1 DEF Connect
<1>2. CASE PutRefused(c) \/ PutStart(c) \/ GetStart(c) \/ ListStart(c)
  BY <1>2 DEF PutRefused, PutStart, GetStart, ListStart
<1>3. CASE PutSkip(c) \/ PutSend(c) \/ PutFails(c)
  BY <1>3 DEF PutSkip, PutSend, PutFails
<1>4. CASE PutAcked(c) \/ PutEof(c)
  BY <1>4 DEF PutAcked, PutEof, PutAdvance
<1>5. CASE PutSendDies(c) \/ GetQueryDies(c) \/ GetDataFails(c) \/ ListFailsDies(c)
  BY <1>5 DEF PutSendDies, GetQueryDies, GetDataFails, ListFailsDies, Dies
<1>6. CASE GetQuery(c) \/ ListQuery(c)
  BY <1>6 DEF GetQuery, ListQuery
<1>7. CASE GetMissing(c) \/ GetJunk(c) \/ GetData(c)
  BY <1>7 DEF GetMissing, GetJunk, GetData, NextChunk, NextFile
<1>8. CASE GetReady(c) \/ GetNot(c) \/ GetFails(c) \/ GetDataForEver(c)
  BY <1>8 DEF GetReady, GetNot, GetFails, GetDataForEver
<1>9. CASE ListAnswered(c) \/ ListFails(c) \/ ListShow(c) \/ Finish(c) \/ Kill(c)
  BY <1>9 DEF ListAnswered, ListFails, ListShow, Finish, Kill
<1> QED BY <1>1, <1>2, <1>3, <1>4, <1>5, <1>6, <1>7, <1>8, <1>9 DEF ClientStep

LEMMA OthersMemory ==
  ASSUME MemoryType, HistType, NEW c \in Client, ClientStep(c) \/ Kill(c),
         NEW d \in Client \ {c}
  PROVE  MemoryKept(d)
<1> USE DEF MemoryKept, MemoryType, HistType, memory, hist
<1>1. CASE Connect(c)
  BY <1>1 DEF Connect
<1>2. CASE PutRefused(c) \/ PutStart(c) \/ GetStart(c) \/ ListStart(c)
  BY <1>2 DEF PutRefused, PutStart, GetStart, ListStart
<1>3. CASE PutSkip(c) \/ PutSend(c) \/ PutFails(c)
  BY <1>3 DEF PutSkip, PutSend, PutFails, Report
<1>4. CASE PutAcked(c) \/ PutEof(c)
  BY <1>4 DEF PutAcked, PutEof, PutAdvance, Report
<1>5. CASE PutSendDies(c) \/ GetQueryDies(c) \/ GetDataFails(c) \/ ListFailsDies(c)
  BY <1>5 DEF PutSendDies, GetQueryDies, GetDataFails, ListFailsDies, Dies
<1>6. CASE GetQuery(c) \/ ListQuery(c)
  BY <1>6 DEF GetQuery, ListQuery
<1>7. CASE GetMissing(c) \/ GetJunk(c) \/ GetData(c)
  BY <1>7 DEF GetMissing, GetJunk, GetData, NextChunk, NextFile
<1>8. CASE GetReady(c) \/ GetNot(c) \/ GetFails(c) \/ GetDataForEver(c)
  BY <1>8 DEF GetReady, GetNot, GetFails, GetDataForEver
<1>9. CASE ListAnswered(c) \/ ListFails(c) \/ ListShow(c) \/ Finish(c) \/ Kill(c)
  BY <1>9 DEF ListAnswered, ListFails, ListShow, Finish, Kill
<1> QED BY <1>1, <1>2, <1>3, <1>4, <1>5, <1>6, <1>7, <1>8, <1>9 DEF ClientStep

LEMMA OthersNet ==
  ASSUME NetType, NEW c \in Client, ClientStep(c) \/ Kill(c), NEW d \in Client \ {c}
  PROVE  NetKept(d)
<1> USE DEF NetKept, NetType, net
<1>1. CASE Connect(c)
  BY <1>1 DEF Connect
<1>2. CASE PutRefused(c) \/ PutStart(c) \/ GetStart(c) \/ ListStart(c)
  BY <1>2 DEF PutRefused, PutStart, GetStart, ListStart, CloseAll
<1>3. CASE PutSkip(c) \/ PutSend(c) \/ PutFails(c)
  BY <1>3 DEF PutSkip, PutSend, PutFails, ClientSends, CloseAll
<1>4. CASE PutAcked(c) \/ PutEof(c)
  BY <1>4 DEF PutAcked, PutEof, Receive
<1>5. CASE PutSendDies(c) \/ GetQueryDies(c) \/ GetDataFails(c) \/ ListFailsDies(c)
  BY <1>5 DEF PutSendDies, GetQueryDies, GetDataFails, ListFailsDies, Dies, CloseAll
<1>6. CASE GetQuery(c) \/ ListQuery(c)
  BY <1>6 DEF GetQuery, ListQuery, ClientSends
<1>7. CASE GetMissing(c) \/ GetJunk(c) \/ GetData(c)
  BY <1>7 DEF GetMissing, GetJunk, GetData, Receive
<1>8. CASE GetReady(c) \/ GetNot(c) \/ GetFails(c) \/ GetDataForEver(c)
  BY <1>8 DEF GetReady, GetNot, GetFails, GetDataForEver, Receive, ClientSends
<1>9. CASE ListAnswered(c) \/ ListFails(c) \/ ListShow(c) \/ Finish(c) \/ Kill(c)
  BY <1>9 DEF ListAnswered, ListFails, ListShow, Finish, Kill, Receive, CloseAll
<1> QED BY <1>1, <1>2, <1>3, <1>4, <1>5, <1>6, <1>7, <1>8, <1>9 DEF ClientStep

LEMMA OthersKept ==
  ASSUME TypeInv, NEW c \in Client, ClientStep(c) \/ Kill(c), NEW d \in Client \ {c}
  PROVE  ClientKept(d) /\ \A s \in Server : spc'[s][d] = spc[s][d]
<1>1. ClientKept(d)
  BY OthersProgress, OthersMemory, OthersNet DEF ClientKept, TypeInv, TypeOK
<1>2. \A s \in Server : spc'[s][d] = spc[s][d]
  <2>1. CASE Connect(c)
    BY <2>1 DEF Connect, TypeInv, TypeOK, ServerType
  <2>2. CASE ~Connect(c)
    BY <2>2, ClientsLeaveThreads
  <2> QED BY <2>1, <2>2
<1> QED BY <1>1, <1>2

\* A step of a client leaves the directories alone.
LEMMA ClientsLeaveDisk ==
  ASSUME NEW c \in Client, ClientStep(c) \/ Kill(c)
  PROVE  UNCHANGED <<up, lock, cur, disk, died>>
<1>1. CASE Connect(c)
  BY <1>1 DEF Connect, hist
<1> QED BY <1>1, ClientsLeaveThreads

\* A step of a thread that its server survives leaves alone what is not its
\* client's, and of that all but the connection to this server.
LEMMA ThreadsLeaveOthers ==
  ASSUME TypeInv, NEW s \in Server, NEW c \in Client, ThreadStep(s, c), ~ServerDies(s)
  PROVE  /\ UNCHANGED <<progress, memory, env, hist, serverEnd, up>>
         /\ \A u \in Server, d \in Client : u # s \/ d # c =>
              /\ spc'[u][d] = spc[u][d] /\ cur'[u][d] = cur[u][d]
              /\ c2s'[d][u] = c2s[d][u] /\ s2c'[d][u] = s2c[d][u]
              /\ clientEnd'[d][u] = clientEnd[d][u]
<1> USE DEF TypeInv, TypeOK, NetType, ServerType, Goto, clientSide, server, net
<1>1. CASE RecvPut(s, c)
  BY <1>1 DEF RecvPut, Takes
<1>2. CASE RecvGet(s, c)
  BY <1>2 DEF RecvGet, Takes
<1>3. CASE RecvDone(s, c)
  BY <1>3 DEF RecvDone, Takes
<1>4. CASE PutOpen(s, c)
  BY <1>4 DEF PutOpen, Takes
<1>5. CASE PutClose(s, c)
  BY <1>5 DEF PutClose, Takes
<1>6. CASE PutAck(s, c)
  BY <1>6 DEF PutAck, Reply
<1>7. CASE GetOpen(s, c)
  BY <1>7 DEF GetOpen, Reply
<1>8. CASE RecvGetNotFound(s, c) \/ RecvList(s, c)
  <2>1. UNCHANGED <<clientSide, serverEnd, server>> /\ Takes(s, c)
        /\ \E units : Reply(s, c, units)
    BY <1>8, Zenon DEF RecvGetNotFound, RecvList
  <2>2. PICK units : Reply(s, c, units)
    BY <2>1
  <2> HIDE DEF TypeInv, TypeOK, NetType, ServerType
  <2>3. /\ s2c \in [Client -> [Server -> Seq(S2C)]] /\ c2s \in [Client -> [Server -> Seq(C2S)]]
        /\ clientEnd \in [Client -> [Server -> End]]
    BY DEF TypeInv, TypeOK, NetType
  <2> QED BY <2>1, <2>2, <2>3 DEF Reply, Takes
<1>9. CASE GetSend(s, c)
  BY <1>9 DEF GetSend, Reply, Takes
<1>10. ~RecvError(s, c) /\ ~SendSigpipe(s, c)
  BY DEF RecvError, SendSigpipe
<1> QED BY <1>1, <1>2, <1>3, <1>4, <1>5, <1>6, <1>7, <1>8, <1>9, <1>10 DEF ThreadStep

(* ------------------ every run keeps to its command --------------------- *)

StatesOf(c) == {"connect", "dispatch", "exited", "killed"} \cup
  IF Job[c].cmd = "put" THEN {"put_send", "put_ack"}
  ELSE IF Job[c].cmd = "get" THEN {"get_query", "get_size", "get_data", "wedged"}
  ELSE {"list_query", "list_names", "done"}
Sized(c, p) == LocalSize[c][p.file] >= 0             \* c has the file to put
WordsOf(c) == {m \in C2S :
  /\ m.t \in IF Job[c].cmd = "put" THEN {"put", "rest", "done"}
             ELSE IF Job[c].cmd = "get" THEN {"get", "ready", "done"} ELSE {"list", "done"}
  /\ m.t = "put" => Sized(c, m.path)}
ThreadsOf(c) == {"none", "recv", "ended"} \cup
  IF Job[c].cmd = "put" THEN {"put_lock", "put_write", "put_ack"}
  ELSE IF Job[c].cmd = "get" THEN {"get_lock", "get_ready"} ELSE {}

\* A client is where its command takes it, sends what that calls for, and so
\* does the thread it is served by.
RolesKept == \A c \in Client :
  /\ cpc[c] \in StatesOf(c)
  /\ c2s[c] \in [Server -> Seq(WordsOf(c))]
  /\ \A s \in Server : spc[s][c] \in ThreadsOf(c)

LEMMA RolesInit == Init => RolesKept
BY DEF Init, RolesKept, StatesOf, ThreadsOf

LEMMA CommandOf ==
  ASSUME NEW c \in Client
  PROVE  Job[c].cmd \in {"get", "put", "list"}
BY DfsAssumption

LEMMA StateOfRole ==
  ASSUME TypeInv, RolesKept, NEW c \in Client, ClientStep(c) \/ Kill(c)
  PROVE  cpc'[c] \in StatesOf(c)
<1>0. cpc \in [Client -> ClientStates] /\ cpc[c] \in StatesOf(c)
      /\ Job[c].cmd \in {"get", "put", "list"}
  BY CommandOf DEF TypeInv, TypeOK, ClientType, RolesKept
<1> USE <1>0 DEF StatesOf
<1>1. CASE Connect(c)
  BY <1>1 DEF Connect
<1>2. CASE PutRefused(c) \/ PutStart(c) \/ GetStart(c) \/ ListStart(c)
  BY <1>2 DEF PutRefused, PutStart, GetStart, ListStart
<1>3. CASE PutSkip(c) \/ PutSend(c) \/ PutFails(c)
  BY <1>3 DEF PutSkip, PutSend, PutFails
<1>4. CASE PutAcked(c) \/ PutEof(c)
  BY <1>4 DEF PutAcked, PutEof, PutAdvance
<1>5. CASE PutSendDies(c) \/ GetQueryDies(c) \/ GetDataFails(c) \/ ListFailsDies(c)
  BY <1>5 DEF PutSendDies, GetQueryDies, GetDataFails, ListFailsDies, Dies
<1>6. CASE GetQuery(c) \/ ListQuery(c)
  BY <1>6 DEF GetQuery, ListQuery
<1>7. CASE GetMissing(c) \/ GetJunk(c) \/ GetData(c)
  BY <1>7 DEF GetMissing, GetJunk, GetData, NextChunk, NextFile
<1>8. CASE GetReady(c) \/ GetNot(c) \/ GetFails(c) \/ GetDataForEver(c)
  BY <1>8 DEF GetReady, GetNot, GetFails, GetDataForEver
<1>9. CASE ListAnswered(c) \/ ListFails(c) \/ ListShow(c) \/ Finish(c) \/ Kill(c)
  BY <1>9 DEF ListAnswered, ListFails, ListShow, Finish, Kill
<1> QED BY <1>1, <1>2, <1>3, <1>4, <1>5, <1>6, <1>7, <1>8, <1>9 DEF ClientStep

\* What a client puts into a connection: nothing, what its command has it
\* send, or less than was there.
LEMMA SendsWords ==
  ASSUME NetType, NEW c \in Client, NEW s \in Server, NEW W,
         c2s[c] \in [Server -> Seq(W)], NEW units \in Seq(W), ClientSends(c, s, units)
  PROVE  c2s'[c] \in [Server -> Seq(W)]
<1>1. c2s[c][s] \o units \in Seq(W)
  OBVIOUS
<1> QED BY <1>1 DEF NetType, ClientSends

LEMMA WordsOfRole ==
  ASSUME TypeInv, RolesKept, NEW c \in Client, ClientStep(c) \/ Kill(c)
  PROVE  c2s'[c] \in [Server -> Seq(WordsOf(c))]
<1>0. /\ NetType /\ LoopInRange(c) /\ cpc[c] \in StatesOf(c)
      /\ c2s[c] \in [Server -> Seq(WordsOf(c))] /\ Job[c].cmd \in {"get", "put", "list"}
  BY CommandOf DEF TypeInv, TypeOK, LoopsInRange, RolesKept
<1> DEFINE W == WordsOf(c)
<1>1. CASE UNCHANGED c2s
  BY <1>0, <1>1
<1>2. CASE PutSend(c)
  <2>1. srv[c] \in Server /\ ~NoMoreArgs(c) /\ cpc[c] = "put_send"
    BY <1>0, <1>2 DEF PutSend, LoopInRange
  <2>2. Job[c].cmd = "put"
    BY <1>0, <2>1 DEF StatesOf
  <2>s. Sized(c, PutPath(c))
    BY <1>2 DEF PutSend, Sized, PutPath
  <2>3. [t |-> "put", path |-> PutPath(c)] \in W /\ [t |-> "rest"] \in W
    BY <2>1, <2>2, <2>s, PathOfPut DEF C2S, WordsOf
  <2>4. PutUnits(c, PutPath(c)) \in Seq(W)
    BY <2>3 DEF PutUnits
  <2> QED BY <1>0, <1>2, <2>1, <2>4, SendsWords DEF PutSend
<1>3. CASE GetQuery(c)
  <2>1. PICK s \in Server : ClientSends(c, s, <<[t |-> "get", file |-> F(c), chunk |-> pos[c]]>>)
    BY <1>3 DEF GetQuery
  <2>2. ~NoMoreArgs(c) /\ Job[c].cmd = "get"
    BY <1>0, <1>3 DEF GetQuery, StatesOf
  <2>3. F(c) \in File /\ pos[c] \in Chunk
    BY <2>2, FileOfArg DEF TypeInv, TypeOK, ClientType, LoopsInRange, LoopInRange
  <2>4. [t |-> "get", file |-> F(c), chunk |-> pos[c]] \in W
    BY <2>2, <2>3 DEF C2S, WordsOf
  <2> HIDE DEF W
  <2>5. <<[t |-> "get", file |-> F(c), chunk |-> pos[c]]>> \in Seq(W)
    BY <2>4
  <2>6. c2s'[c] \in [Server -> Seq(W)]
    BY <1>0, <2>1, <2>5, SendsWords DEF W
  <2> QED BY <2>6 DEF W
<1>4. CASE ListQuery(c) \/ GetReady(c)
  <2>1. PICK w \in {"list", "ready"} : \E s \in Server :
          /\ ClientSends(c, s, <<[t |-> w]>>)
          /\ w = "list" => Job[c].cmd = "list"
          /\ w = "ready" => Job[c].cmd = "get"
    BY <1>0, <1>4 DEF ListQuery, GetReady, LoopInRange, StatesOf
  <2>2. [t |-> w] \in W
    BY <2>1 DEF C2S, WordsOf
  <2> HIDE DEF W
  <2>3. <<[t |-> w]>> \in Seq(W)
    BY <2>2
  <2>4. c2s'[c] \in [Server -> Seq(W)]
    BY <1>0, <2>1, <2>3, SendsWords DEF W
  <2> QED BY <2>4 DEF W
<1>5. CASE Finish(c)
  <2>1. PICK cut \in 1..(N+1) :
          c2s' = [c2s EXCEPT ![c] = [s \in Server |->
            IF s < cut /\ live[c][s] /\ serverEnd[c][s] = "open"
            THEN Append(c2s[c][s], [t |-> "done"]) ELSE c2s[c][s]]]
    BY <1>5 DEF Finish
  <2>2. [t |-> "done"] \in W
    BY <1>0 DEF C2S, WordsOf
  <2>3. \A s \in Server : Append(c2s[c][s], [t |-> "done"]) \in Seq(W)
    BY <1>0, <2>2
  <2> QED BY <1>0, <2>1, <2>3 DEF NetType
<1>6. CASE Kill(c) /\ ~UNCHANGED c2s
  <2>1. /\ cpc[c] = "put_ack" /\ c2s[c][srv[c]] # <<>>
        /\ c2s' = [c2s EXCEPT ![c][srv[c]] =
                    SubSeq(c2s[c][srv[c]], 1, Len(c2s[c][srv[c]]) - 1)]
    BY <1>6 DEF Kill
  <2>2. srv[c] \in Server
    BY <1>0, <2>1 DEF LoopInRange
  <2>3. SubSeq(c2s[c][srv[c]], 1, Len(c2s[c][srv[c]]) - 1) \in Seq(W)
    BY <1>0, <2>1, <2>2
  <2> QED BY <1>0, <2>1, <2>2, <2>3 DEF NetType
<1>7. \/ UNCHANGED c2s \/ PutSend(c) \/ GetQuery(c) \/ ListQuery(c) \/ GetReady(c)
      \/ Finish(c) \/ Kill(c)
  BY DEF ClientStep, Connect, PutRefused, PutStart, GetStart, ListStart, PutSkip, PutSendDies,
     PutAcked, PutEof, PutFails, GetQueryDies, GetMissing, GetJunk, GetNot, GetFails, GetData,
     GetDataFails, GetDataForEver, ListAnswered, ListFails, ListFailsDies, ListShow, Dies, net
<1> QED BY <1>1, <1>2, <1>3, <1>4, <1>5, <1>6, <1>7

\* The head of what has come from a client is a word of its command.
LEMMA WordOfRole ==
  ASSUME RolesKept, NEW s \in Server, NEW c \in Client, NEW t, Next_(s, c, t)
  PROVE  /\ t = "put" => Job[c].cmd = "put"
         /\ t = "get" => Job[c].cmd = "get"
         /\ t = "list" => Job[c].cmd = "list"
<1>1. Head(c2s[c][s]) \in WordsOf(c) /\ Head(c2s[c][s]).t = t
  BY DEF RolesKept, Next_
<1>2. Job[c].cmd \in {"get", "put", "list"}
  BY CommandOf
<1> QED BY <1>1, <1>2 DEF WordsOf

LEMMA RolesThreads ==
  ASSUME TypeInv, RolesKept, NEW s \in Server, NEW c \in Client, ThreadStep(s, c),
         ~ServerDies(s)
  PROVE  RolesKept'
<1>0. /\ NetType /\ ServerType /\ spc[s][c] \in ThreadsOf(c)
      /\ c2s[c] \in [Server -> Seq(WordsOf(c))] /\ Job[c].cmd \in {"get", "put", "list"}
  BY CommandOf DEF TypeInv, TypeOK, RolesKept
<1>1. /\ UNCHANGED cpc
      /\ \A u \in Server, d \in Client : u # s \/ d # c =>
           spc'[u][d] = spc[u][d] /\ c2s'[d][u] = c2s[d][u]
  BY ThreadsLeaveOthers DEF progress
<1>2. c2s'[c][s] \in Seq(WordsOf(c))
  <2>1. UNCHANGED c2s \/ (c2s[c][s] # <<>> /\ Takes(s, c))
    BY DEF ThreadStep, RecvPut, PutOpen, PutClose, PutAck, RecvGet, RecvGetNotFound,
       GetOpen, GetSend, RecvList, RecvDone, RecvError, SendSigpipe, net, Next_
  <2>2. CASE UNCHANGED c2s
    BY <1>0, <2>2
  <2>3. CASE c2s[c][s] # <<>> /\ Takes(s, c)
    <3>1. Tail(c2s[c][s]) \in Seq(WordsOf(c))
      BY <1>0, <2>3
    <3> QED BY <1>0, <2>3, <3>1 DEF NetType, Takes
  <2> QED BY <2>1, <2>2, <2>3
<1>3. spc'[s][c] \in ThreadsOf(c)
  <2>1. CASE UNCHANGED spc
    BY <1>0, <2>1
  <2>2. CASE PutAck(s, c) \/ GetSend(s, c) \/ RecvDone(s, c)
    BY <1>0, <2>2 DEF PutAck, GetSend, RecvDone, Goto, ServerType, ThreadsOf
  <2>3. CASE RecvPut(s, c)
    BY <1>0, <2>3, WordOfRole DEF RecvPut, Goto, ServerType, ThreadsOf
  <2>4. CASE RecvGet(s, c)
    BY <1>0, <2>4, WordOfRole DEF RecvGet, Goto, ServerType, ThreadsOf
  <2>5. CASE PutOpen(s, c) \/ PutClose(s, c) \/ GetOpen(s, c)
    BY <1>0, <2>5 DEF PutOpen, PutClose, GetOpen, Goto, ServerType, ThreadsOf
  <2> QED BY <2>1, <2>2, <2>3, <2>4, <2>5
      DEF ThreadStep, RecvGetNotFound, RecvList, RecvError, SendSigpipe, server
<1>4. c2s' \in [Client -> [Server -> Seq(C2S)]]
  BY ThreadsNet DEF NetType
<1>5. ASSUME NEW d \in Client
      PROVE  cpc'[d] \in StatesOf(d) /\ (\A u \in Server : spc'[u][d] \in ThreadsOf(d))
  BY <1>1, <1>3 DEF RolesKept
<1>6. ASSUME NEW d \in Client
      PROVE  c2s'[d] \in [Server -> Seq(WordsOf(d))]
  <2>1. \A u \in Server : c2s'[d][u] \in Seq(WordsOf(d))
    BY <1>1, <1>2 DEF RolesKept
  <2>2. c2s'[d] \in [Server -> Seq(C2S)]
    BY <1>4
  <2> QED BY <2>1, <2>2
<1>7. \A d \in Client : StatesOf(d)' = StatesOf(d) /\ WordsOf(d)' = WordsOf(d)
                        /\ ThreadsOf(d)' = ThreadsOf(d)
  BY DEF StatesOf, WordsOf, ThreadsOf
<1> QED BY <1>5, <1>6, <1>7 DEF RolesKept

LEMMA RolesStep == TypeInv /\ RolesKept /\ [Next]_vars => RolesKept'
<1> SUFFICES ASSUME TypeInv, RolesKept, [Next]_vars PROVE RolesKept'
  OBVIOUS
<1>0. \A d \in Client : StatesOf(d)' = StatesOf(d) /\ WordsOf(d)' = WordsOf(d)
                        /\ ThreadsOf(d)' = ThreadsOf(d)
  BY DEF StatesOf, WordsOf, ThreadsOf
<1>1. CASE UNCHANGED vars
  BY <1>0, <1>1 DEF vars, progress, net, server, RolesKept
<1>2. ASSUME NEW c \in Client, ClientStep(c) \/ Kill(c) PROVE RolesKept'
  <2>1. cpc'[c] \in StatesOf(c) /\ c2s'[c] \in [Server -> Seq(WordsOf(c))]
    BY <1>2, StateOfRole, WordsOfRole
  <2>2. \A s \in Server : spc'[s][c] \in ThreadsOf(c)
    <3>1. CASE Connect(c)
      BY <3>1 DEF Connect, RolesKept, TypeInv, TypeOK, ServerType, ThreadsOf
    <3>2. CASE ~Connect(c)
      BY <1>2, <3>2, ClientsLeaveThreads DEF RolesKept
    <3> QED BY <3>1, <3>2
  <2>3. \A d \in Client \ {c} : ClientKept(d) /\ \A s \in Server : spc'[s][d] = spc[s][d]
    BY <1>2, OthersKept
  <2>4. \A d \in Client \ {c} :
          /\ cpc'[d] = cpc[d] /\ c2s'[d] = c2s[d]
          /\ \A s \in Server : spc'[s][d] = spc[s][d]
    BY <2>3 DEF ClientKept, ProgressKept, NetKept
  <2> QED BY <1>0, <2>1, <2>2, <2>4 DEF RolesKept
<1>3. ASSUME NEW s \in Server, ServerDies(s) PROVE RolesKept'
  <2>1. /\ UNCHANGED cpc
        /\ spc' = [spc EXCEPT ![s] = [c \in Client |-> "none"]]
        /\ c2s' = [c \in Client |-> [c2s[c] EXCEPT ![s] = <<>>]]
    BY <1>3 DEF ServerDies, progress
  <2>2. ASSUME NEW d \in Client PROVE c2s'[d] \in [Server -> Seq(WordsOf(d))]
    BY <2>1 DEF RolesKept
  <2>3. ASSUME NEW d \in Client, NEW u \in Server PROVE spc'[u][d] \in ThreadsOf(d)
    BY <2>1 DEF RolesKept, ThreadsOf, TypeInv, TypeOK, ServerType
  <2> QED BY <1>0, <2>1, <2>2, <2>3 DEF RolesKept
<1>4. ASSUME NEW s \in Server, Crash(s) \/ Restart(s) PROVE RolesKept'
  <2>1. CASE Crash(s)
    BY <1>3, <2>1 DEF Crash
  <2>2. CASE Restart(s)
    BY <1>0, <2>2 DEF Restart, progress, net, RolesKept
  <2> QED BY <1>4, <2>1, <2>2
<1>5. ASSUME NEW s \in Server, NEW c \in Client, ThreadStep(s, c) PROVE RolesKept'
  BY <1>3, <1>5, RolesThreads
<1> QED BY <1>1, <1>2, <1>4, <1>5 DEF Next

(* ------------------------ the end of a server --------------------------- *)

\* A connection that the server's end closed has no thread any more, and
\* nothing on its way to one.
EndIsFinal(c, s) == serverEnd[c][s] # "open" =>
  /\ spc[s][c] = "none" /\ c2s[c][s] = <<>>
  /\ cpc[c] = "connect" => s < srv[c]
EndsAreFinal == \A c \in Client, s \in Server : EndIsFinal(c, s)

LEMMA EndsInit == Init => EndsAreFinal
BY DEF Init, EndsAreFinal, EndIsFinal

\* What a client sends to a server that has ended is lost.
LEMMA SendsToTheEnd ==
  ASSUME NetType, NEW c \in Client, NEW s \in Server, NEW units, NEW u \in Server,
         ClientSends(c, s, units)
  PROVE  serverEnd'[c][u] # "open" =>
           serverEnd[c][u] # "open" /\ c2s'[c][u] = c2s[c][u]
BY DEF NetType, ClientSends

LEMMA ClientsEnds ==
  ASSUME TypeInv, EndsAreFinal, NEW c \in Client, ClientStep(c) \/ Kill(c), ~Connect(c),
         NEW s \in Server, serverEnd'[c][s] # "open"
  PROVE  serverEnd[c][s] # "open" /\ c2s'[c][s] = <<>>
<1>0. NetType /\ LoopInRange(c) /\ EndIsFinal(c, s)
  BY DEF TypeInv, TypeOK, LoopsInRange, EndsAreFinal
<1>1. CASE UNCHANGED <<c2s, serverEnd>>
  BY <1>0, <1>1 DEF EndIsFinal
<1>2. CASE PutSend(c) \/ GetQuery(c) \/ ListQuery(c) \/ GetReady(c)
  <2>1. \E u \in Server : \E units : ClientSends(c, u, units)
    <3>1. CASE PutSend(c)
      BY <1>0, <3>1 DEF PutSend, LoopInRange
    <3>2. CASE GetQuery(c)
      BY <3>2 DEF GetQuery
    <3>3. CASE ListQuery(c)
      BY <3>3 DEF ListQuery
    <3>4. CASE GetReady(c)
      BY <1>0, <3>4 DEF GetReady, LoopInRange
    <3> QED BY <1>2, <3>1, <3>2, <3>3, <3>4
  <2> QED BY <1>0, <2>1, SendsToTheEnd DEF EndIsFinal
<1>3. CASE Finish(c)
  <2>1. PICK cut \in 1..(N+1) :
          c2s' = [c2s EXCEPT ![c] = [u \in Server |->
            IF u < cut /\ live[c][u] /\ serverEnd[c][u] = "open"
            THEN Append(c2s[c][u], [t |-> "done"]) ELSE c2s[c][u]]]
    BY <1>3 DEF Finish
  <2>2. UNCHANGED serverEnd
    BY <1>3 DEF Finish
  <2> QED BY <1>0, <2>1, <2>2 DEF NetType, EndIsFinal
<1>4. CASE Kill(c) /\ ~UNCHANGED c2s
  <2>1. /\ cpc[c] = "put_ack" /\ c2s[c][srv[c]] # <<>>
        /\ c2s' = [c2s EXCEPT ![c][srv[c]] =
                    SubSeq(c2s[c][srv[c]], 1, Len(c2s[c][srv[c]]) - 1)]
        /\ UNCHANGED serverEnd
    BY <1>4 DEF Kill
  <2>2. s # srv[c]
    BY <1>0, <2>1 DEF EndIsFinal
  <2> QED BY <1>0, <2>1, <2>2 DEF NetType, EndIsFinal
<1>5. \/ UNCHANGED <<c2s, serverEnd>> \/ PutSend(c) \/ GetQuery(c) \/ ListQuery(c)
      \/ GetReady(c) \/ Finish(c) \/ (Kill(c) /\ ~UNCHANGED c2s)
  <2>1. CASE Kill(c)
    BY <2>1 DEF Kill
  <2>2. CASE ~Kill(c)
    BY <2>2 DEF ClientStep, Connect, PutRefused, PutStart, GetStart, ListStart, PutSkip,
       PutSendDies, PutAcked, PutEof, PutFails, GetQueryDies, GetMissing, GetJunk, GetNot,
       GetFails, GetData, GetDataFails, GetDataForEver, ListAnswered, ListFails,
       ListFailsDies, ListShow, Dies, net
  <2> QED BY <2>1, <2>2
<1> QED BY <1>1, <1>2, <1>3, <1>4, <1>5

LEMMA EndsClients ==
  ASSUME TypeInv, EndsAreFinal, NEW c \in Client, ClientStep(c) \/ Kill(c)
  PROVE  EndsAreFinal'
<1> SUFFICES ASSUME NEW d \in Client, NEW s \in Server, serverEnd'[d][s] # "open"
             PROVE  /\ spc'[s][d] = "none" /\ c2s'[d][s] = <<>>
                    /\ cpc'[d] = "connect" => s < srv'[d]
  BY DEF EndsAreFinal, EndIsFinal
<1>1. CASE d # c
  <2>1. /\ spc'[s][d] = spc[s][d] /\ c2s'[d] = c2s[d] /\ serverEnd'[d] = serverEnd[d]
        /\ cpc'[d] = cpc[d] /\ srv'[d] = srv[d]
    BY <1>1, OthersKept DEF ClientKept, ProgressKept, NetKept
  <2> QED BY <2>1 DEF EndsAreFinal, EndIsFinal
<1>2. CASE d = c /\ Connect(c)
  <2>1. /\ cpc[c] = "connect" /\ UNCHANGED <<c2s, serverEnd>>
        /\ spc' = IF up[srv[c]] THEN [spc EXCEPT ![srv[c]][c] = "recv"] ELSE spc
        /\ srv' = [srv EXCEPT ![c] = srv[c] + 1] \/ cpc' = [cpc EXCEPT ![c] = "dispatch"]
    BY <1>2 DEF Connect, net
  <2>2. spc[s][c] = "none" /\ c2s[c][s] = <<>> /\ s < srv[c]
    BY <1>2, <2>1 DEF EndsAreFinal, EndIsFinal
  <2>3. spc'[s][c] = "none"
    BY <2>1, <2>2 DEF TypeInv, TypeOK, ServerType, Server
  <2>4. cpc'[c] = "connect" => s < srv'[c]
    BY <2>1, <2>2 DEF TypeInv, TypeOK, ClientType, Server
  <2> QED BY <1>2, <2>1, <2>2, <2>3, <2>4
<1>3. CASE d = c /\ ~Connect(c)
  <2>1. serverEnd[c][s] # "open" /\ c2s'[c][s] = <<>>
    BY <1>3, ClientsEnds
  <2>2. UNCHANGED spc
    BY <1>3, ClientsLeaveThreads
  <2>3. cpc'[c] # "connect"
    BY <1>3, ClientsMoveAlone DEF TypeInv, TypeOK, ClientType
  <2> QED BY <1>3, <2>1, <2>2, <2>3 DEF EndsAreFinal, EndIsFinal
<1> QED BY <1>1, <1>2, <1>3

LEMMA EndsDeath ==
  ASSUME TypeInv, MutexInv, EndsAreFinal, NEW s \in Server, ServerDies(s)
  PROVE  EndsAreFinal'
<1> SUFFICES ASSUME NEW d \in Client, NEW u \in Server, serverEnd'[d][u] # "open"
             PROVE  /\ spc'[u][d] = "none" /\ c2s'[d][u] = <<>>
                    /\ cpc'[d] = "connect" => u < srv'[d]
  BY DEF EndsAreFinal, EndIsFinal
<1>1. /\ UNCHANGED <<cpc, srv>>
      /\ spc' = [spc EXCEPT ![s] = [c \in Client |-> "none"]]
      /\ c2s' = [c \in Client |-> [c2s[c] EXCEPT ![s] = <<>>]]
      /\ serverEnd' = [c \in Client |-> [serverEnd[c] EXCEPT ![s] =
           IF spc[s][c] \in {"none", "ended"} THEN @
           ELSE IF c2s[c][s] = <<>> THEN "fin" ELSE "rst"]]
  BY DEF ServerDies, progress
<1>2. CASE u # s
  <2>1. spc'[u] = spc[u] /\ c2s'[d][u] = c2s[d][u] /\ serverEnd'[d][u] = serverEnd[d][u]
    BY <1>1, <1>2 DEF TypeInv, TypeOK, NetType, ServerType
  <2> QED BY <1>1, <2>1 DEF EndsAreFinal, EndIsFinal
<1>3. CASE u = s
  <2>1. spc'[s][d] = "none" /\ c2s'[d][s] = <<>>
    BY <1>1 DEF TypeInv, TypeOK, NetType, ServerType
  <2>2. CASE spc[s][d] \in {"none", "ended"}
    <3>1. serverEnd'[d][s] = serverEnd[d][s]
      BY <1>1, <2>2 DEF TypeInv, TypeOK, NetType
    <3> QED BY <1>1, <1>3, <2>1, <3>1 DEF EndsAreFinal, EndIsFinal
  <2>3. CASE spc[s][d] \notin {"none", "ended"}
    <3>1. cpc[d] = "connect" => ~(srv[d] <= s)
      BY <2>3 DEF MutexInv, NoThreadYet
    <3> QED BY <1>1, <1>3, <2>1, <3>1 DEF TypeInv, TypeOK, ClientType, Server
  <2> QED BY <2>2, <2>3
<1> QED BY <1>2, <1>3

LEMMA EndsThreads ==
  ASSUME TypeInv, MutexInv, EndsAreFinal, NEW s \in Server, NEW c \in Client,
         ThreadStep(s, c), ~ServerDies(s)
  PROVE  EndsAreFinal'
<1>1. spc[s][c] # "none"
  BY ThreadsMove DEF ThreadMove, MutexInv
<1>2. /\ UNCHANGED <<progress, serverEnd>>
      /\ \A u \in Server, d \in Client : u # s \/ d # c =>
              spc'[u][d] = spc[u][d] /\ c2s'[d][u] = c2s[d][u]
  BY ThreadsLeaveOthers
<1>3. UNCHANGED <<cpc, srv>>
  BY <1>2 DEF progress
<1>4. serverEnd[c][s] = "open"
  BY <1>1 DEF EndsAreFinal, EndIsFinal
<1> QED BY <1>2, <1>3, <1>4 DEF EndsAreFinal, EndIsFinal

LEMMA EndsStep ==
  TypeInv /\ MutexInv /\ EndsAreFinal /\ [Next]_vars => EndsAreFinal'
<1> SUFFICES ASSUME TypeInv, MutexInv, EndsAreFinal, [Next]_vars PROVE EndsAreFinal'
  OBVIOUS
<1>1. CASE UNCHANGED vars
  BY <1>1 DEF vars, progress, net, server, EndsAreFinal, EndIsFinal
<1>2. ASSUME NEW c \in Client, ClientStep(c) \/ Kill(c) PROVE EndsAreFinal'
  BY <1>2, EndsClients
<1>3. ASSUME NEW s \in Server, Crash(s) \/ Restart(s) PROVE EndsAreFinal'
  <2>1. CASE Crash(s)
    BY <2>1, EndsDeath DEF Crash
  <2>2. CASE Restart(s)
    BY <2>2 DEF Restart, progress, net, EndsAreFinal, EndIsFinal
  <2> QED BY <1>3, <2>1, <2>2
<1>4. ASSUME NEW s \in Server, NEW c \in Client, ThreadStep(s, c) PROVE EndsAreFinal'
  BY <1>4, EndsDeath, EndsThreads
<1> QED BY <1>1, <1>2, <1>3, <1>4 DEF Next

(* -------------------------- the timestamps ------------------------------ *)

\* No two runs have the same timestamp, when the clock does not show two of
\* them the same time.
StampsApart ==
  /\ \A c \in Client : ts[c] <= clock
  /\ \A c, d \in Client : ts[c] # 0 /\ ts[c] = ts[d] => c = d

LEMMA StampsInit == Init => StampsApart
BY DEF Init, StampsApart

\* Only the start of a put reads the clock, and time passes only there.
LEMMA TimeStands ==
  ASSUME TypeInv, [Next]_vars
  PROVE  UNCHANGED <<ts, clock>> \/ \E c \in Client : PutStart(c)
<1>1. ASSUME NEW c \in Client, ClientStep(c) \/ Kill(c), ~PutStart(c)
      PROVE  UNCHANGED <<ts, clock>>
  BY <1>1 DEF ClientStep, Connect, PutRefused, GetStart, ListStart, PutSkip, PutSend,
     PutSendDies, PutAcked, PutEof, PutFails, GetQuery, GetQueryDies, GetMissing, GetJunk,
     GetReady, GetNot, GetFails, GetData, GetDataFails, GetDataForEver, ListQuery,
     ListAnswered, ListFails, ListFailsDies, ListShow, Finish, Kill, Dies, RecvFails,
     memory, env
<1>2. ASSUME NEW s \in Server, ServerDies(s) \/ Restart(s) PROVE UNCHANGED <<ts, clock>>
  BY <1>2 DEF ServerDies, Restart, memory
<1>3. ASSUME NEW s \in Server, NEW c \in Client, ThreadStep(s, c) PROVE UNCHANGED <<ts, clock>>
  <2>1. CASE ServerDies(s)
    BY <1>2, <2>1
  <2>2. CASE ~ServerDies(s)
    BY <1>3, <2>2, ThreadsLeaveOthers DEF memory, env
  <2> QED BY <2>1, <2>2
<1>4. CASE UNCHANGED vars
  BY <1>4 DEF vars, memory, env
<1> QED BY <1>1, <1>2, <1>3, <1>4 DEF Next, Crash

LEMMA StampsStep ==
  ASSUME ~SameMicrosecond
  PROVE  TypeInv /\ StampsApart /\ [Next]_vars => StampsApart'
<1> SUFFICES ASSUME TypeInv, StampsApart, [Next]_vars PROVE StampsApart'
  OBVIOUS
<1>0. MemoryType /\ clock \in Nat
  BY DfsAssumption DEF TypeInv, TypeOK, EnvType
<1>1. CASE UNCHANGED <<ts, clock>>
  BY <1>1 DEF StampsApart
<1>2. ASSUME NEW c \in Client, PutStart(c) PROVE StampsApart'
  <2>1. PICK t \in Stamp : t = clock + 1 /\ ts' = [ts EXCEPT ![c] = t] /\ clock' = t
    BY <1>2 DEF PutStart
  <2>2. \A d \in Client : ts[d] \in Nat /\ ts[d] < t
    BY <1>0, <2>1, DfsAssumption DEF StampsApart, MemoryType, Stamp
  <2>3. ts'[c] = t /\ \A d \in Client \ {c} : ts'[d] = ts[d]
    BY <1>0, <2>1 DEF MemoryType
  <2>4. \A d \in Client : ts'[d] <= clock'
    BY <2>1, <2>2, <2>3
  <2>5. \A d, e \in Client : ts'[d] # 0 /\ ts'[d] = ts'[e] => d = e
    BY <2>2, <2>3 DEF StampsApart
  <2> QED BY <2>4, <2>5 DEF StampsApart
<1> QED BY <1>1, <1>2, TimeStands
=============================================================================
