-------------------------- MODULE DfsStore_proofs --------------------------
(***************************************************************************)
(* Dfs implements ChunkStore, for any number of servers, clients and files *)
(* and all the failures of Dfs; and the two sides of a connection stay in  *)
(* step.                                                                   *)
(***************************************************************************)
EXTENDS DfsStore, DfsGets_proofs

(* ------------------------- what the words map to ------------------------ *)

NoneYet == [path |-> NoPath, ver |-> "none"]

LEMMA NoWords == RequestIn(<<>>) = NoPath /\ AnswerIn(<<>>) = NoneYet
BY DEF RequestIn, AnswerIn, NoneYet

LEMMA OneOnly ==
  ASSUME NEW x
  PROVE  DOMAIN <<x>> = {1} /\ <<x>>[1] = x
OBVIOUS

LEMMA ChosenOne == (CHOOSE i \in {1} : TRUE) = 1
<1>1. \E i \in {1} : TRUE
  OBVIOUS
<1> QED BY <1>1

LEMMA OneRequestIn ==
  ASSUME NEW m
  PROVE  /\ m.t = "get" => RequestIn(<<m>>) = [file |-> m.file, chunk |-> m.chunk, ts |-> 0]
         /\ m.t # "get" => RequestIn(<<m>>) = NoPath
<1> DEFINE gets == {i \in DOMAIN <<m>> : <<m>>[i].t = "get"}
<1>1. CASE m.t = "get"
  <2>1. gets = {1}
    BY <1>1, OneOnly
  <2>2. <<m>>[CHOOSE i \in gets : TRUE] = m
    BY <2>1, ChosenOne, OneOnly
  <2> QED BY <1>1, <2>1, <2>2 DEF RequestIn
<1>2. CASE m.t # "get"
  <2>1. gets = {}
    BY <1>2, OneOnly
  <2> QED BY <1>2, <2>1 DEF RequestIn
<1> QED BY <1>1, <1>2

LEMMA OneAnswerIn ==
  ASSUME NEW m
  PROVE  /\ m.t = "data" => AnswerIn(<<m>>) = [path |-> m.path, ver |-> m.ver]
         /\ m.t = "not found" => AnswerIn(<<m>>) = [path |-> NoPath, ver |-> None]
         /\ m.t \notin {"data", "not found"} => AnswerIn(<<m>>) = NoneYet
<1> DEFINE answers == {i \in DOMAIN <<m>> : <<m>>[i].t \in {"data", "not found"}}
<1>1. CASE m.t \in {"data", "not found"}
  <2>1. answers = {1}
    BY <1>1, OneOnly
  <2>2. <<m>>[CHOOSE i \in answers : TRUE] = m
    BY <2>1, ChosenOne, OneOnly
  <2> QED BY <1>1, <2>1, <2>2 DEF AnswerIn
<1>2. CASE m.t \notin {"data", "not found"}
  <2> DOMAIN <<m>> = {1} /\ <<m>>[1] = m
    BY OneOnly
  <2>1. answers = {}
    BY <1>2
  <2> QED BY <1>2, <2>1 DEF AnswerIn, NoneYet
<1> QED BY <1>1, <1>2

(* --------------------- what a get does to a connection ------------------ *)

\* A connection of a get has one word on it at most, and none while a thread
\* waits for the mutex; what waits for its "Ready" has sent a size.
Line(c, s) ==
  \/ c2s[c][s] = <<>> /\ s2c[c][s] = <<>>
  \/ s2c[c][s] = <<>> /\ spc[s][c] # "get_lock" /\ \E m : c2s[c][s] = <<m>>
  \/ /\ c2s[c][s] = <<>> /\ spc[s][c] # "get_lock"
     /\ \E m : s2c[c][s] = <<m>> /\ (spc[s][c] = "get_ready" => m.t = "size")
LineInv == \A c \in Gets, s \in Server : Line(c, s)

Keeps(c, s) == c2s'[c][s] = c2s[c][s] /\ s2c'[c][s] = s2c[c][s]
Hears(c, s) == c2s'[c][s] = c2s[c][s] /\ s2c'[c][s] = <<>>
Says(c, s) ==
  /\ c2s[c][s] = <<>> /\ s2c'[c][s] = <<>> /\ spc[s][c] # "get_lock"
  /\ AnswerIn(s2c[c][s]) = NoneYet
  /\ \E m : /\ c2s'[c][s] = <<m>>
             /\ \/ m.t = "ready" /\ spc[s][c] = "get_ready"
                \/ m.t = "done" /\ Free(c, s)
Asks(c, s) ==
  /\ c2s[c][s] = <<>> /\ s2c[c][s] = <<>> /\ s2c'[c][s] = <<>> /\ Free(c, s)
  /\ c2s'[c][s] = <<Request(c)>> /\ F(c) \in File /\ pos[c] \in Chunk
Talks(c) ==
  \/ Ended(c)' /\ \A s \in Server : Hears(c, s) \/ Says(c, s)
  \/ /\ ~Ended(c)'
     /\ \E s \in Server : /\ \A u \in Server \ {s} : Keeps(c, u)
                          /\ Keeps(c, s) \/ Hears(c, s) \/ Says(c, s) \/ Asks(c, s)

\* The steps after which the connections are as before.
LEMMA TalksNot ==
  ASSUME TypeInv, NEW c \in Client, UNCHANGED <<c2s, s2c>>, ~Ended(c)'
  PROVE  Talks(c)
<1>1. 1 \in Server
  BY NAssumption DEF Server
<1> QED BY <1>1 DEF Talks, Keeps

LEMMA TalksQuery ==
  ASSUME TalkInv, NEW c \in Gets, GetQuery(c)
  PROVE  Talks(c)
<1>0. /\ c \in Client /\ ClientType /\ NetType
      /\ \A s \in Server : live[c][s] => Quiet(c, s)
  BY OfGet DEF GetQuery, OneRequest
<1>1. PICK s \in Server : NextToAsk(c, s) /\ ClientSends(c, s, <<Request(c)>>)
  BY DEF GetQuery, Request
<1>2. s2c' = s2c /\ ~Ended(c)'
  BY <1>0 DEF GetQuery, ClientType, Ended
<1>3. Quiet(c, s)
  BY <1>0, <1>1 DEF NextToAsk
<1>4. \A u \in Server \ {s} : Keeps(c, u)
  BY <1>0, <1>1, <1>2 DEF ClientSends, NetType, Keeps
<1>5. Keeps(c, s) \/ Asks(c, s)
  <2>1. CASE serverEnd[c][s] = "open"
    <3>1. c2s'[c][s] = c2s[c][s] \o <<Request(c)>>
      BY <1>0, <1>1, <2>1 DEF ClientSends, NetType
    <3>2. c2s'[c][s] = <<Request(c)>>
      BY <1>3, <3>1, Singles DEF Quiet
    <3>3. F(c) \in File /\ pos[c] \in Chunk
      <4>1. ~NoMoreArgs(c) /\ TypeInv
        BY DEF GetQuery, TalkInv
      <4> QED BY <1>0, <4>1, FileOfArg DEF TypeInv, ClientType, LoopsInRange, LoopInRange
    <3> QED BY <1>2, <1>3, <3>2, <3>3 DEF Asks, Quiet
  <2>2. CASE serverEnd[c][s] # "open"
    BY <1>1, <1>2, <2>2 DEF ClientSends, Keeps
  <2> QED BY <2>1, <2>2
<1> QED BY <1>2, <1>4, <1>5 DEF Talks

LEMMA TalksReady ==
  ASSUME TalkInv, NEW c \in Gets, GetReady(c)
  PROVE  Talks(c)
<1> PICK s \in Server : s = srv[c]
  BY OfGet DEF GetReady, LoopInRange
<1>0. /\ c \in Client /\ ClientType /\ NetType /\ Asking(c, s)
  BY OfGet DEF GetReady, OneRequest
<1>1. /\ Arrived(c, s) /\ Head(s2c[c][s]).t = "size"
      /\ Receive(c, s) /\ ClientSends(c, s, <<Ready>>) /\ ~Ended(c)'
  BY <1>0 DEF GetReady, Ready, ClientType, Ended
<1>2. /\ s2c'[c][s] = Tail(s2c[c][s])
      /\ \A u \in Server \ {s} : Keeps(c, u)
  BY <1>0, <1>1, ReceivesOne DEF ClientSends, NetType, Keeps
<1>3. /\ c2s[c][s] = <<>> /\ spc[s][c] # "get_lock"
      /\ \E x : s2c[c][s] = <<x>>
  BY <1>0, <1>1 DEF Arrived, Asking, Quiet, AtRest
<1>4. s2c'[c][s] = <<>> /\ AnswerIn(s2c[c][s]) = NoneYet
  <2>1. PICK x : s2c[c][s] = <<x>>
    BY <1>3
  <2>2. x.t = "size" /\ Tail(s2c[c][s]) = <<>>
    BY <1>1, <2>1, Singles
  <2> QED BY <1>2, <2>1, <2>2, OneAnswerIn
<1>5. Says(c, s) \/ Hears(c, s)
  <2>1. CASE serverEnd[c][s] = "open"
    <3>1. c2s'[c][s] = c2s[c][s] \o <<Ready>>
      BY <1>0, <1>1, <2>1 DEF ClientSends, NetType
    <3>2. c2s'[c][s] = <<Ready>> /\ Ready.t = "ready"
      BY <1>3, <3>1, Singles DEF Ready
    <3>3. spc[s][c] = "get_ready"
      <4>0. NotFound.t # "size"
        BY DEF NotFound
      <4>1. Head(<<NotFound>>).t # "size"
        BY <4>0, Singles
      <4>2. s2c[c][s] # <<>> /\ s2c[c][s] # <<NotFound>>
        BY <1>1, <4>1 DEF Arrived
      <4> QED BY <1>0, <2>1, <4>2 DEF Asking, Quiet
    <3> QED BY <1>3, <1>4, <3>2, <3>3 DEF Says
  <2>2. CASE serverEnd[c][s] # "open"
    BY <1>1, <1>4, <2>2 DEF ClientSends, Hears
  <2> QED BY <2>1, <2>2
<1> QED BY <1>1, <1>2, <1>5 DEF Talks

LEMMA TalksTakes ==
  ASSUME TalkInv, NEW c \in Gets, GetNot(c) \/ GetData(c)
  PROVE  Talks(c)
<1> PICK s \in Server : s = srv[c]
  BY OfGet DEF GetNot, GetData, LoopInRange
<1>0. /\ c \in Client /\ ClientType /\ NetType
      /\ Asking(c, s) \/ Reading(c, s)
  BY OfGet DEF GetNot, GetData, OneRequest
<1>a. c2s' = c2s /\ ((Arrived(c, s) /\ Receive(c, s)) \/ UNCHANGED s2c)
  BY DEF GetNot, GetData
<1>b. cpc'[c] = "get_query"
  BY <1>0 DEF GetNot, GetData, NextChunk, NextFile, ClientType
<1>1. ~Ended(c)' /\ c2s' = c2s /\ ((Arrived(c, s) /\ Receive(c, s)) \/ UNCHANGED s2c)
  BY <1>a, <1>b DEF Ended
<1>2. CASE UNCHANGED s2c
  BY <1>1, <1>2, TalksNot DEF TalkInv, Gets
<1>3. CASE Arrived(c, s) /\ Receive(c, s)
  <2>1. /\ s2c'[c][s] = Tail(s2c[c][s])
        /\ \A u \in Server \ {s} : Keeps(c, u)
    BY <1>0, <1>1, <1>3, ReceivesOne DEF Keeps
  <2>2. \E x : s2c[c][s] = <<x>>
    BY <1>0, <1>3 DEF Arrived, Asking, Reading, Quiet
  <2>3. Hears(c, s)
    BY <1>1, <2>1, <2>2, Singles DEF Hears
  <2> QED BY <1>1, <2>1, <2>3 DEF Talks
<1> QED BY <1>1, <1>2, <1>3

\* The ends of a run.  Only Finish says something, to servers that have
\* nothing to do for it.
LEMMA ClosesAll ==
  ASSUME NetType, NEW c \in Client, CloseAll(c)
  PROVE  \A s \in Server : s2c'[c][s] = <<>>
BY DEF NetType, CloseAll

LEMMA TalksNoMore ==
  ASSUME TalkInv, NEW c \in Gets, Finish(c)
  PROVE  Talks(c)
<1>0. /\ c \in Client /\ ClientType /\ NetType /\ Job[c].cmd = "get"
      /\ cpc[c] \in StatesOf(c)
  BY OfGet DEF Gets, TalkInv, RolesKept
<1>1. cpc[c] = "get_query"
  BY <1>0 DEF Finish, StatesOf
<1>2. \A s \in Server : live[c][s] => Quiet(c, s)
  BY <1>1, OfGet DEF OneRequest
<1>3. \A s \in Server : s2c'[c][s] = <<>>
  BY <1>0, ClosesAll DEF Finish
<1> DEFINE done == [t |-> "done"]
<1>4. done.t = "done"
  OBVIOUS
<1> HIDE DEF done
<1>5. PICK cut \in 1..(N+1) :
        c2s' = [c2s EXCEPT ![c] = [s \in Server |->
          IF s < cut /\ live[c][s] /\ serverEnd[c][s] = "open"
          THEN Append(c2s[c][s], done) ELSE c2s[c][s]]]
  BY DEF Finish, done
<1>6. ASSUME NEW s \in Server PROVE Hears(c, s) \/ Says(c, s)
  <2>1. CASE c2s'[c][s] = c2s[c][s]
    BY <1>3, <2>1 DEF Hears
  <2>2. CASE c2s'[c][s] # c2s[c][s]
    <3>1. live[c][s] /\ c2s'[c][s] = Append(c2s[c][s], done)
      BY <1>0, <1>5, <2>2 DEF NetType
    <3>2. /\ c2s[c][s] = <<>> /\ s2c[c][s] = <<>> /\ spc[s][c] # "get_lock"
          /\ Free(c, s)
      BY <1>2, <3>1 DEF Quiet, Free, AtRest, Stale
    <3>3. c2s'[c][s] = <<done>>
      BY <3>1, <3>2
    <3> QED BY <1>3, <1>4, <3>2, <3>3, NoWords DEF Says
  <2> QED BY <2>1, <2>2
<1>7. Ended(c)'
  BY <1>0 DEF Finish, ClientType, Ended
<1> QED BY <1>6, <1>7 DEF Talks

LEMMA TalksCut ==
  ASSUME TalkInv, NEW c \in Gets, GetQueryDies(c) \/ GetDataFails(c) \/ Kill(c)
  PROVE  Talks(c)
<1>0. /\ c \in Client /\ ClientType /\ NetType /\ Job[c].cmd = "get"
      /\ cpc[c] \in StatesOf(c)
  BY OfGet DEF Gets, TalkInv, RolesKept
<1>1. cpc[c] # "put_ack"
  BY <1>0 DEF StatesOf
<1>2. UNCHANGED c2s /\ CloseAll(c) /\ cpc'[c] = "killed"
  BY <1>0, <1>1 DEF GetQueryDies, GetDataFails, Kill, Dies, ClientType
<1>3. Ended(c)'
  BY <1>2 DEF Ended
<1> QED BY <1>0, <1>2, <1>3, ClosesAll DEF Talks, Hears

LEMMA TalksOfOne ==
  ASSUME TalkInv, NEW c \in Gets, ClientStep(c) \/ Kill(c)
  PROVE  Talks(c)
<1>0. c \in Client /\ TypeInv /\ ClientType
  BY OfGet DEF TalkInv
<1>1. GetStep(c)
  BY StepsOfGet DEF TalkInv
<1>2. CASE Connect(c) \/ GetStart(c)
  <2>1. UNCHANGED <<c2s, s2c>> /\ cpc'[c] \in {"connect", "dispatch", "get_query"}
    BY <1>0, <1>2 DEF Connect, GetStart, net, ClientType
  <2> QED BY <1>0, <2>1, TalksNot DEF Ended
<1>3. CASE GetMissing(c) \/ GetJunk(c) \/ GetFails(c) \/ GetDataForEver(c)
  <2>1. UNCHANGED <<c2s, s2c>> /\ cpc'[c] \in {"get_query", "wedged"}
    BY <1>0, <1>3 DEF GetMissing, GetJunk, GetFails, GetDataForEver, NextChunk, NextFile, net,
       ClientType
  <2> QED BY <1>0, <2>1, TalksNot DEF Ended
<1> QED BY <1>1, <1>2, <1>3, TalksQuery, TalksReady, TalksTakes, TalksNoMore, TalksCut DEF GetStep

(* ------------------------ one word at most ------------------------------ *)

LEMMA LineTalks ==
  ASSUME NEW c, NEW s, Line(c, s), Keeps(c, s) \/ Hears(c, s) \/ Says(c, s) \/ Asks(c, s),
         spc'[s][c] = spc[s][c] \/ spc'[s][c] = "recv"
  PROVE  Line(c, s)'
<1>1. CASE Keeps(c, s)
  BY <1>1 DEF Line, Keeps
<1>2. CASE Hears(c, s)
  BY <1>2 DEF Line, Hears
<1>3. CASE Says(c, s)
  BY <1>3 DEF Line, Says
<1>4. CASE Asks(c, s)
  BY <1>4 DEF Line, Asks, Free, AtRest, Stale
<1> QED BY <1>1, <1>2, <1>3, <1>4

LEMMA LineOfOne ==
  ASSUME TalkInv, LineInv, NEW c \in Gets, ClientStep(c) \/ Kill(c), NEW s \in Server
  PROVE  Line(c, s)'
<1>1. Line(c, s)
  BY DEF LineInv
<1>2. spc'[s][c] = spc[s][c] \/ spc'[s][c] = "recv"
  <2>0. c \in Client /\ ServerType
    BY OfGet
  <2>1. CASE Connect(c)
    BY <2>0, <2>1 DEF Connect, ServerType
  <2>2. CASE ~Connect(c)
    BY <2>0, <2>2, ClientsLeaveThreads
  <2> QED BY <2>1, <2>2
<1>3. Keeps(c, s) \/ Hears(c, s) \/ Says(c, s) \/ Asks(c, s)
  BY TalksOfOne DEF Talks
<1> QED BY <1>1, <1>2, <1>3, LineTalks

LEMMA LineServed ==
  ASSUME TypeInv, RolesKept, NEW s \in Server, NEW c \in Gets, Line(c, s), ThreadStep(s, c),
         ~ServerDies(s)
  PROVE  Line(c, s)'
<1>0. c \in Client /\ NetType /\ ServerType
  BY DEF Gets, TypeInv, TypeOK
<1>1. CASE RecvGet(s, c)
  <2>1. c2s[c][s] # <<>> /\ c2s'[c][s] = Tail(c2s[c][s]) /\ s2c' = s2c
    BY <1>0, <1>1, GetFound
  <2>2. s2c[c][s] = <<>> /\ c2s'[c][s] = <<>>
    BY <2>1, Singles DEF Line
  <2> QED BY <2>1, <2>2 DEF Line
<1>2. CASE RecvGetNotFound(s, c)
  <2>1. /\ c2s[c][s] # <<>> /\ c2s'[c][s] = Tail(c2s[c][s]) /\ spc[s][c] = "recv"
        /\ UNCHANGED server
    BY <1>0, <1>2, GetNotFound
  <2>2. s2c[c][s] = <<>> /\ c2s'[c][s] = <<>> /\ spc'[s][c] = "recv"
    BY <2>1, Singles DEF Line, server
  <2>3. Reply(s, c, <<NotFound>>)
    BY <1>2 DEF RecvGetNotFound, NotFound
  <2>4. s2c'[c][s] = <<>> \/ s2c'[c][s] = <<>> \o <<NotFound>>
    BY <1>0, <2>2, <2>3 DEF Reply, NetType
  <2>5. s2c'[c][s] = <<>> \/ s2c'[c][s] = <<NotFound>>
    BY <2>4, Singles
  <2> QED BY <2>2, <2>5 DEF Line
<1>3. CASE GetOpen(s, c)
  <2>1. /\ spc[s][c] = "get_lock" /\ spc'[s][c] = "get_ready" /\ UNCHANGED c2s
    BY <1>0, <1>3, GetOpens
  <2>2. c2s'[c][s] = <<>> /\ s2c[c][s] = <<>>
    BY <2>1 DEF Line
  <2> DEFINE m == [t |-> "size", some |-> HasBytes(s, cur[s][c])]
  <2>3. Reply(s, c, <<m>>) /\ m.t = "size"
    BY <1>3 DEF GetOpen
  <2> HIDE DEF m
  <2>4. s2c'[c][s] = <<>> \/ s2c'[c][s] = <<>> \o <<m>>
    BY <1>0, <2>2, <2>3 DEF Reply, NetType
  <2>5. s2c'[c][s] = <<>> \/ s2c'[c][s] = <<m>>
    BY <2>4, Singles
  <2> QED BY <2>1, <2>2, <2>3, <2>5 DEF Line
<1>4. CASE GetSend(s, c)
  <2>1. /\ spc[s][c] = "get_ready" /\ spc'[s][c] = "recv"
        /\ \/ c2s[c][s] # <<>> /\ c2s'[c][s] = Tail(c2s[c][s])
           \/ c2s[c][s] = <<>> /\ clientEnd[c][s] # "open" /\ c2s' = c2s
    BY <1>0, <1>4, GetSends
  <2>2. c2s'[c][s] = <<>> /\ (c2s[c][s] # <<>> => s2c[c][s] = <<>>)
    BY <2>1, Singles DEF Line
  <2> DEFINE p == cur[s][c]
             m == [t |-> "data", path |-> p, ver |-> disk[s][p].ver, st |-> disk[s][p].st]
  <2>3. Reply(s, c, IF HasBytes(s, p) THEN <<m>> ELSE <<>>)
    BY <1>4 DEF GetSend
  <2> HIDE DEF m, p
  <2>4. \/ s2c'[c][s] = s2c[c][s]
        \/ clientEnd[c][s] = "open" /\ s2c'[c][s] = s2c[c][s] \o <<m>>
    <3>1. CASE HasBytes(s, p)
      BY <1>0, <2>3, <3>1 DEF Reply, NetType
    <3>2. CASE ~HasBytes(s, p)
      <4>1. Reply(s, c, <<>>)
        BY <2>3, <3>2
      <4>2. s2c[c][s] \o <<>> = s2c[c][s]
        BY <1>0 DEF NetType
      <4> QED BY <1>0, <4>1, <4>2 DEF Reply, NetType
    <3> QED BY <3>1, <3>2
  <2>5. s2c'[c][s] = s2c[c][s] \/ s2c'[c][s] = <<m>>
    BY <2>1, <2>2, <2>4, Singles
  <2> QED BY <2>1, <2>2, <2>5 DEF Line
<1>5. CASE RecvDone(s, c)
  <2>1. /\ spc'[s][c] = "ended" /\ UNCHANGED s2c
        /\ \/ c2s[c][s] # <<>> /\ c2s'[c][s] = Tail(c2s[c][s])
           \/ c2s[c][s] = <<>> /\ c2s' = c2s
    BY <1>0, <1>5, DoneServed
  <2>2. c2s'[c][s] = <<>> /\ (c2s[c][s] # <<>> => s2c[c][s] = <<>>)
    BY <2>1, Singles DEF Line
  <2> QED BY <2>1, <2>2 DEF Line
<1> QED BY <1>1, <1>2, <1>3, <1>4, <1>5, ThreadsOfGet

LEMMA LineKept ==
  ASSUME NEW c, NEW s, Line(c, s), spc'[s][c] = spc[s][c], Keeps(c, s)
  PROVE  Line(c, s)'
BY DEF Line, Keeps

LEMMA LineInit == Init => LineInv
BY DEF Init, LineInv, Line, Gets

LEMMA LineStep == TalkInv /\ LineInv /\ [Next]_vars => LineInv'
<1> SUFFICES ASSUME TalkInv, LineInv, [Next]_vars, NEW c \in Gets, NEW s \in Server
             PROVE  Line(c, s)'
  BY DEF LineInv, Gets
<1>0. /\ c \in Client /\ Line(c, s) /\ TypeInv /\ RolesKept /\ NetType /\ ServerType
  BY OfGet DEF TalkInv, LineInv
<1>1. ASSUME NEW d \in Client, ClientStep(d) \/ Kill(d) PROVE Line(c, s)'
  <2>1. CASE d = c
    BY <1>1, <2>1, LineOfOne
  <2>2. CASE d # c
    <3>1. NetKept(c) /\ spc'[s][c] = spc[s][c]
      BY <1>0, <1>1, <2>2, OthersKept DEF ClientKept
    <3> QED BY <1>0, <3>1, LineKept DEF NetKept, Keeps
  <2> QED BY <2>1, <2>2
<1>2. ASSUME NEW u \in Server, ServerDies(u) PROVE Line(c, s)'
  <2>1. CASE u = s
    <3>1. c2s'[c][s] = <<>> /\ s2c' = s2c /\ spc'[s][c] = "none"
      BY <1>0, <1>2, <2>1 DEF ServerDies, ServerType, NetType
    <3> QED BY <1>0, <3>1 DEF Line
  <2>2. CASE u # s
    <3>1. spc'[s][c] = spc[s][c] /\ Keeps(c, s)
      BY <1>0, <1>2, <2>2 DEF ServerDies, ServerType, NetType, Keeps
    <3> QED BY <1>0, <3>1, LineKept
  <2> QED BY <2>1, <2>2
<1>3. ASSUME NEW u \in Server, NEW d \in Client, ThreadStep(u, d) PROVE Line(c, s)'
  <2>1. CASE ServerDies(u)
    BY <1>2, <2>1
  <2>2. CASE ~ServerDies(u) /\ (u # s \/ d # c)
    <3>1. spc'[s][c] = spc[s][c] /\ Keeps(c, s)
      BY <1>0, <1>3, <2>2, ThreadsLeaveOthers DEF Keeps
    <3> QED BY <1>0, <3>1, LineKept
  <2>3. CASE ~ServerDies(u) /\ u = s /\ d = c
    BY <1>0, <1>3, <2>3, LineServed
  <2> QED BY <2>1, <2>2, <2>3
<1>4. CASE UNCHANGED <<c2s, s2c, spc>>
  BY <1>0, <1>4, LineKept DEF Keeps
<1>5. ASSUME NEW u \in Server, Crash(u) \/ Restart(u) PROVE Line(c, s)'
  BY <1>2, <1>4, <1>5 DEF Crash, Restart, net
<1> QED BY <1>1, <1>3, <1>4, <1>5 DEF Next, vars, net, server

(* ------------------ no chunk is empty, no end unnoticed ----------------- *)

\* What the theorem asks of the files: none that is put has fewer bytes than
\* there are servers, so that every chunk has one.
NoEmptyChunk == \A c \in Client, f \in File : LocalSize[c][f] \notin 0..(N-1)

LEMMA Quotient ==
  ASSUME NEW n \in Nat, n >= N
  PROVE  /\ n \div N \in Int /\ n \div N >= 1 /\ N * (n \div N) <= n
<1> DEFINE q == n \div N
<1>0. N \in Int /\ N > 0 /\ n \in Int
  BY NAssumption
<1>1. q \in Int /\ N * q <= n /\ n < N * q + N
  BY <1>0
<1> HIDE DEF q
<1>2. q >= 1
  <2> SUFFICES ASSUME q <= 0 PROVE FALSE
    BY <1>1
  <2>1. N * q <= 0
    BY <1>0, <1>1
  <2>2. \A r \in Int : r <= 0 /\ n < r + N => FALSE
    BY <1>0
  <2> QED BY <1>0, <1>1, <2>1, <2>2
<1> QED BY <1>1, <1>2 DEF q

LEMMA ChunksHaveBytes ==
  ASSUME NEW n \in Nat, n >= N, NEW k \in Chunk
  PROVE  ChunkSize(n, k) > 0
<1> DEFINE q == n \div N
<1>0. N \in Int /\ q \in Int /\ q >= 1 /\ N * q <= n
  BY NAssumption, Quotient
<1> HIDE DEF q
<1>1. (N - 1) * q = N * q - q
  BY <1>0
<1>2. \A r, x \in Int : r <= n /\ x >= 1 => n - (r - x) > 0
  OBVIOUS
<1>3. N * q \in Int
  BY <1>0
<1>4. n - (N * q - q) > 0
  BY <1>0, <1>2, <1>3
<1> QED BY <1>0, <1>1, <1>4 DEF ChunkSize, q

\* Who has a chunk to write has the file, and so had who wrote one.
SizedInv ==
  /\ \A c \in Client, s \in Server :
       spc[s][c] \in {"put_lock", "put_write"} => Sized(c, cur[s][c])
  /\ \A s \in Server, p \in Path : Present_(s, p) => Sized(disk[s][p].ver, p)

\* A connection ends only with its server.
DiedKnown == \A s \in Server :
  /\ \A c \in Client : serverEnd[c][s] # "open" => died[s]
  /\ ~up[s] => died[s]

LEMMA WholeHasBytes ==
  ASSUME TypeInv, SizedInv, NoEmptyChunk, NEW s \in Server, NEW p \in Path,
         disk[s][p].st = "whole"
  PROVE  HasBytes(s, p)
<1>1. disk[s][p] \in Present /\ Sized(disk[s][p].ver, p)
  BY DEF TypeInv, TypeOK, ServerType, Absent, SizedInv, Present_
<1> DEFINE w == disk[s][p].ver
           n == LocalSize[w][p.file]
<1>2. w \in Client /\ p.file \in File /\ p.chunk \in Chunk
  BY <1>1 DEF Present, Path
<1>3. n \in Nat /\ n >= N
  <2>1. n \in Nat \cup {-1} /\ n >= 0 /\ n \notin 0..(N-1)
    BY <1>1, <1>2, DfsAssumption DEF Sized, NoEmptyChunk
  <2> QED BY <2>1, NAssumption
<1>4. Size(w, p) > 0
  BY <1>2, <1>3, ChunksHaveBytes DEF Size
<1> QED BY <1>4 DEF HasBytes

\* A server that never ended gives a whole chunk, and one with bytes in it.
LEMMA ReadersHaveBytes ==
  ASSUME ReadInv, SizedInv, NoEmptyChunk, NEW s \in Server, NEW c \in Client, ~died[s],
         spc[s][c] = "get_ready"
  PROVE  /\ cur[s][c] \in Path /\ disk[s][cur[s][c]].st = "whole" /\ HasBytes(s, cur[s][c])
<1>1. cur[s][c] \in Path /\ TypeInv
  BY DEF ReadInv, TypeInv, PathsInUse
<1>2. disk[s][cur[s][c]].st = "whole"
  BY ReadersGetWhole DEF NoTornRead
<1> QED BY <1>1, <1>2, WholeHasBytes

LEMMA DiedInit == Init => DiedKnown /\ SizedInv
BY DEF Init, DiedKnown, SizedInv, Present_

LEMMA DiedStep == TypeInv /\ EndsAreFinal /\ DiedKnown /\ [Next]_vars => DiedKnown'
<1> SUFFICES ASSUME TypeInv, EndsAreFinal, DiedKnown, [Next]_vars PROVE DiedKnown'
  OBVIOUS
<1>0. NetType /\ ServerType /\ HistType
  BY DEF TypeInv, TypeOK
<1>1. ASSUME NEW d \in Client, ClientStep(d) \/ Kill(d) PROVE DiedKnown'
  <2>1. UNCHANGED <<up, died>>
    BY <1>1, ClientsLeaveDisk
  <2>2. ASSUME NEW c \in Client, NEW s \in Server, serverEnd[c][s] = "open"
        PROVE  serverEnd'[c][s] = "open"
    <3>1. CASE d # c
      BY <1>1, <2>2, <3>1, OthersKept DEF ClientKept, NetKept
    <3>2. CASE d = c /\ ~Connect(d)
      BY <1>1, <2>2, <3>2, ClientsEnds
    <3>3. CASE Connect(d)
      BY <2>2, <3>3 DEF Connect, net
    <3> QED BY <3>1, <3>2, <3>3
  <2> QED BY <2>1, <2>2 DEF DiedKnown
<1>2. ASSUME NEW u \in Server, ServerDies(u) PROVE DiedKnown'
  BY <1>0, <1>2 DEF ServerDies, ServerType, NetType, HistType, DiedKnown
<1>3. ASSUME NEW u \in Server, NEW d \in Client, ThreadStep(u, d) PROVE DiedKnown'
  <2>1. CASE ~ServerDies(u)
    <3>1. UNCHANGED <<serverEnd, up, died>>
      BY <1>3, <2>1, ThreadsLeaveOthers DEF hist
    <3> QED BY <3>1 DEF DiedKnown
  <2> QED BY <1>2, <2>1
<1>4. ASSUME NEW u \in Server, Crash(u) \/ Restart(u) PROVE DiedKnown'
  <2>1. CASE Restart(u)
    BY <1>0, <2>1 DEF Restart, net, hist, ServerType, DiedKnown
  <2> QED BY <1>2, <1>4, <2>1 DEF Crash
<1>5. CASE UNCHANGED vars
  BY <1>5 DEF vars, net, server, hist, DiedKnown
<1> QED BY <1>1, <1>3, <1>4, <1>5 DEF Next

LEMMA PutsFromFile ==
  ASSUME TypeInv, RolesKept, NEW s \in Server, NEW c \in Client, RecvPut(s, c)
  PROVE  Sized(c, cur'[s][c])
<1>1. Head(c2s[c][s]) \in WordsOf(c) /\ Head(c2s[c][s]).t = "put"
  BY DEF RecvPut, Next_, RolesKept
<1>2. Sized(c, Head(c2s[c][s]).path)
  BY <1>1 DEF WordsOf
<1>3. cur'[s][c] = Head(c2s[c][s]).path
  BY DEF RecvPut, TypeInv, TypeOK, ServerType
<1> QED BY <1>2, <1>3

LEMMA SizedThreads ==
  ASSUME TypeInv, RolesKept, SizedInv, NEW s \in Server, NEW c \in Client, ThreadStep(s, c),
         ~ServerDies(s)
  PROVE  SizedInv'
<1>0. ServerType /\ PathsInUse
  BY DEF TypeInv, TypeOK
<1>1. ASSUME NEW u \in Server, NEW d \in Client, spc'[u][d] \in {"put_lock", "put_write"}
      PROVE  Sized(d, cur'[u][d])
  <2>1. CASE u # s \/ d # c
    BY <1>1, <2>1, ThreadsLeaveOthers DEF SizedInv
  <2>2. CASE u = s /\ d = c /\ spc[s][c] \in {"put_lock", "put_write"} /\ cur' = cur
    BY <2>2 DEF SizedInv
  <2>3. CASE u = s /\ d = c /\ RecvPut(s, c)
    BY <2>3, PutsFromFile
  <2>4. CASE u = s /\ d = c /\ spc'[s][c] = spc[s][c] /\ cur'[s][c] = cur[s][c]
    BY <1>1, <2>4 DEF SizedInv
  <2>5. CASE PutOpen(s, c) \/ PutClose(s, c)
    BY <2>1, <2>2, <2>5 DEF PutOpen, PutClose
  <2>6. CASE RecvGetNotFound(s, c) \/ RecvList(s, c)
    BY <2>1, <2>4, <2>6 DEF RecvGetNotFound, RecvList, server
  <2>7. CASE PutAck(s, c) \/ RecvGet(s, c) \/ GetOpen(s, c) \/ GetSend(s, c) \/ RecvDone(s, c)
    <3>1. spc'[s][c] \notin {"put_lock", "put_write"}
      BY <1>0, <2>7, GoesTo DEF PutAck, RecvGet, GetOpen, GetSend, RecvDone
    <3> QED BY <1>1, <2>1, <3>1
  <2> QED BY <2>1, <2>3, <2>5, <2>6, <2>7 DEF ThreadStep, RecvError, SendSigpipe
<1>2. ASSUME NEW u \in Server, NEW p \in Path, Present_(u, p)'
      PROVE  Sized(disk'[u][p].ver, p)
  <2>1. CASE disk'[u][p] = disk[u][p]
    BY <1>2, <2>1 DEF SizedInv, Present_
  <2>2. CASE disk'[u][p] # disk[u][p]
    <3>1. u = s /\ spc[s][c] \in {"put_lock", "put_write"} /\ cur[s][c] = p
      BY <2>2, ThreadsChangeDisk
    <3>2. CASE PutOpen(s, c)
      <4>1. disk'[s][p].ver = c
        BY <1>0, <3>1, <3>2 DEF PutOpen, ServerType
      <4> QED BY <3>1, <4>1 DEF SizedInv
    <3>3. CASE PutClose(s, c)
      <4>1. disk'[s][p].ver = disk[s][p].ver /\ disk[s][p] \in Present
        BY <1>0, <3>1, <3>3 DEF PutClose, ServerType, PathsInUse
      <4>2. Present_(s, p)
        BY <4>1 DEF Present_, Absent, Present
      <4> QED BY <3>1, <4>1, <4>2 DEF SizedInv
    <3>4. UNCHANGED disk \/ PutOpen(s, c) \/ PutClose(s, c)
      BY DEF ThreadStep, RecvPut, PutAck, RecvGet, RecvGetNotFound, GetOpen,
         GetSend, RecvList, RecvDone, RecvError, SendSigpipe, server
    <3> QED BY <2>2, <3>2, <3>3, <3>4
  <2> QED BY <2>1, <2>2
<1> QED BY <1>1, <1>2 DEF SizedInv, Sized, Present_

LEMMA SizedStep == TypeInv /\ RolesKept /\ SizedInv /\ [Next]_vars => SizedInv'
<1> SUFFICES ASSUME TypeInv, RolesKept, SizedInv, [Next]_vars PROVE SizedInv'
  OBVIOUS
<1>0. ServerType
  BY DEF TypeInv, TypeOK
<1>1. CASE UNCHANGED <<spc, cur, disk>>
  BY <1>1 DEF SizedInv, Sized, Present_
<1>2. ASSUME NEW d \in Client, ClientStep(d) \/ Kill(d) PROVE SizedInv'
  <2>1. UNCHANGED <<cur, disk>>
    BY <1>2, ClientsLeaveDisk
  <2>2. \A c \in Client, s \in Server : spc'[s][c] = spc[s][c] \/ spc'[s][c] = "recv"
    <3>1. CASE Connect(d)
      BY <1>0, <3>1 DEF Connect, ServerType
    <3>2. CASE ~Connect(d)
      BY <1>2, <3>2, ClientsLeaveThreads
    <3> QED BY <3>1, <3>2
  <2> QED BY <2>1, <2>2 DEF SizedInv, Sized, Present_
<1>3. ASSUME NEW u \in Server, ServerDies(u) PROVE SizedInv'
  <2>1. \A c \in Client, s \in Server : spc'[s][c] \in {"put_lock", "put_write"} =>
          spc'[s][c] = spc[s][c] /\ cur'[s][c] = cur[s][c]
    BY <1>0, <1>3 DEF ServerDies, ServerType
  <2>2. ASSUME NEW s \in Server, NEW p \in Path, Present_(s, p)'
        PROVE  Present_(s, p) /\ disk'[s][p].ver = disk[s][p].ver
    <3>1. PICK torn \in {"empty", "part"} :
            disk' = [disk EXCEPT ![u] = [q \in Path |->
              IF \E c \in Client : spc[u][c] = "put_write" /\ cur[u][c] = q
              THEN [ver |-> disk[u][q].ver, st |-> torn] ELSE disk[u][q]]]
      BY <1>3 DEF ServerDies
    <3>2. CASE disk'[s][p] = disk[s][p]
      BY <2>2, <3>2 DEF Present_
    <3>3. CASE disk'[s][p] # disk[s][p]
      <4>1. /\ disk'[s][p] = [ver |-> disk[s][p].ver, st |-> torn]
            /\ \E c \in Client : spc[s][c] = "put_write" /\ cur[s][c] = p
        BY <1>0, <3>1, <3>3 DEF ServerType
      <4>2. disk[s][p] \in Present
        BY <4>1 DEF TypeInv, PathsInUse
      <4> QED BY <4>1, <4>2 DEF Present_, Present, Absent
    <3> QED BY <3>2, <3>3
  <2> QED BY <2>1, <2>2 DEF SizedInv, Sized, Present_
<1>4. ASSUME NEW u \in Server, NEW d \in Client, ThreadStep(u, d) PROVE SizedInv'
  BY <1>3, <1>4, SizedThreads
<1>5. ASSUME NEW u \in Server, Crash(u) \/ Restart(u) PROVE SizedInv'
  BY <1>1, <1>3, <1>5 DEF Crash, Restart
<1> QED BY <1>1, <1>2, <1>4, <1>5 DEF Next, vars, server

(* -------------------- steps of Dfs as steps of ChunkStore --------------- *)

storedBar == [s \in Server |-> [p \in Path |-> StoredOn(s, p)]]
readingBar == [s \in Server |-> [c \in Client |-> ReadingAt(s, c)]]
answerBar == [s \in Server |-> [c \in Client |-> AnswerOf(s, c)]]
goneBar == [c \in Client |-> cpc[c] \in {"exited", "killed"}]

StoresSame == \A s \in Server, p \in Path : StoredOn(s, p)' = StoredOn(s, p)
EndsSame == \A c \in Client : Ended(c)' <=> Ended(c)
SameAt(s, c) == ReadingAt(s, c)' = ReadingAt(s, c) /\ AnswerOf(s, c)' = AnswerOf(s, c)
OnlyAt(s, c) ==
  /\ StoresSame /\ died' = died /\ EndsSame
  /\ \A u \in Server, d \in Client : u # s \/ d # c => SameAt(u, d)

LEMMA StoredBar ==
  ASSUME StoresSame
  PROVE  storedBar' = storedBar
BY DEF StoresSame, storedBar

LEMMA GoneBar ==
  ASSUME EndsSame
  PROVE  goneBar' = goneBar
BY DEF EndsSame, goneBar, Ended

LEMMA ReadingBar ==
  ASSUME NEW s \in Server, NEW c \in Client, OnlyAt(s, c), NEW r, ReadingAt(s, c)' = r
  PROVE  readingBar' = [readingBar EXCEPT ![s][c] = r]
BY DEF OnlyAt, SameAt, readingBar

LEMMA AnswerBar ==
  ASSUME NEW s \in Server, NEW c \in Client, OnlyAt(s, c), NEW r, AnswerOf(s, c)' = r
  PROVE  answerBar' = [answerBar EXCEPT ![s][c] = r]
BY DEF OnlyAt, SameAt, answerBar

LEMMA BarsSame ==
  ASSUME \A s \in Server, c \in Client : SameAt(s, c)
  PROVE  readingBar' = readingBar /\ answerBar' = answerBar
BY DEF SameAt, readingBar, answerBar

LEMMA AsStutter ==
  ASSUME StoresSame, died' = died, EndsSame, \A s \in Server, c \in Client : SameAt(s, c)
  PROVE  UNCHANGED Store!vars
<1>1. storedBar' = storedBar /\ goneBar' = goneBar /\ readingBar' = readingBar
      /\ answerBar' = answerBar
  BY StoredBar, GoneBar, BarsSame
<1> QED BY <1>1 DEF Store!vars, storedBar, goneBar, readingBar, answerBar

LEMMA AsAsk ==
  ASSUME NEW s \in Server, NEW c \in Client, OnlyAt(s, c), AnswerOf(s, c)' = AnswerOf(s, c),
         ReadingAt(s, c) = NoPath, AnswerOf(s, c) = NoneYet, ~Ended(c),
         NEW f \in File, NEW k \in Chunk,
         ReadingAt(s, c)' = [file |-> f, chunk |-> k, ts |-> 0]
  PROVE  Store!Next
<1> DEFINE r == [file |-> f, chunk |-> k, ts |-> 0]
<1>1. storedBar' = storedBar /\ goneBar' = goneBar /\ answerBar' = answerBar
  <2>1. answerBar' = [answerBar EXCEPT ![s][c] = AnswerOf(s, c)]
    BY AnswerBar
  <2> QED BY <2>1, StoredBar, GoneBar DEF OnlyAt, answerBar
<1>2. readingBar' = [readingBar EXCEPT ![s][c] = r]
  BY ReadingBar
<1>3. readingBar[s][c] = NoPath /\ answerBar[s][c] = NoneYet /\ ~goneBar[c] /\ died' = died
  BY DEF readingBar, answerBar, goneBar, Ended, OnlyAt
<1>4. r \in Store!Asked
  BY DEF Store!Asked
<1>5. NoPath = Store!Nothing /\ NoneYet = Store!NoAnswer
  BY DEF NoPath, NoneYet, Store!Nothing, Store!NoAnswer
<1> HIDE DEF r
<1>6. Store!Ask(s, c)
  BY <1>1, <1>2, <1>3, <1>4, <1>5 DEF Store!Ask, storedBar, goneBar, readingBar, answerBar
<1> QED BY <1>6 DEF Store!Next

LEMMA AnswersSame ==
  ASSUME NEW s \in Server, NEW c \in Client, OnlyAt(s, c), AnswerOf(s, c)' = AnswerOf(s, c)
  PROVE  /\ storedBar' = storedBar /\ goneBar' = goneBar /\ answerBar' = answerBar
         /\ died' = died
<1>1. answerBar' = [answerBar EXCEPT ![s][c] = AnswerOf(s, c)]
  BY AnswerBar
<1> QED BY <1>1, StoredBar, GoneBar DEF OnlyAt, answerBar

LEMMA ReadingsSame ==
  ASSUME NEW s \in Server, NEW c \in Client, OnlyAt(s, c), ReadingAt(s, c)' = ReadingAt(s, c)
  PROVE  /\ storedBar' = storedBar /\ goneBar' = goneBar /\ readingBar' = readingBar
         /\ died' = died
<1>1. readingBar' = [readingBar EXCEPT ![s][c] = ReadingAt(s, c)]
  BY ReadingBar
<1> QED BY <1>1, StoredBar, GoneBar DEF OnlyAt, readingBar

LEMMA AbstractNone == NoPath = Store!Nothing /\ NoneYet = Store!NoAnswer
BY DEF NoPath, NoneYet, Store!Nothing, Store!NoAnswer

LEMMA AsFind ==
  ASSUME NEW s \in Server, NEW c \in Client, OnlyAt(s, c), AnswerOf(s, c)' = AnswerOf(s, c),
         NEW f \in File, NEW k \in Chunk, NEW t \in Stamp,
         ReadingAt(s, c) = [file |-> f, chunk |-> k, ts |-> 0],
         ReadingAt(s, c)' = [file |-> f, chunk |-> k, ts |-> t],
         \A p \in Path : p.file = f /\ p.chunk = k /\ StoredOn(s, p) # None => t >= p.ts
  PROVE  Store!Next
<1> DEFINE r == [file |-> f, chunk |-> k, ts |-> 0]
           n == [file |-> f, chunk |-> k, ts |-> t]
<1>1. storedBar' = storedBar /\ goneBar' = goneBar /\ answerBar' = answerBar /\ died' = died
  BY AnswersSame
<1>2. readingBar' = [readingBar EXCEPT ![s][c] = n]
  BY ReadingBar
<1>3. readingBar[s][c] = r /\ r \in Store!Asked /\ n = [r EXCEPT !.ts = t]
  BY DEF readingBar, Store!Asked
<1>4. readingBar' = [readingBar EXCEPT ![s][c].ts = t]
  BY <1>2, <1>3 DEF readingBar
<1>5. \A p \in Store!SameChunk(r) : storedBar[s][p] # None => t >= p.ts
  BY DEF Store!SameChunk, storedBar, Store!Path, Path
<1> HIDE DEF r, n
<1>6. Store!Find(s, c)
  BY <1>1, <1>3, <1>4, <1>5 DEF Store!Find, storedBar, goneBar, readingBar, answerBar
<1> QED BY <1>6 DEF Store!Next

LEMMA AsGive ==
  ASSUME NEW s \in Server, NEW c \in Client, OnlyAt(s, c),
         ReadingAt(s, c) \in Path, StoredOn(s, ReadingAt(s, c)) # None,
         ReadingAt(s, c)' = NoPath,
         AnswerOf(s, c)' = [path |-> ReadingAt(s, c), ver |-> StoredOn(s, ReadingAt(s, c))]
  PROVE  Store!Next
<1> DEFINE p == ReadingAt(s, c)
           m == [path |-> p, ver |-> StoredOn(s, p)]
<1>1. storedBar' = storedBar /\ goneBar' = goneBar /\ died' = died
  BY StoredBar, GoneBar DEF OnlyAt
<1>2. readingBar' = [readingBar EXCEPT ![s][c] = Store!Nothing]
  BY ReadingBar, AbstractNone
<1>3. answerBar' = [answerBar EXCEPT ![s][c] = m]
  <2> HIDE DEF m
  <2> QED BY AnswerBar DEF m
<1>4. readingBar[s][c] = p /\ p \in Store!Path /\ storedBar[s][p] # None
      /\ m = [path |-> p, ver |-> storedBar[s][p]]
  BY DEF readingBar, storedBar, Store!Path, Path
<1> HIDE DEF p, m
<1>5. Store!Give(s, c)
  BY <1>1, <1>2, <1>3, <1>4
     DEF Store!Give, Store!Answers, Store!Done, storedBar, goneBar, readingBar, answerBar
<1> QED BY <1>5 DEF Store!Next

LEMMA AsDeny ==
  ASSUME NEW s \in Server, NEW c \in Client, OnlyAt(s, c), NEW f \in File, NEW k \in Chunk,
         ReadingAt(s, c) = [file |-> f, chunk |-> k, ts |-> 0], ReadingAt(s, c)' = NoPath,
         \A p \in Path : p.file = f /\ p.chunk = k => StoredOn(s, p) = None,
         AnswerOf(s, c)' = [path |-> NoPath, ver |-> None]
  PROVE  Store!Next
<1> DEFINE r == [file |-> f, chunk |-> k, ts |-> 0]
<1>1. storedBar' = storedBar /\ goneBar' = goneBar /\ died' = died
  BY StoredBar, GoneBar DEF OnlyAt
<1>2. readingBar' = [readingBar EXCEPT ![s][c] = Store!Nothing]
  BY ReadingBar, AbstractNone
<1>3. answerBar' = [answerBar EXCEPT ![s][c] = Store!NotFound]
  BY AnswerBar, AbstractNone DEF Store!NotFound
<1>4. readingBar[s][c] = r /\ r \in Store!Asked
  BY DEF readingBar, Store!Asked
<1>5. \A p \in Store!SameChunk(r) : storedBar[s][p] = None
  BY DEF Store!SameChunk, storedBar, Store!Path, Path
<1> HIDE DEF r
<1>6. Store!Deny(s, c)
  BY <1>1, <1>2, <1>3, <1>4, <1>5
     DEF Store!Deny, Store!Answers, Store!Done, storedBar, goneBar, readingBar, answerBar
<1> QED BY <1>6 DEF Store!Next

LEMMA AsTake ==
  ASSUME NEW s \in Server, NEW c \in Client, OnlyAt(s, c), ReadingAt(s, c)' = ReadingAt(s, c),
         AnswerOf(s, c) # NoneYet, AnswerOf(s, c)' = NoneYet
  PROVE  Store!Next
<1>1. storedBar' = storedBar /\ goneBar' = goneBar /\ readingBar' = readingBar /\ died' = died
  BY ReadingsSame
<1>2. answerBar' = [answerBar EXCEPT ![s][c] = Store!NoAnswer]
  BY AnswerBar, AbstractNone
<1>3. answerBar[s][c] # Store!NoAnswer
  BY AbstractNone DEF answerBar
<1>4. Store!Take(s, c)
  BY <1>1, <1>2, <1>3
     DEF Store!Take, Store!Answers, storedBar, goneBar, readingBar, answerBar
<1> QED BY <1>4 DEF Store!Next

LEMMA AsForget ==
  ASSUME NEW s \in Server, NEW c \in Client, OnlyAt(s, c), AnswerOf(s, c)' = AnswerOf(s, c),
         Ended(c), ReadingAt(s, c)' = NoPath
  PROVE  Store!Next
<1>1. storedBar' = storedBar /\ goneBar' = goneBar /\ answerBar' = answerBar /\ died' = died
  BY AnswersSame
<1>2. readingBar' = [readingBar EXCEPT ![s][c] = Store!Nothing]
  BY ReadingBar, AbstractNone
<1>3. goneBar[c]
  BY DEF goneBar, Ended
<1>4. Store!Forget(s, c)
  BY <1>1, <1>2, <1>3
     DEF Store!Forget, Store!Done, storedBar, goneBar, readingBar, answerBar
<1> QED BY <1>4 DEF Store!Next

LEMMA AsErratic ==
  ASSUME NEW s \in Server, StoresSame, died' = died, EndsSame, died[s],
         \A u \in Server \ {s}, c \in Client : SameAt(u, c)
  PROVE  Store!Next
<1>1. storedBar' = storedBar /\ goneBar' = goneBar
  BY StoredBar, GoneBar
<1>2. \A u \in Server \ {s} : readingBar'[u] = readingBar[u] /\ answerBar'[u] = answerBar[u]
  BY DEF SameAt, readingBar, answerBar
<1>3. Store!Erratic(s)
  BY <1>1, <1>2 DEF Store!Erratic, storedBar, goneBar, readingBar, answerBar
<1> QED BY <1>3 DEF Store!Next

LEMMA AsLeave ==
  ASSUME NEW c \in Client, StoresSame, died' = died, Ended(c)',
         \A d \in Client \ {c} : Ended(d)' <=> Ended(d),
         \A s \in Server : ReadingAt(s, c)' = ReadingAt(s, c) /\ AnswerOf(s, c)' = NoneYet,
         \A s \in Server, d \in Client \ {c} : SameAt(s, d)
  PROVE  Store!Next
<1>1. storedBar' = storedBar
  BY StoredBar
<1>2. readingBar' = readingBar
  BY DEF SameAt, readingBar
<1>3. answerBar' = [s \in Server |-> [answerBar[s] EXCEPT ![c] = Store!NoAnswer]]
  BY AbstractNone DEF SameAt, answerBar
<1>4. goneBar' = [goneBar EXCEPT ![c] = TRUE]
  <2>1. \A d \in Client : (cpc'[d] \in {"exited", "killed"}) =
                           (IF d = c THEN TRUE ELSE cpc[d] \in {"exited", "killed"})
    <3> TAKE d \in Client
    <3>1. CASE d = c
      <4>1. cpc'[c] \in {"exited", "killed"}
        BY DEF Ended
      <4>2. (cpc'[c] \in {"exited", "killed"}) = TRUE
        BY <4>1, Zenon
      <4> QED BY <3>1, <4>2, Zenon
    <3>2. CASE d # c
      <4>1. cpc'[d] \in {"exited", "killed"} <=> cpc[d] \in {"exited", "killed"}
        BY <3>2 DEF Ended
      <4>2. (cpc'[d] \in {"exited", "killed"}) = (cpc[d] \in {"exited", "killed"})
        BY <4>1
      <4> QED BY <3>2, <4>2, Zenon
    <3> QED BY <3>1, <3>2, Zenon
  <2>2. goneBar' = [d \in Client |-> IF d = c THEN TRUE ELSE cpc[d] \in {"exited", "killed"}]
    BY <2>1, Zenon DEF goneBar
  <2>3. [goneBar EXCEPT ![c] = TRUE]
          = [d \in Client |-> IF d = c THEN TRUE ELSE cpc[d] \in {"exited", "killed"}]
    BY DEF goneBar
  <2> QED BY <2>2, <2>3
<1>5. Store!Leave(c)
  BY <1>1, <1>2, <1>3, <1>4 DEF Store!Leave, storedBar, goneBar, readingBar, answerBar
<1> QED BY <1>5 DEF Store!Next

LEMMA AsDie ==
  ASSUME NEW s \in Server, StoresSame, EndsSame, died' = [died EXCEPT ![s] = TRUE],
         \A c \in Client : ReadingAt(s, c)' = NoPath /\ AnswerOf(s, c)' = AnswerOf(s, c),
         \A u \in Server \ {s}, c \in Client : SameAt(u, c)
  PROVE  Store!Next
<1>1. storedBar' = storedBar /\ goneBar' = goneBar
  BY StoredBar, GoneBar
<1>2. answerBar' = answerBar
  BY DEF SameAt, answerBar
<1>3. readingBar' = [readingBar EXCEPT ![s] = [c \in Client |-> Store!Nothing]]
  BY AbstractNone DEF SameAt, readingBar
<1>4. Store!Die(s)
  BY <1>1, <1>2, <1>3 DEF Store!Die, storedBar, goneBar, readingBar, answerBar
<1> QED BY <1>4 DEF Store!Next

LEMMA AsStore ==
  ASSUME NEW s \in Server, NEW p \in Path, NEW w \in Client, EndsSame, died' = died,
         \A u \in Server, c \in Client : SameAt(u, c),
         StoredOn(s, p) = None, StoredOn(s, p)' = w,
         \A u \in Server, q \in Path : u # s \/ q # p => StoredOn(u, q)' = StoredOn(u, q)
  PROVE  Store!Next
<1>1. readingBar' = readingBar /\ answerBar' = answerBar /\ goneBar' = goneBar
  BY BarsSame, GoneBar
<1>2. storedBar' = [storedBar EXCEPT ![s][p] = w] /\ storedBar[s][p] = None /\ p \in Store!Path
  BY DEF storedBar, Store!Path, Path
<1>3. Store!Store(s)
  BY <1>1, <1>2 DEF Store!Store, storedBar, goneBar, readingBar, answerBar
<1> QED BY <1>3 DEF Store!Next

(* ------------------------ who is no get asks nothing -------------------- *)

LEMMA NoRequest ==
  ASSUME NEW c \in Client \ Gets, NEW q \in Seq(WordsOf(c))
  PROVE  RequestIn(q) = NoPath
<1>1. Job[c].cmd \in {"put", "list"}
  BY CommandOf DEF Gets
<1>2. \A i \in DOMAIN q : q[i] \in WordsOf(c)
  OBVIOUS
<1>3. \A i \in DOMAIN q : q[i].t # "get"
  BY <1>1, <1>2 DEF WordsOf
<1> QED BY <1>3 DEF RequestIn

LEMMA NoAnswer ==
  ASSUME NEW c \in Client \ Gets, NEW q \in Seq(RepliesTo(c))
  PROVE  AnswerIn(q) = NoneYet
<1>1. Job[c].cmd \in {"put", "list"}
  BY CommandOf DEF Gets
<1>2. \A i \in DOMAIN q : q[i] \in RepliesTo(c)
  OBVIOUS
<1>3. \A i \in DOMAIN q : q[i].t \notin {"data", "not found"}
  BY <1>1, <1>2 DEF RepliesTo
<1> QED BY <1>3 DEF AnswerIn, NoneYet

LEMMA NotAGet ==
  ASSUME RolesKept, RepliesKept, RolesKept', RepliesKept', NEW c \in Client \ Gets,
         NEW s \in Server
  PROVE  /\ ReadingAt(s, c) = NoPath /\ AnswerOf(s, c) = NoneYet /\ SameAt(s, c)
<1>0. Job[c].cmd \in {"put", "list"}
  BY CommandOf DEF Gets
<1>1. /\ spc[s][c] \notin {"get_lock", "get_ready"} /\ c2s[c][s] \in Seq(WordsOf(c))
      /\ s2c[c][s] \in Seq(RepliesTo(c))
  BY <1>0 DEF RolesKept, RepliesKept, ThreadsOf
<1>2. WordsOf(c)' = WordsOf(c) /\ RepliesTo(c)' = RepliesTo(c) /\ ThreadsOf(c)' = ThreadsOf(c)
  BY DEF WordsOf, RepliesTo, ThreadsOf
<1>3. /\ spc'[s][c] \notin {"get_lock", "get_ready"} /\ c2s'[c][s] \in Seq(WordsOf(c))
      /\ s2c'[c][s] \in Seq(RepliesTo(c))
  BY <1>0, <1>2 DEF RolesKept, RepliesKept, ThreadsOf
<1>4. /\ RequestIn(c2s[c][s]) = NoPath /\ RequestIn(c2s'[c][s]) = NoPath
      /\ AnswerIn(s2c[c][s]) = NoneYet /\ AnswerIn(s2c'[c][s]) = NoneYet
  BY <1>1, <1>3, NoRequest, NoAnswer
<1> QED BY <1>1, <1>3, <1>4 DEF ReadingAt, AnswerOf, SameAt

LEMMA SameKept ==
  ASSUME NEW c, NEW s, spc'[s][c] = spc[s][c], cur'[s][c] = cur[s][c], Keeps(c, s)
  PROVE  SameAt(s, c)
BY DEF SameAt, ReadingAt, AnswerOf, Keeps

(* ------------------------ the clients' steps ---------------------------- *)

\* What the step of Dfs is known to start from.
Known_ == /\ Inv /\ TalkInv /\ OnceInv /\ ReadInv /\ LineInv /\ SizedInv /\ DiedKnown
StoreStep == Store!Next \/ UNCHANGED Store!vars

\* A client goes on from no end.
LEMMA NotEnded ==
  ASSUME NEW c \in Client, ClientStep(c) \/ Kill(c)
  PROVE  ~Ended(c)
<1>1. ASSUME ClientStep(c), Ended(c) PROVE FALSE
  BY <1>1 DEF Ended, ClientStep, Connect, PutRefused, PutStart, GetStart, ListStart, PutSkip,
     PutSend, PutSendDies, PutAcked, PutEof, PutFails, GetQuery, GetQueryDies, GetMissing,
     GetJunk, GetReady, GetNot, GetFails, GetData, GetDataFails, GetDataForEver,
     ListQuery, ListAnswered, ListFails, ListFailsDies, ListShow, Finish
<1> QED BY <1>1 DEF Kill, Ended, Running

LEMMA OtherClients ==
  ASSUME TypeInv, NEW c \in Client, ClientStep(c) \/ Kill(c)
  PROVE  /\ StoresSame /\ died' = died
         /\ \A d \in Client \ {c} : /\ Ended(d)' <=> Ended(d)
                                    /\ \A s \in Server : SameAt(s, d)
<1>1. UNCHANGED <<cur, disk, died>>
  BY ClientsLeaveDisk
<1>2. ASSUME NEW d \in Client \ {c}
      PROVE  (Ended(d)' <=> Ended(d)) /\ \A s \in Server : SameAt(s, d)
  <2>1. ClientKept(d) /\ \A s \in Server : spc'[s][d] = spc[s][d]
    BY <1>2, OthersKept
  <2>2. cpc'[d] = cpc[d] /\ \A s \in Server : Keeps(d, s)
    BY <2>1 DEF ClientKept, ProgressKept, NetKept, Keeps
  <2> QED BY <1>1, <2>1, <2>2, SameKept DEF Ended
<1> QED BY <1>1, <1>2 DEF StoresSame, StoredOn

\* Connecting starts a thread, which has nothing to read yet.
LEMMA ThreadStarts ==
  ASSUME TalkInv, NEW c \in Gets, ClientStep(c) \/ Kill(c), NEW s \in Server
  PROVE  \/ spc'[s][c] = spc[s][c]
         \/ spc'[s][c] = "recv" /\ spc[s][c] \notin {"get_lock", "get_ready"}
<1>0. c \in Client /\ ServerType /\ OneRequest(c)
  BY OfGet
<1>1. CASE Connect(c)
  BY <1>0, <1>1 DEF Connect, ServerType, OneRequest, AtRest
<1>2. CASE ~Connect(c)
  BY <1>0, <1>2, ClientsLeaveThreads
<1> QED BY <1>1, <1>2

LEMMA ReadingOn ==
  ASSUME TalkInv, NEW c \in Gets, ClientStep(c) \/ Kill(c), NEW s \in Server,
         Keeps(c, s) \/ Hears(c, s) \/ Says(c, s)
  PROVE  /\ ReadingAt(s, c)' = ReadingAt(s, c)
         /\ ~Keeps(c, s) => AnswerOf(s, c)' = NoneYet
         /\ Keeps(c, s) => AnswerOf(s, c)' = AnswerOf(s, c)
         /\ Says(c, s) => AnswerOf(s, c) = NoneYet
<1>1. cur' = cur
  BY OfGet, ClientsLeaveDisk
<1>2. RequestIn(c2s'[c][s]) = RequestIn(c2s[c][s])
  <2>1. CASE Says(c, s)
    <3>1. PICK m : m.t # "get" /\ c2s'[c][s] = <<m>>
      BY <2>1 DEF Says
    <3>2. RequestIn(c2s'[c][s]) = NoPath
      BY <3>1, OneRequestIn
    <3> QED BY <2>1, <3>2, NoWords DEF Says
  <2>2. CASE Keeps(c, s) \/ Hears(c, s)
    BY <2>2 DEF Keeps, Hears
  <2> QED BY <2>1, <2>2
<1>3. ReadingAt(s, c)' = ReadingAt(s, c)
  BY <1>1, <1>2, ThreadStarts DEF ReadingAt
<1>4. ~Keeps(c, s) => AnswerOf(s, c)' = NoneYet
  BY NoWords DEF Hears, Says, AnswerOf
<1> QED BY <1>3, <1>4 DEF Keeps, Says, AnswerOf

LEMMA StoreGets ==
  ASSUME Known_, NoEmptyChunk, NEW c \in Gets, ClientStep(c) \/ Kill(c)
  PROVE  StoreStep
<1>0. c \in Client /\ TalkInv /\ TypeInv /\ ~Ended(c)
  BY NotEnded DEF Gets, Known_, TalkInv
<1>1. /\ StoresSame /\ died' = died
      /\ \A d \in Client \ {c} : /\ Ended(d)' <=> Ended(d)
                                 /\ \A s \in Server : SameAt(s, d)
  BY <1>0, OtherClients
<1>2. CASE Ended(c)' /\ \A s \in Server : Hears(c, s) \/ Says(c, s)
  <2>1. \A s \in Server : ReadingAt(s, c)' = ReadingAt(s, c)
    BY <1>0, <1>2, ReadingOn
  <2>2. \A s \in Server : AnswerOf(s, c)' = NoneYet
    BY <1>2, NoWords DEF Hears, Says, AnswerOf
  <2> QED BY <1>0, <1>1, <1>2, <2>1, <2>2, AsLeave DEF StoreStep
<1>3. ASSUME ~Ended(c)', NEW s \in Server, \A u \in Server \ {s} : Keeps(c, u),
             Keeps(c, s) \/ Hears(c, s) \/ Says(c, s) \/ Asks(c, s)
      PROVE  StoreStep
  <2>1. EndsSame
    BY <1>0, <1>1, <1>3 DEF EndsSame
  <2>2. \A u \in Server \ {s} : SameAt(u, c)
    BY <1>0, <1>3, ReadingOn DEF SameAt
  <2>3. OnlyAt(s, c)
    BY <1>1, <2>1, <2>2 DEF OnlyAt
  <2>4. CASE Keeps(c, s) \/ Hears(c, s) \/ Says(c, s)
    <3>1. ReadingAt(s, c)' = ReadingAt(s, c)
      BY <1>0, <2>4, ReadingOn
    <3>2. AnswerOf(s, c)' = AnswerOf(s, c) \/ (AnswerOf(s, c) # NoneYet /\ AnswerOf(s, c)' = NoneYet)
      BY <1>0, <2>4, ReadingOn
    <3>3. CASE AnswerOf(s, c)' = AnswerOf(s, c)
      <4>1. \A u \in Server, d \in Client : SameAt(u, d)
        BY <2>3, <3>1, <3>3 DEF OnlyAt, SameAt
      <4> QED BY <1>1, <2>1, <4>1, AsStutter DEF StoreStep
    <3>4. CASE AnswerOf(s, c) # NoneYet /\ AnswerOf(s, c)' = NoneYet
      BY <1>0, <2>3, <3>1, <3>4, AsTake DEF StoreStep
    <3> QED BY <3>2, <3>3, <3>4
  <2>5. CASE Asks(c, s) /\ died[s]
    BY <1>1, <2>1, <2>2, <2>5, AsErratic DEF StoreStep
  <2>6. CASE Asks(c, s) /\ ~died[s]
    <3>1. spc[s][c] \notin {"get_lock", "get_ready"}
      BY <1>0, <2>6, ReadersHaveBytes DEF Asks, Free, AtRest, Stale, Known_
    <3>2. spc'[s][c] \notin {"get_lock", "get_ready"}
      BY <1>0, <3>1, ThreadStarts
    <3>3. ReadingAt(s, c) = NoPath /\ AnswerOf(s, c) = NoneYet /\ AnswerOf(s, c)' = NoneYet
      BY <2>6, <3>1, NoWords DEF Asks, ReadingAt, AnswerOf
    <3>4. ReadingAt(s, c)' = [file |-> F(c), chunk |-> pos[c], ts |-> 0]
      <4>1. RequestIn(<<Request(c)>>) = [file |-> F(c), chunk |-> pos[c], ts |-> 0]
        <5> DEFINE m == Request(c)
        <5>1. m.t = "get" /\ m.file = F(c) /\ m.chunk = pos[c]
          BY DEF Request
        <5> HIDE DEF m
        <5>2. RequestIn(<<m>>) = [file |-> F(c), chunk |-> pos[c], ts |-> 0]
          BY <5>1, OneRequestIn
        <5> QED BY <5>2 DEF m
      <4> QED BY <2>6, <3>2, <4>1 DEF Asks, ReadingAt
    <3> QED BY <1>0, <2>3, <2>6, <3>3, <3>4, AsAsk DEF Asks, StoreStep
  <2> QED BY <1>3, <2>4, <2>5, <2>6
<1>4. Talks(c)
  BY <1>0, TalksOfOne
<1> QED BY <1>2, <1>3, <1>4 DEF Talks

LEMMA StoreAside ==
  ASSUME TalkInv, TalkInv', NEW c \in Client \ Gets, ClientStep(c) \/ Kill(c)
  PROVE  StoreStep
<1>0. c \in Client /\ TypeInv /\ ~Ended(c)
  BY NotEnded DEF TalkInv
<1>1. /\ StoresSame /\ died' = died
      /\ \A d \in Client \ {c} : /\ Ended(d)' <=> Ended(d)
                                 /\ \A s \in Server : SameAt(s, d)
  BY <1>0, OtherClients
<1>2. \A s \in Server : SameAt(s, c) /\ AnswerOf(s, c) = NoneYet
  BY NotAGet DEF TalkInv
<1>3. CASE Ended(c)'
  <2>1. \A s \in Server : ReadingAt(s, c)' = ReadingAt(s, c) /\ AnswerOf(s, c)' = NoneYet
    BY <1>2 DEF SameAt
  <2> QED BY <1>0, <1>1, <1>3, <2>1, AsLeave DEF StoreStep
<1>4. CASE ~Ended(c)'
  <2>1. EndsSame
    BY <1>0, <1>1, <1>4 DEF EndsSame
  <2>2. \A s \in Server, d \in Client : SameAt(s, d)
    BY <1>1, <1>2
  <2> QED BY <1>1, <2>1, <2>2, AsStutter DEF StoreStep
<1> QED BY <1>3, <1>4

(* ------------------------ the servers' steps ---------------------------- *)

\* A thread opens a file for writing that was not there.
LEMMA OpensNew ==
  ASSUME Inv, OnceInv, NEW s \in Server, NEW c \in Client, spc[s][c] = "put_lock"
  PROVE  ~Present_(s, cur[s][c])
<1> DEFINE p == cur[s][c]
<1>1. /\ c \in Puts /\ s = srv[c] /\ p = PutPath(c) /\ ts[c] \in Stamp /\ pos[c] \in Which
      /\ ~NoMoreArgs(c)
  BY WriterIsPut DEF UnderWay
<1>2. arg[c] \in DOMAIN Job[c].files /\ arg[c] \in Nat
  <2>1. arg[c] \in Nat /\ arg[c] >= 1 /\ Job[c].files \in Seq(File)
    BY DfsAssumption DEF Inv, TypeInv, TypeOK, ClientType, LoopsInRange, LoopInRange
  <2> QED BY <1>1, <2>1 DEF NoMoreArgs
<1>3. Ahead(c, arg[c], s, pos[c])
  BY <1>1, <1>2 DEF Ahead, Past, NotYet, Server, Which
<1>4. PathOf(c, arg[c], s, pos[c]) = p
  BY <1>1 DEF PathOf, PutPath, F
<1> QED BY <1>1, <1>2, <1>3, <1>4 DEF OnceInv, Blank, Stamp

SetsFile(s, p, v) == disk' = [disk EXCEPT ![s][p] = v]
LEMMA DiskSet ==
  ASSUME ServerType, NEW s \in Server, NEW p \in Path, NEW v, SetsFile(s, p, v)
  PROVE  /\ disk'[s][p] = v
         /\ \A u \in Server, q \in Path : u # s \/ q # p => disk'[u][q] = disk[u][q]
BY DEF ServerType, SetsFile

\* A step of a thread that is nobody's get.
LEMMA StorePuts ==
  ASSUME Known_, TalkInv', NEW s \in Server, NEW c \in Client \ Gets, ThreadStep(s, c),
         ~ServerDies(s)
  PROVE  StoreStep
<1>0. /\ c \in Client /\ TalkInv /\ TypeInv /\ ServerType /\ Inv /\ OnceInv /\ PathsInUse
  BY DEF Known_, TalkInv, TypeInv, TypeOK
<1>1. /\ died' = died /\ EndsSame
      /\ \A u \in Server, d \in Client : SameAt(u, d)
  <2>1. /\ UNCHANGED <<progress, hist>>
        /\ \A u \in Server, d \in Client : u # s \/ d # c =>
             spc'[u][d] = spc[u][d] /\ cur'[u][d] = cur[u][d] /\ Keeps(d, u)
    BY <1>0, ThreadsLeaveOthers DEF Keeps
  <2>2. \A u \in Server : SameAt(u, c)
    BY <1>0, NotAGet DEF TalkInv
  <2>3. \A u \in Server, d \in Client : u # s \/ d # c => SameAt(u, d)
    BY <2>1, SameKept
  <2> QED BY <2>1, <2>2, <2>3 DEF progress, hist, EndsSame, Ended
<1>2. CASE StoresSame
  BY <1>1, <1>2, AsStutter DEF StoreStep
<1>3. CASE PutOpen(s, c)
  <2> PICK p \in Path : p = cur[s][c]
    BY <1>0, <1>3 DEF PutOpen, PathsInUse
  <2> DEFINE v == [ver |-> c, st |-> "part"]
  <2>1. ~Present_(s, p)
    BY <1>0, <1>3, OpensNew DEF PutOpen
  <2>2. SetsFile(s, p, v) /\ v.st # "whole"
    BY <1>3 DEF PutOpen, SetsFile
  <2> HIDE DEF v
  <2>3. /\ disk'[s][p] = v /\ disk[s][p].st # "whole"
        /\ \A u \in Server, q \in Path : u # s \/ q # p => disk'[u][q] = disk[u][q]
    BY <1>0, <2>1, <2>2, DiskSet DEF Present_, Absent
  <2>4. StoresSame
    <3>1. StoredOn(s, p) = None /\ StoredOn(s, p)' = None
      BY <2>2, <2>3 DEF StoredOn
    <3>2. \A u \in Server, q \in Path : u # s \/ q # p => StoredOn(u, q)' = StoredOn(u, q)
      BY <2>3 DEF StoredOn
    <3> QED BY <3>1, <3>2 DEF StoresSame
  <2> QED BY <1>2, <2>4
<1>4. CASE PutClose(s, c)
  <2> PICK p \in Path : p = cur[s][c]
    BY <1>0, <1>4 DEF PutClose, PathsInUse
  <2>1. disk[s][p] \in Present /\ disk[s][p].st = "part"
    BY <1>0, <1>4 DEF PutClose, PathsInUse, OnceInv, OpenIsPart
  <2> PICK w \in Client : w = disk[s][p].ver
    BY <2>1 DEF Present
  <2> DEFINE v == [ver |-> w, st |-> "whole"]
  <2>2. SetsFile(s, p, v) /\ v.st = "whole" /\ v.ver = w
    BY <1>4 DEF PutClose, SetsFile
  <2> HIDE DEF v
  <2>3. /\ disk'[s][p] = v
        /\ \A u \in Server, q \in Path : u # s \/ q # p => disk'[u][q] = disk[u][q]
    BY <1>0, <2>1, <2>2, DiskSet
  <2>4. StoredOn(s, p) = None /\ StoredOn(s, p)' = w
    BY <2>1, <2>2, <2>3 DEF StoredOn
  <2>5. \A u \in Server, q \in Path : u # s \/ q # p => StoredOn(u, q)' = StoredOn(u, q)
    BY <2>3 DEF StoredOn
  <2> QED BY <1>1, <2>1, <2>2, <2>4, <2>5, AsStore DEF StoreStep
<1>5. CASE UNCHANGED disk
  BY <1>2, <1>5 DEF StoresSame, StoredOn
<1> QED BY <1>3, <1>4, <1>5 DEF ThreadStep, RecvPut, PutAck, RecvGet, RecvGetNotFound, GetOpen,
    GetSend, RecvList, RecvDone, RecvError, SendSigpipe, server

\* The end of a server: what is whole was not being written.
LEMMA StoreDies ==
  ASSUME Known_, NEW s \in Server, ServerDies(s)
  PROVE  StoreStep
<1>0. /\ TypeInv /\ NetType /\ ServerType /\ HistType /\ OnceInv
  BY DEF Known_, TalkInv, TypeInv, TypeOK
<1>1. EndsSame /\ died' = [died EXCEPT ![s] = TRUE] /\ s2c' = s2c
  BY DEF ServerDies, progress, EndsSame, Ended
<1>2. StoresSame
  <2>1. PICK torn \in {"empty", "part"} :
          disk' = [disk EXCEPT ![s] = [q \in Path |->
            IF \E c \in Client : spc[s][c] = "put_write" /\ cur[s][c] = q
            THEN [ver |-> disk[s][q].ver, st |-> torn] ELSE disk[s][q]]]
    BY DEF ServerDies
  <2>2. ASSUME NEW u \in Server, NEW p \in Path PROVE StoredOn(u, p)' = StoredOn(u, p)
    <3>1. CASE disk'[u][p] = disk[u][p]
      BY <3>1 DEF StoredOn
    <3>2. CASE disk'[u][p] # disk[u][p]
      <4>1. /\ disk'[u][p] = [ver |-> disk[u][p].ver, st |-> torn]
            /\ \E c \in Client : spc[u][c] = "put_write" /\ cur[u][c] = p
        BY <1>0, <2>1, <3>2 DEF ServerType
      <4>2. disk[u][p].st = "part"
        BY <1>0, <4>1 DEF OnceInv, OpenIsPart
      <4> QED BY <4>1, <4>2 DEF StoredOn
    <3> QED BY <3>1, <3>2
  <2> QED BY <2>2 DEF StoresSame
<1>3. \A c \in Client : ReadingAt(s, c)' = NoPath /\ AnswerOf(s, c)' = AnswerOf(s, c)
  <2> TAKE c \in Client
  <2>1. spc'[s][c] = "none" /\ c2s'[c][s] = <<>>
    BY <1>0 DEF ServerDies, ServerType, NetType
  <2> QED BY <1>1, <2>1, NoWords DEF ReadingAt, AnswerOf
<1>4. \A u \in Server \ {s}, c \in Client : SameAt(u, c)
  <2> TAKE u \in Server \ {s}, c \in Client
  <2>1. spc'[u][c] = spc[u][c] /\ cur'[u][c] = cur[u][c] /\ Keeps(c, u)
    BY <1>0, <1>1 DEF ServerDies, ServerType, NetType, Keeps
  <2> QED BY <2>1, SameKept
<1> QED BY <1>1, <1>2, <1>3, <1>4, AsDie DEF StoreStep

LEMMA WordOf ==
  ASSUME NEW S, NEW q \in Seq(S), NEW m, q = <<m>>
  PROVE  m \in S
<1>1. DOMAIN q = {1} /\ q[1] = m
  BY OneOnly
<1> QED BY <1>1

LEMMA OneWord ==
  ASSUME NetType, NEW c \in Client, NEW s \in Server, NEW m, c2s[c][s] = <<m>>
  PROVE  m \in C2S /\ Head(c2s[c][s]) = m /\ Tail(c2s[c][s]) = <<>>
<1>1. c2s[c][s] \in Seq(C2S)
  BY DEF NetType
<1> QED BY <1>1, WordOf, Singles

\* A step of the thread of a get, by what it answers and leaves to be read.
LEMMA ServesFound ==
  ASSUME Known_, Alias = {}, NEW s \in Server, NEW c \in Gets, RecvGet(s, c), OnlyAt(s, c)
  PROVE  StoreStep
<1>0. c \in Client /\ NetType /\ ServerType /\ RolesKept /\ Line(c, s)
  BY DEF Gets, Known_, TalkInv, TypeInv, TypeOK, LineInv
<1>1. /\ spc[s][c] = "recv" /\ c2s[c][s] # <<>> /\ Head(c2s[c][s]).t = "get"
      /\ spc'[s][c] = "get_lock" /\ s2c' = s2c
      /\ cur'[s][c] \in MostRecent(s, Head(c2s[c][s]).file, Head(c2s[c][s]).chunk)
  BY <1>0, GetFound
<1>2. PICK m : c2s[c][s] = <<m>>
  BY <1>0, <1>1 DEF Line
<1>3. Head(c2s[c][s]) = m /\ m \in C2S /\ m.t = "get"
  BY <1>0, <1>1, <1>2, OneWord
<1>4. m.file \in File /\ m.chunk \in Chunk
  BY <1>3 DEF C2S
<1>5. PICK r \in MostRecent(s, m.file, m.chunk) : r = cur'[s][c]
  BY <1>1, <1>3
<1>6. /\ r \in Path /\ r.file = m.file /\ r.chunk = m.chunk
      /\ \A q \in Matching(s, m.file, m.chunk) : SortsAfter(r, q)
  BY <1>5 DEF MostRecent, Matching
<1>7. /\ r.ts \in Stamp /\ r = [file |-> m.file, chunk |-> m.chunk, ts |-> r.ts]
  BY <1>6 DEF Path
<1>8. ASSUME NEW p \in Path, p.file = m.file, p.chunk = m.chunk, StoredOn(s, p) # None
      PROVE  r.ts >= p.ts
  <2>1. disk[s][p] # Absent
    BY <1>8 DEF StoredOn, Absent
  <2>2. SortsAfter(r, p)
    BY <1>6, <1>8, <2>1 DEF Matching
  <2>3. NameRank[m.file] \in Nat
    BY <1>4, DfsAssumption
  <2> QED BY <1>6, <1>8, <2>2, <2>3 DEF SortsAfter
<1>9. /\ ReadingAt(s, c) = [file |-> m.file, chunk |-> m.chunk, ts |-> 0]
      /\ ReadingAt(s, c)' = r /\ AnswerOf(s, c)' = AnswerOf(s, c)
  <2>1. RequestIn(c2s[c][s]) = [file |-> m.file, chunk |-> m.chunk, ts |-> 0]
    BY <1>2, <1>3, OneRequestIn
  <2> QED BY <1>1, <1>5, <2>1 DEF ReadingAt, AnswerOf
<1> DEFINE f == m.file
           k == m.chunk
           t == r.ts
<1>10. f \in File /\ k \in Chunk /\ t \in Stamp
  BY <1>4, <1>7
<1>11. /\ ReadingAt(s, c) = [file |-> f, chunk |-> k, ts |-> 0]
       /\ ReadingAt(s, c)' = [file |-> f, chunk |-> k, ts |-> t]
  BY <1>7, <1>9
<1>12. \A p \in Path : p.file = f /\ p.chunk = k /\ StoredOn(s, p) # None => t >= p.ts
  BY <1>8
<1> HIDE DEF f, k, t
<1> QED BY <1>0, <1>9, <1>10, <1>11, <1>12, AsFind DEF StoreStep

LEMMA ServesNone ==
  ASSUME Known_, Alias = {}, NEW s \in Server, NEW c \in Gets, RecvGetNotFound(s, c),
         OnlyAt(s, c)
  PROVE  StoreStep
<1>0. /\ c \in Client /\ NetType /\ ServerType /\ RolesKept /\ Line(c, s) /\ StillOpen
  BY DEF Gets, Known_, TalkInv, TypeInv, TypeOK, LineInv
<1>1. /\ spc[s][c] = "recv" /\ c2s[c][s] # <<>> /\ Head(c2s[c][s]).t = "get"
      /\ Matching(s, Head(c2s[c][s]).file, Head(c2s[c][s]).chunk) = {}
      /\ UNCHANGED server /\ c2s'[c][s] = Tail(c2s[c][s])
      /\ clientEnd[c][s] = "open" => s2c'[c][s] = s2c[c][s] \o <<NotFound>>
  BY <1>0, GetNotFound
<1>2. PICK m : c2s[c][s] = <<m>> /\ s2c[c][s] = <<>>
  BY <1>0, <1>1 DEF Line
<1>3. Head(c2s[c][s]) = m /\ m \in C2S /\ m.t = "get" /\ c2s'[c][s] = <<>>
  BY <1>0, <1>1, <1>2, OneWord
<1>4. m.file \in File /\ m.chunk \in Chunk
  BY <1>3 DEF C2S
<1>5. /\ ReadingAt(s, c) = [file |-> m.file, chunk |-> m.chunk, ts |-> 0]
      /\ ReadingAt(s, c)' = NoPath
  <2>1. RequestIn(c2s[c][s]) = [file |-> m.file, chunk |-> m.chunk, ts |-> 0]
    BY <1>2, <1>3, OneRequestIn
  <2>2. spc'[s][c] = "recv" /\ RequestIn(c2s'[c][s]) = NoPath
    BY <1>1, <1>3, NoWords DEF server
  <2> QED BY <1>1, <2>1, <2>2 DEF ReadingAt
<1>6. CASE clientEnd[c][s] = "open"
  <2>1. s2c'[c][s] = <<NotFound>>
    BY <1>1, <1>2, <1>6, Singles
  <2>2. AnswerOf(s, c)' = [path |-> NoPath, ver |-> None]
    <3>1. NotFound.t = "not found"
      BY DEF NotFound
    <3> HIDE DEF NotFound
    <3>2. AnswerIn(<<NotFound>>) = [path |-> NoPath, ver |-> None]
      BY <3>1, OneAnswerIn
    <3> QED BY <2>1, <3>2 DEF AnswerOf
  <2>3. ASSUME NEW p \in Path, p.file = m.file, p.chunk = m.chunk
        PROVE  StoredOn(s, p) = None
    <3>1. disk[s][p] = Absent
      BY <1>1, <1>3, <2>3 DEF Matching
    <3> QED BY <3>1 DEF StoredOn, Absent
  <2> DEFINE f == m.file
             k == m.chunk
  <2>4. f \in File /\ k \in Chunk /\ ReadingAt(s, c) = [file |-> f, chunk |-> k, ts |-> 0]
    BY <1>4, <1>5
  <2>5. \A p \in Path : p.file = f /\ p.chunk = k => StoredOn(s, p) = None
    BY <2>3
  <2> HIDE DEF f, k
  <2> QED BY <1>0, <1>5, <2>2, <2>4, <2>5, AsDeny DEF StoreStep
<1>7. CASE clientEnd[c][s] # "open"
  <2>1. Ended(c)
    BY <1>0, <1>7 DEF StillOpen, Ended
  <2>2. AnswerOf(s, c)' = AnswerOf(s, c)
    BY <1>0, <1>7 DEF RecvGetNotFound, Reply, AnswerOf
  <2> QED BY <1>0, <1>5, <2>1, <2>2, AsForget DEF StoreStep
<1> QED BY <1>6, <1>7

\* Its size is no answer yet.
LEMMA ServesSize ==
  ASSUME Known_, NEW s \in Server, NEW c \in Gets, GetOpen(s, c), OnlyAt(s, c)
  PROVE  StoreStep
<1>0. c \in Client /\ NetType /\ ServerType /\ Line(c, s)
  BY DEF Gets, Known_, TalkInv, TypeInv, TypeOK, LineInv
<1>1. spc[s][c] = "get_lock" /\ spc'[s][c] = "get_ready" /\ UNCHANGED <<c2s, cur, disk>>
  BY <1>0, GetOpens
<1>2. s2c[c][s] = <<>>
  BY <1>0, <1>1 DEF Line
<1> DEFINE m == [t |-> "size", some |-> HasBytes(s, cur[s][c])]
<1>3. Reply(s, c, <<m>>) /\ m.t = "size"
  BY DEF GetOpen
<1> HIDE DEF m
<1>4. s2c'[c][s] = <<>> \/ s2c'[c][s] = <<>> \o <<m>>
  BY <1>0, <1>2, <1>3 DEF Reply, NetType
<1>5. AnswerIn(s2c[c][s]) = NoneYet /\ AnswerIn(s2c'[c][s]) = NoneYet
  <2>1. AnswerIn(<<m>>) = NoneYet
    BY <1>3, OneAnswerIn
  <2> QED BY <1>2, <1>4, <2>1, NoWords, Singles
<1>6. SameAt(s, c)
  BY <1>1, <1>5 DEF SameAt, ReadingAt, AnswerOf
<1>7. \A u \in Server, d \in Client : SameAt(u, d)
  BY <1>6 DEF OnlyAt
<1> QED BY <1>7, AsStutter DEF OnlyAt, StoreStep

LEMMA ServesBytes ==
  ASSUME Known_, NoEmptyChunk, NEW s \in Server, NEW c \in Gets, GetSend(s, c), OnlyAt(s, c),
         ~died[s]
  PROVE  StoreStep
<1>0. /\ c \in Client /\ NetType /\ ServerType /\ Line(c, s) /\ StillOpen
  BY DEF Gets, Known_, TalkInv, TypeInv, TypeOK, LineInv
<1>1. /\ spc[s][c] = "get_ready" /\ spc'[s][c] = "recv" /\ UNCHANGED disk
      /\ \/ c2s[c][s] # <<>> /\ c2s'[c][s] = Tail(c2s[c][s])
         \/ c2s[c][s] = <<>> /\ clientEnd[c][s] # "open" /\ c2s' = c2s
  BY <1>0, GetSends
<1>2. c2s'[c][s] = <<>> /\ (c2s[c][s] # <<>> => s2c[c][s] = <<>>)
  BY <1>0, <1>1, OneWord DEF Line
<1>3. ReadingAt(s, c)' = NoPath
  BY <1>1, <1>2, NoWords DEF ReadingAt
<1>4. CASE clientEnd[c][s] = "open"
  <2>1. PICK p \in Path : p = cur[s][c] /\ disk[s][p].st = "whole" /\ HasBytes(s, p)
    BY <1>0, <1>1, ReadersHaveBytes DEF Known_
  <2> DEFINE m == [t |-> "data", path |-> p, ver |-> disk[s][p].ver, st |-> disk[s][p].st]
  <2>2. s2c'[c][s] = s2c[c][s] \o <<m>> /\ m.t = "data" /\ m.path = p /\ m.ver = disk[s][p].ver
    BY <1>0, <1>4, <2>1, GetSends
  <2> HIDE DEF m
  <2>3. s2c'[c][s] = <<m>>
    BY <1>1, <1>2, <1>4, <2>2, Singles
  <2>4. ReadingAt(s, c) = p
    BY <1>1, <2>1 DEF ReadingAt
  <2>5. StoredOn(s, p) = disk[s][p].ver /\ StoredOn(s, p) # None
    <3>1. disk[s][p] \in Present
      BY <1>0, <2>1 DEF ServerType, Absent
    <3>2. disk[s][p].ver \in Client
      BY <3>1 DEF Present
    <3> QED BY <2>1, <3>2, DfsAssumption DEF StoredOn
  <2>6. AnswerOf(s, c)' = [path |-> p, ver |-> StoredOn(s, p)]
    BY <2>2, <2>3, <2>5, OneAnswerIn DEF AnswerOf
  <2> QED BY <1>0, <1>3, <2>4, <2>5, <2>6, AsGive DEF StoreStep
<1>5. CASE clientEnd[c][s] # "open"
  <2>1. Ended(c)
    BY <1>0, <1>5 DEF StillOpen, Ended
  <2>2. AnswerOf(s, c)' = AnswerOf(s, c)
    BY <1>0, <1>5 DEF GetSend, Reply, AnswerOf
  <2> QED BY <1>0, <1>3, <2>1, <2>2, AsForget DEF StoreStep
<1> QED BY <1>4, <1>5

LEMMA ServesDone ==
  ASSUME Known_, NEW s \in Server, NEW c \in Gets, RecvDone(s, c), OnlyAt(s, c)
  PROVE  StoreStep
<1>0. c \in Client /\ NetType /\ ServerType /\ Line(c, s)
  BY DEF Gets, Known_, TalkInv, TypeInv, TypeOK, LineInv
<1>1. /\ spc[s][c] = "recv" /\ spc'[s][c] = "ended" /\ UNCHANGED s2c
      /\ \/ /\ c2s[c][s] # <<>> /\ Head(c2s[c][s]).t = "done"
            /\ c2s'[c][s] = Tail(c2s[c][s])
         \/ c2s[c][s] = <<>> /\ c2s' = c2s
  BY <1>0, DoneServed
<1>2. RequestIn(c2s[c][s]) = NoPath /\ c2s'[c][s] = <<>>
  <2>1. CASE c2s[c][s] = <<>>
    BY <1>1, <2>1, NoWords
  <2>2. CASE c2s[c][s] # <<>>
    <3>1. PICK m : c2s[c][s] = <<m>>
      BY <1>0, <2>2 DEF Line
    <3>2. m.t # "get" /\ c2s'[c][s] = <<>>
      BY <1>0, <1>1, <2>2, <3>1, OneWord
    <3> QED BY <3>1, <3>2, OneRequestIn
  <2> QED BY <2>1, <2>2
<1>3. SameAt(s, c)
  BY <1>1, <1>2, NoWords DEF SameAt, ReadingAt, AnswerOf
<1>4. \A u \in Server, d \in Client : SameAt(u, d)
  BY <1>3 DEF OnlyAt
<1> QED BY <1>4, AsStutter DEF OnlyAt, StoreStep

LEMMA StoreServes ==
  ASSUME Known_, NoEmptyChunk, Alias = {}, NEW s \in Server, NEW c \in Gets,
         ThreadStep(s, c), ~ServerDies(s)
  PROVE  StoreStep
<1>0. c \in Client /\ TypeInv /\ RolesKept
  BY DEF Gets, Known_, TalkInv
<1>1. UNCHANGED <<progress, hist>>
  BY <1>0, ThreadsLeaveOthers
<1>2. RecvGet(s, c) \/ RecvGetNotFound(s, c) \/ GetOpen(s, c) \/ GetSend(s, c) \/ RecvDone(s, c)
  BY <1>0, ThreadsOfGet
<1>3. StoresSame
  <2>1. UNCHANGED disk
    BY <1>2 DEF RecvGet, RecvGetNotFound, GetOpen, GetSend, RecvDone, server
  <2> QED BY <2>1 DEF StoresSame, StoredOn
<1>4. \A u \in Server, d \in Client : u # s \/ d # c => SameAt(u, d)
  <2> SUFFICES ASSUME NEW u \in Server, NEW d \in Client, u # s \/ d # c PROVE SameAt(u, d)
    OBVIOUS
  <2>1. spc'[u][d] = spc[u][d] /\ cur'[u][d] = cur[u][d] /\ Keeps(d, u)
    BY <1>0, ThreadsLeaveOthers DEF Keeps
  <2> QED BY <2>1, SameKept
<1>5. EndsSame /\ died' = died
  BY <1>1 DEF progress, hist, EndsSame, Ended
<1>6. OnlyAt(s, c)
  BY <1>3, <1>4, <1>5 DEF OnlyAt
<1>7. CASE died[s]
  <2>1. \A u \in Server \ {s}, d \in Client : SameAt(u, d)
    BY <1>4
  <2> QED BY <1>3, <1>5, <1>7, <2>1, AsErratic DEF StoreStep
<1>8. CASE ~died[s]
  BY <1>2, <1>6, <1>8, ServesFound, ServesNone, ServesSize, ServesBytes, ServesDone
<1> QED BY <1>7, <1>8

(* ----------------------------- the theorem ------------------------------ *)

\* Every state is one that the steps are known to start from.
LEMMA KnownInvariant ==
  ASSUME ~SameMicrosecond, NoFileTwice
  PROVE  Spec => []Known_
<1>1. Init => OnceInv /\ LineInv /\ SizedInv /\ DiedKnown
  BY OnceInit, LineInit, DiedInit
<1>2. /\ Inv /\ TalkInv /\ OnceInv /\ LineInv /\ SizedInv /\ DiedKnown /\ [Next]_vars
        => OnceInv' /\ LineInv' /\ SizedInv' /\ DiedKnown'
  <2> SUFFICES ASSUME Inv, TalkInv, OnceInv, LineInv, SizedInv, DiedKnown, [Next]_vars
               PROVE  OnceInv' /\ LineInv' /\ SizedInv' /\ DiedKnown'
    OBVIOUS
  <2>1. TypeInv /\ RolesKept /\ EndsAreFinal
    BY DEF TalkInv
  <2> QED BY <2>1, OnceStep, LineStep, SizedStep, DiedStep
<1>3. Spec => [](OnceInv /\ LineInv /\ SizedInv /\ DiedKnown)
  BY <1>1, <1>2, InvInvariant, TalkInvariant, PTL DEF Spec
<1> QED BY <1>3, InvInvariant, TalkInvariant, ReadInvariant, PTL DEF Known_

LEMMA StoreInit == Init => Store!Init
<1> SUFFICES ASSUME Init PROVE Store!Init
  OBVIOUS
<1>1. \A s \in Server, p \in Path : StoredOn(s, p) = None
  BY DEF Init, StoredOn, Absent
<1>2. \A s \in Server, c \in Client : ReadingAt(s, c) = NoPath /\ AnswerOf(s, c) = NoneYet
  BY NoWords DEF Init, ReadingAt, AnswerOf
<1>3. storedBar = [s \in Server |-> [p \in Store!Path |-> None]]
  BY <1>1 DEF storedBar, Store!Path, Path
<1>4. readingBar = [s \in Server |-> [c \in Client |-> Store!Nothing]]
  BY <1>2, AbstractNone DEF readingBar
<1>5. answerBar = [s \in Server |-> [c \in Client |-> Store!NoAnswer]]
  BY <1>2, AbstractNone DEF answerBar
<1>6. goneBar = [c \in Client |-> FALSE] /\ died = [s \in Server |-> FALSE]
  <2>1. \A c \in Client : (cpc[c] \in {"exited", "killed"}) = FALSE
    <3> TAKE c \in Client
    <3>1. cpc[c] \in {"exited", "killed"} <=> FALSE
      BY DEF Init
    <3> QED BY <3>1
  <2> QED BY <2>1, Zenon DEF Init, goneBar
<1> QED BY <1>3, <1>4, <1>5, <1>6
    DEF Store!Init, storedBar, readingBar, answerBar, goneBar

\* Where nothing is changed that a client can tell.
LEMMA StoreStutters ==
  ASSUME UNCHANGED <<progress, net, spc, cur, disk, died>>
  PROVE  StoreStep
<1>1. StoresSame /\ EndsSame /\ died' = died
  BY DEF progress, StoresSame, StoredOn, EndsSame, Ended
<1>2. \A s \in Server, c \in Client : SameAt(s, c)
  BY SameKept DEF net, Keeps
<1> QED BY <1>1, <1>2, AsStutter DEF StoreStep

LEMMA StoreSteps ==
  ASSUME NoEmptyChunk, Alias = {}
  PROVE  Known_ /\ Known_' /\ [Next]_vars => [Store!Next]_(Store!vars)
<1> SUFFICES ASSUME Known_, Known_', [Next]_vars PROVE StoreStep
  BY DEF StoreStep
<1>0. TalkInv /\ TalkInv'
  BY DEF Known_
<1>1. ASSUME NEW c \in Client, ClientStep(c) \/ Kill(c) PROVE StoreStep
  <2>1. CASE c \in Gets
    BY <1>1, <2>1, StoreGets
  <2>2. CASE c \notin Gets
    BY <1>0, <1>1, <2>2, StoreAside
  <2> QED BY <2>1, <2>2
<1>2. ASSUME NEW s \in Server, NEW c \in Client, ThreadStep(s, c) PROVE StoreStep
  <2>1. CASE ServerDies(s)
    BY <2>1, StoreDies
  <2>2. CASE ~ServerDies(s) /\ c \in Gets
    BY <1>2, <2>2, StoreServes
  <2>3. CASE ~ServerDies(s) /\ c \notin Gets
    BY <1>0, <1>2, <2>3, StorePuts
  <2> QED BY <2>1, <2>2, <2>3
<1>3. ASSUME NEW s \in Server, Crash(s) \/ Restart(s) PROVE StoreStep
  <2>1. CASE Crash(s)
    BY <2>1, StoreDies DEF Crash
  <2>2. CASE Restart(s)
    BY <2>2, StoreStutters DEF Restart, hist
  <2> QED BY <1>3, <2>1, <2>2
<1>4. CASE UNCHANGED vars
  BY <1>4, StoreStutters DEF vars, server, hist
<1> QED BY <1>1, <1>2, <1>3, <1>4 DEF Next

\* Dfs implements ChunkStore (dfs.c:36-343, dfc.c:139-465): however threads,
\* clients, ends and restarts of servers interleave, each server that has not
\* ended gives a get the whole bytes of one chunk file, and none that was
\* stored when it looked is newer; it says "Not Found" only of a chunk it does
\* not have; and what is stored once stays as it is on every server.  No two
\* puts have one stamp and no command line one file twice, no name is a grep
\* pattern for another's, and no file that is put is shorter than N bytes: the
\* last is needed, for an empty chunk puts a get out of step with the thread.
THEOREM DfsIsAStore ==
  ASSUME ~SameMicrosecond, NoFileTwice, Alias = {}, NoEmptyChunk
  PROVE  Spec => IsChunkStore
<1>1. Known_ /\ Known_' /\ [Next]_vars => [Store!Next]_(Store!vars)
  BY StoreSteps
<1> QED BY <1>1, StoreInit, KnownInvariant, PTL DEF Spec, IsChunkStore, Store!Spec

(* --------------------- the two sides stay in step ----------------------- *)

\* What is on the connection of a put: nothing; or, at the server it is at,
\* its chunk, which the thread writes, or the answer to that; or, at the end,
\* that it is done.  This is InTurn without a look at the directories, so
\* that it holds of puts of any stamp and of any names.
Empty(c, s) == AtRest(c, s) /\ c2s[c][s] = <<>> /\ s2c[c][s] = <<>>
Saying(c, s) ==
  /\ AtRest(c, s) /\ s2c[c][s] = <<>>
  /\ \E h : /\ h.t = "put"
            /\ \/ c2s[c][s] = <<h>>
               \/ c2s[c][s] = <<h, Rest>> /\ Size(c, h.path) > 0
Filing(c, s) ==
  /\ spc[s][c] \in {"put_lock", "put_write"} /\ s2c[c][s] = <<>>
  /\ c2s[c][s] = <<>> \/ (c2s[c][s] = <<Rest>> /\ Size(c, cur[s][c]) > 0)
Filed(c, s) == spc[s][c] = "put_ack" /\ c2s[c][s] = <<>> /\ s2c[c][s] = <<>>
Told(c, s) == AtRest(c, s) /\ c2s[c][s] = <<>> /\ s2c[c][s] = <<[t |-> "ack"]>>
Carries(c, s) == Saying(c, s) \/ Filing(c, s) \/ Filed(c, s) \/ Told(c, s)
Leaving(c, s) == cpc[c] = "exited" /\ AtRest(c, s) /\ s2c[c][s] = <<>>
                 /\ c2s[c][s] = <<[t |-> "done"]>>
AtTurn(c, s) == s = srv[c] /\ cpc[c] \in {"put_ack", "exited", "killed"}
PutLine(c, s) == Empty(c, s) \/ Leaving(c, s) \/ (AtTurn(c, s) /\ Carries(c, s))
PutLineInv == \A c \in Puts, s \in Server : PutLine(c, s)

LEMMA PutLineKept ==
  ASSUME NEW c, NEW s, PutLine(c, s), srv'[c] = srv[c], cpc'[c] = cpc[c],
         spc'[s][c] = spc[s][c], cur'[s][c] = cur[s][c], Keeps(c, s)
  PROVE  PutLine(c, s)'
<1>1. Empty(c, s) => Empty(c, s)'
  BY DEF Empty, AtRest, Keeps
<1>2. Leaving(c, s) => Leaving(c, s)'
  BY DEF Leaving, AtRest, Keeps
<1>3. AtTurn(c, s) => AtTurn(c, s)'
  BY DEF AtTurn
<1>4. Saying(c, s) => Saying(c, s)'
  BY DEF Saying, AtRest, Keeps, Size, Rest
<1>5. Filing(c, s) => Filing(c, s)'
  BY DEF Filing, Keeps, Size, Rest
<1>6. Filed(c, s) => Filed(c, s)'
  BY DEF Filed, Keeps
<1>7. Told(c, s) => Told(c, s)'
  BY DEF Told, AtRest, Keeps
<1> QED BY <1>1, <1>2, <1>3, <1>4, <1>5, <1>6, <1>7 DEF PutLine, Carries

\* At a server that ends only an answer is left.
LEMMA PutLineEnds ==
  ASSUME NEW c, NEW s, PutLine(c, s), srv'[c] = srv[c], cpc'[c] = cpc[c],
         spc'[s][c] = "none", c2s'[c][s] = <<>>, s2c'[c][s] = s2c[c][s]
  PROVE  PutLine(c, s)'
<1>1. CASE s2c[c][s] = <<>>
  BY <1>1 DEF PutLine, Empty, AtRest
<1>2. CASE s2c[c][s] # <<>>
  <2>1. AtTurn(c, s) /\ Told(c, s)
    BY <1>2 DEF PutLine, Empty, Leaving, Carries, Saying, Filing, Filed
  <2>2. AtTurn(c, s)' /\ Told(c, s)'
    BY <2>1 DEF AtTurn, Told, AtRest
  <2> QED BY <2>2 DEF PutLine, Carries
<1> QED BY <1>1, <1>2

LEMMA PutLineServed ==
  ASSUME TypeInv, RolesKept, NEW s \in Server, NEW c \in Puts, PutLine(c, s),
         ThreadStep(s, c), ~ServerDies(s)
  PROVE  PutLine(c, s)'
<1>0. /\ c \in Client /\ NetType /\ ServerType
      /\ cur \in [Server -> [Client -> Path \cup {NoPath}]]
  BY DEF Puts, TypeInv, TypeOK, ServerType
<1>p. srv' = srv /\ cpc' = cpc
  BY <1>0, ThreadsLeaveOthers DEF progress
<1>t. AtTurn(c, s) => AtTurn(c, s)'
  BY <1>p DEF AtTurn
<1>1. CASE RecvPut(s, c)
  <2>1. /\ c2s[c][s] # <<>> /\ Head(c2s[c][s]).t = "put" /\ spc[s][c] = "recv"
        /\ c2s'[c][s] = Tail(c2s[c][s]) /\ cur'[s][c] = Head(c2s[c][s]).path
        /\ spc'[s][c] = "put_lock" /\ s2c'[c][s] = s2c[c][s]
    BY <1>0, <1>1, TakesOne, GoesTo DEF RecvPut, Next_
  <2>2. AtTurn(c, s) /\ Saying(c, s)
    <3>1. ~Leaving(c, s)
      <4> DEFINE done == [t |-> "done"]
      <4>1. Head(<<done>>) = done /\ done.t = "done"
        OBVIOUS
      <4> QED BY <2>1, <4>1 DEF Leaving
    <3> QED BY <2>1, <3>1 DEF PutLine, Empty, Carries, Filing, Filed, Told
  <2>3. PICK h : \/ c2s[c][s] = <<h>>
                 \/ c2s[c][s] = <<h, Rest>> /\ Size(c, h.path) > 0
    BY <2>2 DEF Saying
  <2>4. Head(<<h>>) = h /\ Head(<<h, Rest>>) = h
    OBVIOUS
  <2>5. cur'[s][c] = h.path /\ Size(c, h.path)' = Size(c, h.path)
    BY <2>1, <2>3, <2>4 DEF Size
  <2>6. c2s'[c][s] = <<>> \/ (c2s'[c][s] = <<Rest>> /\ Size(c, h.path) > 0)
    BY <2>1, <2>3, Tails
  <2>7. Filing(c, s)'
    BY <2>1, <2>2, <2>5, <2>6 DEF Saying, Filing, Rest
  <2> QED BY <1>t, <2>2, <2>7 DEF PutLine, Carries
<1>2. CASE PutOpen(s, c)
  <2>1. /\ spc[s][c] = "put_lock" /\ spc'[s][c] = "put_write" /\ cur' = cur
        /\ c2s' = c2s /\ s2c' = s2c
    BY <1>0, <1>2, GoesTo DEF PutOpen, net
  <2>2. AtTurn(c, s) /\ Filing(c, s)
    BY <2>1 DEF PutLine, Empty, Leaving, Carries, Saying, Filed, Told, AtRest
  <2>3. Filing(c, s)'
    BY <2>1, <2>2 DEF Filing, Rest, Size
  <2> QED BY <1>t, <2>2, <2>3 DEF PutLine, Carries
<1>3. CASE PutClose(s, c)
  <2>1. /\ spc[s][c] = "put_write" /\ spc'[s][c] = "put_ack" /\ s2c'[c][s] = s2c[c][s]
        /\ IF Size(c, cur[s][c]) > 0
             THEN c2s[c][s] # <<>> /\ c2s'[c][s] = Tail(c2s[c][s])
             ELSE c2s'[c][s] = c2s[c][s]
    BY <1>0, <1>3, TakesOne, GoesTo DEF PutClose, Next_
  <2>2. AtTurn(c, s) /\ Filing(c, s)
    BY <2>1 DEF PutLine, Empty, Leaving, Carries, Saying, Filed, Told, AtRest
  <2>3. c2s'[c][s] = <<>>
    BY <2>1, <2>2, Tails DEF Filing
  <2>4. Filed(c, s)'
    BY <2>1, <2>2, <2>3 DEF Filing, Filed
  <2> QED BY <1>t, <2>2, <2>4 DEF PutLine, Carries
<1>4. CASE PutAck(s, c)
  <2>1. /\ spc[s][c] = "put_ack" /\ spc'[s][c] = "recv" /\ c2s'[c][s] = c2s[c][s]
        /\ s2c'[c][s] \in {s2c[c][s], s2c[c][s] \o <<[t |-> "ack"]>>}
    BY <1>0, <1>4, GoesTo DEF PutAck, Reply, NetType
  <2>2. AtTurn(c, s) /\ Filed(c, s)
    BY <2>1 DEF PutLine, Empty, Leaving, Carries, Saying, Filing, Told, AtRest
  <2>3. s2c'[c][s] = <<>> \/ s2c'[c][s] = <<[t |-> "ack"]>>
    BY <2>1, <2>2 DEF Filed
  <2>4. Empty(c, s)' \/ Told(c, s)'
    BY <2>1, <2>2, <2>3 DEF Filed, Empty, Told, AtRest
  <2> QED BY <1>t, <2>2, <2>4 DEF PutLine, Carries
<1>5. CASE RecvDone(s, c)
  <2>1. /\ spc[s][c] = "recv" /\ spc'[s][c] = "ended" /\ s2c'[c][s] = s2c[c][s]
        /\ \/ /\ c2s[c][s] # <<>> /\ Head(c2s[c][s]).t = "done"
              /\ c2s'[c][s] = Tail(c2s[c][s])
           \/ c2s[c][s] = <<>> /\ c2s'[c][s] = <<>>
    BY <1>0, <1>5, TakesOne, GoesTo DEF RecvDone, Next_
  <2>2. ~Saying(c, s)
    <3> SUFFICES ASSUME NEW h, h.t = "put", c2s[c][s] = <<h>> \/ c2s[c][s] = <<h, Rest>>
                 PROVE  FALSE
      BY DEF Saying
    <3>1. Head(<<h>>) = h /\ Head(<<h, Rest>>) = h /\ <<h>> # <<>> /\ <<h, Rest>> # <<>>
      OBVIOUS
    <3>2. c2s[c][s] # <<>> /\ Head(c2s[c][s]) = h
      BY <3>1
    <3> QED BY <2>1, <3>2
  <2>3. Empty(c, s) \/ Leaving(c, s) \/ (AtTurn(c, s) /\ Told(c, s))
    BY <2>1, <2>2 DEF PutLine, Carries, Filing, Filed
  <2>4. c2s'[c][s] = <<>>
    BY <2>1, <2>3, Tails DEF Empty, Leaving, Told
  <2>5. CASE AtTurn(c, s) /\ Told(c, s)
    BY <1>t, <2>1, <2>4, <2>5 DEF PutLine, Carries, Told, AtRest
  <2>6. CASE Empty(c, s) \/ Leaving(c, s)
    BY <2>1, <2>4, <2>6 DEF PutLine, Empty, Leaving, AtRest
  <2> QED BY <2>3, <2>5, <2>6
<1> QED BY <1>1, <1>2, <1>3, <1>4, <1>5, ThreadsOfPut

\* The word that a connection ends with, taken off: the rest of a chunk that
\* a killed client did not send.
LEMMA WordTaken ==
  ASSUME NEW q, NEW x, q = <<x>>
  PROVE  Len(q) = 1 /\ q[Len(q)] = x /\ SubSeq(q, 1, Len(q) - 1) = <<>>
OBVIOUS

LEMMA RestTaken ==
  ASSUME NEW q, NEW x, NEW y, q = <<x, y>>
  PROVE  SubSeq(q, 1, Len(q) - 1) = <<x>>
BY TakeOffRest

\* Of a put that ends what is on the way stays there, but for an answer.
LEMMA PutLineLeft ==
  ASSUME NEW c, NEW s, PutLine(c, s), srv'[c] = srv[c], cpc'[c] \in {"exited", "killed"},
         cpc[c] \notin {"exited", "killed"}, spc'[s][c] = spc[s][c], cur'[s][c] = cur[s][c],
         s2c'[c][s] = <<>>,
         \/ c2s'[c][s] = c2s[c][s]
         \/ \E h : c2s[c][s] = <<h, Rest>> /\ c2s'[c][s] = <<h>>
         \/ c2s[c][s] = <<Rest>> /\ c2s'[c][s] = <<>>
  PROVE  PutLine(c, s)'
<1>0. Empty(c, s) \/ (AtTurn(c, s) /\ Carries(c, s))
  BY DEF PutLine, Leaving
<1>1. CASE Empty(c, s)
  <2>1. c2s'[c][s] = <<>>
    BY <1>1 DEF Empty
  <2> QED BY <1>1, <2>1 DEF PutLine, Empty, AtRest
<1>2. CASE AtTurn(c, s) /\ Carries(c, s)
  <2>0. AtTurn(c, s)'
    BY <1>2 DEF AtTurn
  <2>1. CASE Saying(c, s)
    <3>1. PICK h : /\ h.t = "put"
                   /\ \/ c2s[c][s] = <<h>>
                      \/ c2s[c][s] = <<h, Rest>> /\ Size(c, h.path) > 0
      BY <2>1 DEF Saying
    <3>2. \/ c2s'[c][s] = <<h>>
          \/ c2s'[c][s] = <<h, Rest>> /\ Size(c, h.path) > 0
      BY <3>1 DEF Rest
    <3>3. Saying(c, s)'
      BY <2>1, <3>1, <3>2 DEF Saying, AtRest, Rest, Size
    <3> QED BY <2>0, <3>3 DEF PutLine, Carries
  <2>2. CASE Filing(c, s)
    <3>1. c2s'[c][s] = <<>> \/ (c2s'[c][s] = <<Rest>> /\ Size(c, cur[s][c]) > 0)
      BY <2>2 DEF Filing
    <3>2. Filing(c, s)'
      BY <2>2, <3>1 DEF Filing, Rest, Size
    <3> QED BY <2>0, <3>2 DEF PutLine, Carries
  <2>3. CASE Filed(c, s)
    <3>1. Filed(c, s)'
      BY <2>3 DEF Filed
    <3> QED BY <2>0, <3>1 DEF PutLine, Carries
  <2>4. CASE Told(c, s)
    <3>1. Empty(c, s)'
      BY <2>4 DEF Told, Empty, AtRest
    <3> QED BY <3>1 DEF PutLine
  <2> QED BY <1>2, <2>1, <2>2, <2>3, <2>4 DEF Carries
<1> QED BY <1>0, <1>1, <1>2

LEMMA PutLineEmpties ==
  ASSUME TypeInv, EndsAreFinal, NEW c \in Puts, \A s \in Server : PutLine(c, s),
         PutSkip(c) \/ PutStart(c) \/ Connect(c) \/ PutAcked(c) \/ PutEof(c), NEW s \in Server
  PROVE  Empty(c, s)'
<1>0. c \in Client /\ NetType /\ ServerType /\ PutLine(c, s)
  BY DEF Puts, TypeInv, TypeOK
<1>1. CASE PutSkip(c) \/ PutStart(c)
  <2>1. cpc[c] \in {"put_send", "dispatch"} /\ UNCHANGED <<spc, c2s, s2c>>
    BY <1>1 DEF PutSkip, PutStart, net, server
  <2>2. Empty(c, s)
    BY <1>0, <2>1 DEF PutLine, Leaving, AtTurn
  <2> QED BY <2>1, <2>2 DEF Empty, AtRest
<1>2. CASE Connect(c)
  <2>1. /\ cpc[c] = "connect" /\ UNCHANGED <<c2s, s2c>>
        /\ UNCHANGED spc \/ spc' = [spc EXCEPT ![srv[c]][c] = "recv"]
    BY <1>2 DEF Connect, net
  <2>2. Empty(c, s)
    BY <1>0, <2>1 DEF PutLine, Leaving, AtTurn
  <2>3. spc'[s][c] \in {spc[s][c], "recv"}
    <3>1. srv[c] \in Server
      BY <1>0, <2>1 DEF TypeInv, LoopsInRange, LoopInRange
    <3>2. spc \in [Server -> [Client -> ThreadStates]]
      BY <1>0 DEF ServerType
    <3>3. CASE spc' = [spc EXCEPT ![srv[c]][c] = "recv"]
      BY <1>0, <3>1, <3>2, <3>3
    <3> QED BY <2>1, <3>3
  <2> QED BY <2>1, <2>2, <2>3 DEF Empty, AtRest
<1>3. CASE PutAcked(c)
  <2>1. /\ cpc[c] = "put_ack" /\ s2c[c][srv[c]] # <<>> /\ UNCHANGED <<c2s, spc>>
        /\ s2c' = [s2c EXCEPT ![c][srv[c]] = Tail(@)]
    BY <1>3 DEF PutAcked, Arrived, Receive, server
  <2>2. srv[c] \in Server
    BY <1>0, <2>1 DEF TypeInv, LoopsInRange, LoopInRange
  <2>3. CASE s # srv[c]
    <3>1. Empty(c, s)
      BY <1>0, <2>1, <2>3 DEF PutLine, Leaving, AtTurn
    <3>2. s2c'[c][s] = s2c[c][s]
      BY <1>0, <2>1, <2>2, <2>3 DEF NetType
    <3> QED BY <2>1, <3>1, <3>2 DEF Empty, AtRest
  <2>4. CASE s = srv[c]
    <3>1. Told(c, s)
      BY <1>0, <2>1, <2>4 DEF PutLine, Empty, Leaving, Carries, Saying, Filing, Filed
    <3>2. s2c'[c][s] = Tail(s2c[c][s])
      BY <1>0, <2>1, <2>2, <2>4 DEF NetType
    <3>3. s2c'[c][s] = <<>>
      BY <3>1, <3>2, Tails DEF Told
    <3> QED BY <2>1, <3>1, <3>3 DEF Empty, Told, AtRest
  <2> QED BY <2>3, <2>4
<1>4. CASE PutEof(c)
  <2>1. /\ cpc[c] = "put_ack" /\ s2c[c][srv[c]] = <<>> /\ serverEnd[c][srv[c]] # "open"
        /\ UNCHANGED <<c2s, s2c, spc>>
    BY <1>4 DEF PutEof, ReadsEof, Arrived, server, net
  <2>2. CASE s # srv[c]
    <3>1. Empty(c, s)
      BY <1>0, <2>1, <2>2 DEF PutLine, Leaving, AtTurn
    <3> QED BY <2>1, <3>1 DEF Empty, AtRest
  <2>3. CASE s = srv[c]
    <3>1. spc[s][c] = "none" /\ c2s[c][s] = <<>>
      BY <1>0, <2>1, <2>3 DEF EndsAreFinal, EndIsFinal
    <3> QED BY <2>1, <2>3, <3>1 DEF Empty, AtRest
  <2> QED BY <2>2, <2>3
<1> QED BY <1>1, <1>2, <1>3, <1>4

LEMMA PutLineSends ==
  ASSUME TypeInv, NEW c \in Puts, NEW s \in Server, PutLine(c, s), PutSend(c)
  PROVE  PutLine(c, s)'
<1> DEFINE h == [t |-> "put", path |-> PutPath(c)]
<1>0. /\ c \in Client /\ NetType /\ cpc[c] = "put_send" /\ cpc'[c] = "put_ack"
      /\ UNCHANGED <<srv, s2c, spc>> /\ ClientSends(c, srv[c], PutUnits(c, PutPath(c)))
  BY DEF PutSend, Puts, memory, server, TypeInv, TypeOK, ClientType
<1>1. srv[c] \in Server
  BY <1>0 DEF TypeInv, LoopsInRange, LoopInRange
<1>2. Empty(c, s)
  BY <1>0 DEF PutLine, Leaving, AtTurn
<1>3. AtRest(c, s)' /\ s2c'[c][s] = <<>>
  BY <1>0, <1>2 DEF Empty, AtRest
<1>4. CASE c2s'[c][s] = c2s[c][s]
  BY <1>2, <1>3, <1>4 DEF PutLine, Empty
<1>5. CASE c2s'[c][s] # c2s[c][s]
  <2>1. s = srv[c] /\ c2s'[c][s] = <<>> \o PutUnits(c, PutPath(c))
    BY <1>0, <1>1, <1>2, <1>5 DEF ClientSends, NetType, Empty
  <2>2. h.t = "put" /\ h.path = PutPath(c)
    OBVIOUS
  <2>3. \/ c2s'[c][s] = <<h>>
        \/ c2s'[c][s] = <<h, Rest>> /\ Size(c, h.path) > 0
    BY <2>1, <2>2 DEF PutUnits, Rest
  <2> HIDE DEF h
  <2>4. Saying(c, s)'
    BY <1>3, <2>2, <2>3 DEF Saying, Rest, Size
  <2> QED BY <1>0, <2>1, <2>4 DEF PutLine, Carries, AtTurn
<1> QED BY <1>4, <1>5

LEMMA PutLineStops ==
  ASSUME TypeInv, RolesKept, NEW c \in Puts, \A s \in Server : PutLine(c, s), NEW s \in Server,
         PutRefused(c) \/ PutSendDies(c) \/ PutFails(c) \/ Kill(c)
           \/ (Finish(c) /\ cpc[c] = "put_send" /\ NoMoreArgs(c))
  PROVE  PutLine(c, s)'
<1>0. c \in Client /\ NetType /\ ClientType /\ PutLine(c, s)
  BY DEF Puts, TypeInv, TypeOK
<1>1. /\ UNCHANGED <<srv, spc, cur>> /\ cpc[c] \notin {"exited", "killed"}
      /\ s2c' = [s2c EXCEPT ![c] = [u \in Server |-> <<>>]]
  BY DEF PutRefused, PutSendDies, PutFails, Kill, Finish, Dies, CloseAll, Running, server
<1>2. cpc'[c] \in {"exited", "killed"} /\ (Finish(c) => cpc'[c] = "exited")
  BY <1>0 DEF PutRefused, PutSendDies, PutFails, Kill, Finish, Dies, ClientType
<1>3. s2c'[c][s] = <<>>
  BY <1>0, <1>1 DEF NetType
<1>4. CASE UNCHANGED c2s
  BY <1>0, <1>1, <1>2, <1>3, <1>4, PutLineLeft
<1>5. CASE Finish(c) /\ cpc[c] = "put_send"
  <2>1. PICK cut \in 1..(N+1) :
          c2s' = [c2s EXCEPT ![c] = [u \in Server |->
            IF u < cut /\ live[c][u] /\ serverEnd[c][u] = "open"
            THEN Append(c2s[c][u], [t |-> "done"]) ELSE c2s[c][u]]]
    BY <1>5 DEF Finish
  <2>2. Empty(c, s)
    BY <1>0, <1>5 DEF PutLine, Leaving, AtTurn
  <2>3. c2s'[c][s] = c2s[c][s] \/ c2s'[c][s] = Append(<<>>, [t |-> "done"])
    BY <1>0, <2>1, <2>2 DEF NetType, Empty
  <2>4. c2s'[c][s] = <<>> \/ c2s'[c][s] = <<[t |-> "done"]>>
    BY <2>2, <2>3 DEF Empty
  <2> QED BY <1>1, <1>2, <1>3, <1>5, <2>2, <2>4 DEF PutLine, Empty, Leaving, AtRest
<1>6. CASE Kill(c) /\ ~UNCHANGED c2s
  <2> DEFINE q == c2s[c][srv[c]]
  <2>1. /\ cpc[c] = "put_ack" /\ q # <<>> /\ q[Len(q)].t = "rest"
        /\ c2s' = [c2s EXCEPT ![c][srv[c]] = SubSeq(q, 1, Len(q) - 1)]
    BY <1>6 DEF Kill
  <2>2. srv[c] \in Server
    BY <1>0, <2>1 DEF TypeInv, LoopsInRange, LoopInRange
  <2>3. CASE s # srv[c]
    <3>1. c2s'[c][s] = c2s[c][s]
      BY <1>0, <2>1, <2>2, <2>3 DEF NetType
    <3> QED BY <1>0, <1>1, <1>2, <1>3, <3>1, PutLineLeft
  <2>4. CASE s = srv[c]
    <3>1. c2s'[c][s] = SubSeq(q, 1, Len(q) - 1)
      BY <1>0, <2>1, <2>2, <2>4 DEF NetType
    <3>2. Saying(c, s) \/ q = <<Rest>>
      BY <1>0, <2>1, <2>4 DEF PutLine, Empty, Leaving, Carries, Filing, Filed, Told
    <3>3. CASE Saying(c, s)
      <4>1. PICK h : h.t = "put" /\ (q = <<h>> \/ q = <<h, Rest>>)
        BY <2>4, <3>3 DEF Saying
      <4>2. q # <<h>>
        BY <2>1, <4>1, WordTaken
      <4>3. c2s[c][s] = <<h, Rest>> /\ c2s'[c][s] = <<h>>
        BY <2>4, <3>1, <4>1, <4>2, RestTaken
      <4> QED BY <1>0, <1>1, <1>2, <1>3, <4>3, PutLineLeft
    <3>4. CASE q = <<Rest>>
      <4>1. c2s[c][s] = <<Rest>> /\ c2s'[c][s] = <<>>
        BY <2>4, <3>1, <3>4, WordTaken
      <4> QED BY <1>0, <1>1, <1>2, <1>3, <4>1, PutLineLeft
    <3> QED BY <3>2, <3>3, <3>4
  <2> QED BY <2>3, <2>4
<1> QED BY <1>4, <1>5, <1>6 DEF PutRefused, PutSendDies, PutFails, Dies

LEMMA PutLineOfOne ==
  ASSUME TypeInv, RolesKept, EndsAreFinal, NEW c \in Puts, \A s \in Server : PutLine(c, s),
         ClientStep(c) \/ Kill(c), NEW s \in Server
  PROVE  PutLine(c, s)'
<1>1. PutStep(c)
  BY StepsOfPut
<1>2. CASE PutSkip(c) \/ PutStart(c) \/ Connect(c) \/ PutAcked(c) \/ PutEof(c)
  BY <1>2, PutLineEmpties DEF PutLine
<1>3. CASE PutSend(c)
  BY <1>3, PutLineSends
<1> QED BY <1>1, <1>2, <1>3, PutLineStops DEF PutStep

LEMMA PutLineInit == Init => PutLineInv
BY DEF Init, PutLineInv, PutLine, Empty, AtRest, Puts

LEMMA PutLineStep ==
  TypeInv /\ RolesKept /\ EndsAreFinal /\ PutLineInv /\ [Next]_vars => PutLineInv'
<1> SUFFICES ASSUME TypeInv, RolesKept, EndsAreFinal, PutLineInv, [Next]_vars,
                    NEW c \in Puts, NEW s \in Server
             PROVE  PutLine(c, s)'
  BY DEF PutLineInv, Puts
<1>0. c \in Client /\ NetType /\ ServerType /\ \A u \in Server : PutLine(c, u)
  BY DEF Puts, TypeInv, TypeOK, PutLineInv
<1>1. ASSUME NEW d \in Client, ClientStep(d) \/ Kill(d) PROVE PutLine(c, s)'
  <2>1. CASE d = c
    BY <1>0, <1>1, <2>1, PutLineOfOne
  <2>2. CASE d # c
    <3>1. ProgressKept(c) /\ NetKept(c) /\ spc'[s][c] = spc[s][c] /\ cur' = cur
      BY <1>0, <1>1, <2>2, OthersKept, ClientsLeaveDisk DEF ClientKept
    <3> QED BY <1>0, <3>1, PutLineKept DEF ProgressKept, NetKept, Keeps
  <2> QED BY <2>1, <2>2
<1>2. ASSUME NEW u \in Server, ServerDies(u) PROVE PutLine(c, s)'
  <2>1. srv' = srv /\ cpc' = cpc /\ s2c' = s2c
    BY <1>2 DEF ServerDies, progress
  <2>2. CASE u = s
    <3>1. c2s'[c][s] = <<>> /\ spc'[s][c] = "none"
      BY <1>0, <1>2, <2>2 DEF ServerDies, ServerType, NetType
    <3> QED BY <1>0, <2>1, <3>1, PutLineEnds
  <2>3. CASE u # s
    <3>1. spc'[s][c] = spc[s][c] /\ cur'[s][c] = cur[s][c] /\ Keeps(c, s)
      BY <1>0, <1>2, <2>3 DEF ServerDies, ServerType, NetType, Keeps
    <3> QED BY <1>0, <2>1, <3>1, PutLineKept
  <2> QED BY <2>2, <2>3
<1>3. ASSUME NEW u \in Server, NEW d \in Client, ThreadStep(u, d) PROVE PutLine(c, s)'
  <2>1. CASE ServerDies(u)
    BY <1>2, <2>1
  <2>2. CASE ~ServerDies(u) /\ (u # s \/ d # c)
    <3>1. /\ spc'[s][c] = spc[s][c] /\ cur'[s][c] = cur[s][c] /\ Keeps(c, s)
          /\ UNCHANGED progress
      BY <1>0, <1>3, <2>2, ThreadsLeaveOthers DEF Keeps
    <3> QED BY <1>0, <3>1, PutLineKept DEF progress
  <2>3. CASE ~ServerDies(u) /\ u = s /\ d = c
    BY <1>0, <1>3, <2>3, PutLineServed
  <2> QED BY <2>1, <2>2, <2>3
<1>4. CASE UNCHANGED <<progress, c2s, s2c, spc, cur>>
  BY <1>0, <1>4, PutLineKept DEF Keeps, progress
<1>5. ASSUME NEW u \in Server, Crash(u) \/ Restart(u) PROVE PutLine(c, s)'
  BY <1>2, <1>4, <1>5 DEF Crash, Restart, net
<1> QED BY <1>1, <1>3, <1>4, <1>5 DEF Next, vars, net, server

\* What this part rests on: nothing of it depends on which paths the puts write.
Talked == TalkInv /\ ReadInv /\ LineInv /\ SizedInv /\ PutLineInv

LEMMA TalkedInvariant == Spec => []Talked
<1>1. Init => LineInv /\ SizedInv /\ PutLineInv
  BY LineInit, DiedInit, PutLineInit
<1>2. /\ TalkInv /\ LineInv /\ SizedInv /\ PutLineInv /\ [Next]_vars
        => LineInv' /\ SizedInv' /\ PutLineInv'
  BY LineStep, SizedStep, PutLineStep DEF TalkInv
<1>3. Spec => [](LineInv /\ SizedInv /\ PutLineInv)
  BY <1>1, <1>2, TalkInvariant, PTL DEF Spec
<1> QED BY <1>3, TalkInvariant, ReadInvariant, PTL DEF Talked

\* At a server that never ended the word on the way to the thread of a get is
\* "Ready" if and only if that is what the thread waits for.
WordInv == \A c \in Gets, s \in Server : ~died[s] =>
  \A m : c2s[c][s] = <<m>> => (m.t = "ready" <=> spc[s][c] = "get_ready")

\* Whatever the thread of a get does, it leaves nothing to be read.
LEMMA NothingUnread ==
  ASSUME TypeInv, RolesKept, NEW s \in Server, NEW c \in Gets, Line(c, s), ThreadStep(s, c),
         ~ServerDies(s)
  PROVE  c2s'[c][s] = <<>>
<1>0. c \in Client /\ NetType /\ ServerType
  BY DEF Gets, TypeInv, TypeOK
<1>1. \/ c2s'[c][s] = c2s[c][s] /\ c2s[c][s] = <<>>
      \/ c2s[c][s] # <<>> /\ c2s'[c][s] = Tail(c2s[c][s])
  <2>1. CASE GetOpen(s, c)
    BY <1>0, <2>1, GetOpens DEF Line
  <2>2. CASE RecvGet(s, c)
    BY <1>0, <2>2, GetFound
  <2>3. CASE RecvGetNotFound(s, c)
    BY <1>0, <2>3, GetNotFound
  <2>4. CASE GetSend(s, c)
    BY <1>0, <2>4, GetSends
  <2>5. CASE RecvDone(s, c)
    BY <1>0, <2>5, DoneServed
  <2> QED BY <2>1, <2>2, <2>3, <2>4, <2>5, ThreadsOfGet
<1> QED BY <1>0, <1>1, OneWord DEF Line

LEMMA WordOfOne ==
  ASSUME Talked, NoEmptyChunk, WordInv, NEW c \in Gets, ClientStep(c) \/ Kill(c),
         NEW s \in Server, ~died[s], NEW m, c2s'[c][s] = <<m>>
  PROVE  m.t = "ready" <=> spc'[s][c] = "get_ready"
<1>0. c \in Client /\ TalkInv /\ ReadInv /\ SizedInv
  BY DEF Gets, Talked
<1>1. \/ spc'[s][c] = spc[s][c]
      \/ spc'[s][c] = "recv" /\ spc[s][c] \notin {"get_lock", "get_ready"}
  BY <1>0, ThreadStarts
<1>2. Free(c, s) => spc[s][c] # "get_ready"
  BY <1>0, ReadersHaveBytes DEF Free, AtRest, Stale
<1>3. CASE c2s'[c][s] = c2s[c][s]
  BY <1>1, <1>3 DEF WordInv
<1>4. CASE Says(c, s)
  <2>1. PICK w : /\ c2s'[c][s] = <<w>>
                 /\ \/ w.t = "ready" /\ spc[s][c] = "get_ready"
                    \/ w.t = "done" /\ Free(c, s)
    BY <1>4 DEF Says
  <2>2. m = w
    BY <2>1, Singles
  <2> QED BY <1>1, <1>2, <2>1, <2>2
<1>5. CASE Asks(c, s)
  <2>1. m = Request(c) /\ Free(c, s)
    BY <1>5, Singles DEF Asks
  <2>2. m.t = "get"
    BY <2>1 DEF Request
  <2> QED BY <1>1, <1>2, <2>1, <2>2
<1> QED BY <1>0, <1>3, <1>4, <1>5, TalksOfOne DEF Talks, Keeps, Hears

LEMMA WordStep ==
  ASSUME NoEmptyChunk
  PROVE  Talked /\ WordInv /\ [Next]_vars => WordInv'
<1> SUFFICES ASSUME Talked, WordInv, [Next]_vars, NEW c \in Gets, NEW s \in Server,
                    ~died'[s], NEW m, c2s'[c][s] = <<m>>
             PROVE  m.t = "ready" <=> spc'[s][c] = "get_ready"
  BY DEF WordInv, Gets
<1>0. /\ c \in Client /\ TypeInv /\ RolesKept /\ NetType /\ ServerType /\ HistType /\ Line(c, s)
  BY DEF Gets, Talked, TalkInv, TypeInv, TypeOK, LineInv
<1>1. CASE died' = died /\ c2s'[c][s] = c2s[c][s] /\ spc'[s][c] = spc[s][c]
  BY <1>1 DEF WordInv
<1>2. ASSUME NEW d \in Client, ClientStep(d) \/ Kill(d)
      PROVE  m.t = "ready" <=> spc'[s][c] = "get_ready"
  <2>1. died' = died
    BY <1>2, ClientsLeaveDisk
  <2>2. CASE d = c
    BY <1>2, <2>1, <2>2, WordOfOne
  <2>3. CASE d # c
    BY <1>0, <1>1, <1>2, <2>1, <2>3, OthersKept DEF ClientKept, NetKept
  <2> QED BY <2>2, <2>3
<1>3. ASSUME NEW u \in Server, ServerDies(u)
      PROVE  m.t = "ready" <=> spc'[s][c] = "get_ready"
  <2>1. u # s
    BY <1>0, <1>3 DEF ServerDies, HistType
  <2>2. died'[s] = died[s] /\ c2s'[c][s] = c2s[c][s] /\ spc'[s][c] = spc[s][c]
    BY <1>0, <1>3, <2>1 DEF ServerDies, HistType, NetType, ServerType
  <2> QED BY <2>2 DEF WordInv
<1>4. ASSUME NEW u \in Server, NEW d \in Client, ThreadStep(u, d)
      PROVE  m.t = "ready" <=> spc'[s][c] = "get_ready"
  <2>1. CASE ServerDies(u)
    BY <1>3, <2>1
  <2>2. CASE ~ServerDies(u) /\ (u # s \/ d # c)
    <3>1. died' = died /\ c2s'[c][s] = c2s[c][s] /\ spc'[s][c] = spc[s][c]
      BY <1>0, <1>4, <2>2, ThreadsLeaveOthers DEF hist
    <3> QED BY <1>1, <3>1
  <2>3. CASE ~ServerDies(u) /\ u = s /\ d = c
    BY <1>0, <1>4, <2>3, NothingUnread, Singles
  <2> QED BY <2>1, <2>2, <2>3
<1>5. ASSUME NEW u \in Server, Crash(u) \/ Restart(u)
      PROVE  m.t = "ready" <=> spc'[s][c] = "get_ready"
  BY <1>1, <1>3, <1>5 DEF Crash, Restart, net, hist
<1>6. CASE UNCHANGED vars
  BY <1>1, <1>6 DEF vars, net, server, hist
<1> QED BY <1>2, <1>4, <1>5, <1>6 DEF Next

LEMMA InStepOfGet ==
  ASSUME Talked, WordInv, NEW c \in Gets, NEW s \in Server, ~died[s], c2s[c][s] # <<>>
  PROVE  /\ spc[s][c] = "recv" => Head(c2s[c][s]).t \in {"put", "get", "list", "done"}
         /\ spc[s][c] = "get_ready" => Head(c2s[c][s]).t = "ready"
<1>0. c \in Client /\ Job[c].cmd = "get" /\ RolesKept /\ Line(c, s)
  BY DEF Gets, Talked, TalkInv, LineInv
<1>1. PICK m : c2s[c][s] = <<m>>
  BY <1>0 DEF Line
<1>2. Head(c2s[c][s]) = m /\ (m.t = "ready" <=> spc[s][c] = "get_ready")
  BY <1>1, Singles DEF WordInv
<1>3. c2s[c][s] \in Seq(WordsOf(c))
  BY <1>0 DEF RolesKept
<1>4. m \in WordsOf(c)
  BY <1>1, <1>3, WordOf
<1>5. m.t \in {"get", "ready", "done"}
  BY <1>0, <1>4 DEF WordsOf
<1> QED BY <1>2, <1>5

LEMMA InStepOfPut ==
  ASSUME PutLineInv, NEW c \in Puts, NEW s \in Server, c2s[c][s] # <<>>, spc[s][c] = "recv"
  PROVE  Head(c2s[c][s]).t \in {"put", "done"}
<1> DEFINE done == [t |-> "done"]
<1>1. Leaving(c, s) \/ Saying(c, s)
  BY DEF PutLineInv, PutLine, Empty, Carries, Filing, Filed, Told
<1>2. CASE Leaving(c, s)
  <2>1. c2s[c][s] = <<done>> /\ done.t = "done"
    BY <1>2 DEF Leaving
  <2> QED BY <2>1, Singles
<1>3. CASE Saying(c, s)
  <2>1. PICK h : h.t = "put" /\ (c2s[c][s] = <<h>> \/ c2s[c][s] = <<h, Rest>>)
    BY <1>3 DEF Saying
  <2>2. Head(<<h>>) = h /\ Head(<<h, Rest>>) = h
    OBVIOUS
  <2> QED BY <2>1, <2>2
<1> QED BY <1>1, <1>2, <1>3

\* The two sides never lose step (dfs.c:71-343, dfc.c:152-201, 429): while a
\* server lives, whoever gives up or is killed in the middle of what, its
\* threads read commands where they take what they read for one, and "Ready"
\* where they take it for that; two puts may have one stamp, and names may
\* contain each other.  Not so where a chunk is empty.
THEOREM SidesInStep ==
  ASSUME NoEmptyChunk
  PROVE  Spec => []InStep
<1>1. Init => WordInv
  BY DEF Init, WordInv, Gets
<1>2. Spec => [](Talked /\ WordInv)
  BY <1>1, WordStep, TalkedInvariant, PTL DEF Spec
<1>3. Talked /\ WordInv => InStep
  <2> SUFFICES ASSUME Talked, WordInv, NEW s \in Server, NEW c \in Client, ~died[s],
                      c2s[c][s] # <<>>
               PROVE  /\ spc[s][c] = "recv" =>
                           Head(c2s[c][s]).t \in {"put", "get", "list", "done"}
                      /\ spc[s][c] = "get_ready" => Head(c2s[c][s]).t = "ready"
    BY DEF InStep
  <2>0. PutLineInv /\ RolesKept /\ NetType
    BY DEF Talked, TalkInv, TypeInv, TypeOK
  <2>1. CASE c \in Gets
    BY <2>1, InStepOfGet
  <2>2. CASE c \in Puts
    <3>1. spc[s][c] # "get_ready"
      BY <2>0, <2>2 DEF RolesKept, ThreadsOf, Puts
    <3> QED BY <2>0, <2>2, <3>1, InStepOfPut
  <2>3. CASE Job[c].cmd = "list"
    <3>1. spc[s][c] # "get_ready" /\ c2s[c][s] \in Seq(WordsOf(c))
      BY <2>0, <2>3 DEF RolesKept, ThreadsOf
    <3>2. Head(c2s[c][s]) \in WordsOf(c)
      BY <3>1
    <3>3. Head(c2s[c][s]).t \in {"list", "done"}
      BY <2>3, <3>2 DEF WordsOf
    <3> QED BY <3>1, <3>3
  <2> QED BY <2>1, <2>2, <2>3, CommandOf DEF Gets, Puts
<1> QED BY <1>2, <1>3, PTL
=============================================================================
